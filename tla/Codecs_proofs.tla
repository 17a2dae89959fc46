---------------------------- MODULE Codecs_proofs ----------------------------
(***************************************************************************)
(* What the encodings and their parsers do for every input, where the run  *)
(* of MCCodecs tries the short ones.  Parts laid end to end are found      *)
(* again (Cancel, in EdhocIdentifiers_proofs).  In order:                  *)
(*                                                                         *)
(*   inputs            the inputs stay typed (InputsHold), and what is     *)
(*                     xored comes back (XorBytesCancel)                   *)
(*   nonces, contexts  NoncesAlwaysApart, ContextsAlwaysApart              *)
(*   identifiers       IdentifiersRoundTrip, IdentifierParsersAlwaysAgree  *)
(*   raw keys          RawKeysAlwaysFit                                    *)
(*   the OSCORE option OptionsAlwaysRoundTrip                              *)
(*   recursion         a function that calls itself once exists            *)
(*   Partial IVs       PivsAlwaysRoundTrip                                 *)
(*   inner bodies      BodiesAlwaysSplit, BodyParsersAlwaysAgree           *)
(*   CBOR items        what a parser has read it reads from these bytes    *)
(*                     alone, and going forward (the lemmas ...Local)      *)
(*   ID_CREDs          IdCredsAlwaysCanonical                              *)
(*   cipher suites     SuitesAlwaysRead                                    *)
(*   parameters        what the code makes of a value alone it makes of it *)
(*                     in any map (ValueAlone), and                        *)
(*                     IdCredsAlwaysUnderstood                             *)
(*                                                                         *)
(* The lemmas on what a loop or a recursion reads go by induction on a     *)
(* length or a number: always on a set of numbers, never on a predicate.   *)
(***************************************************************************)
EXTENDS Codecs, EdhocIdentifiers_proofs, FiniteSetTheorems, WellFoundedInduction

-----------------------------------------------------------------------------
\* The inputs.

ByteStrings == {"identifier", "piv", "option", "names", "body", "id_cred"}

Inputs ==
  /\ codec \in ByteStrings => first \in Seq(Byte) /\ second \in Seq(Byte)
  /\ codec = "piv" => first \in Seq(0..(Base - 1))
  /\ codec = "identifier" => Len(first) <= CONNECTION_ID_CAPACITY
  /\ codec = "names" => Len(first) <= NONCE_ID_LEN /\ Len(second) <= NONCE_ID_LEN

\* A string of at most seven bytes that is not at its limit has room for one more.
LEMMA NotPadded ==
  ASSUME NEW length \in Nat, length <= 7, NEW longest \in Nat,
         length < longest \/ length \in {15, 272}
  PROVE  length < longest
  OBVIOUS

\* A Sender ID is at most seven bytes: NONCE_LEN - 6 of compute_nonce.
LEMMA NamesAreIds == Longest["names"] \in 0..7
  BY InputAssumption DEF NONCE_ID_LEN

\* The first inputs are typed,
LEMMA InitInputs == Init => Inputs
  BY DEF Init, Inputs, CONNECTION_ID_CAPACITY, NONCE_ID_LEN

\* every byte that is added, and every codec that is tried next, keeps them so,
LEMMA NextInputs == Inputs /\ [Next]_vars => Inputs'
<1> SUFFICES ASSUME Inputs, [Next]_vars PROVE Inputs'
  OBVIOUS
<1>1. CASE UNCHANGED vars
  BY <1>1 DEF vars, Inputs
<1>2. ASSUME NEW b \in Byte, Extend(b) PROVE Inputs'
  <2>1. /\ codec' = codec /\ second' = second /\ first' = Append(first, b)
        /\ Len(first) < Longest[codec] \/ Len(first) \in {15, 272}
        /\ b \in Heads[codec] \cup Alphabet[codec]
    BY <1>2 DEF Extend
  <2>2. CASE codec = "identifier"
    BY <2>1, <2>2, InputAssumption DEF Inputs, ByteStrings, CONNECTION_ID_CAPACITY
  <2>3. CASE codec = "names"
    <3>1. first \in Seq(Byte) /\ Len(first) \in Nat /\ Len(first) <= 7
      BY <2>3, LenProperties DEF Inputs, ByteStrings, NONCE_ID_LEN
    <3>2. PICK length \in Nat : length = Len(first)
      BY <3>1
    <3>3. PICK longest \in Nat : longest = Longest["names"]
      BY NamesAreIds
    <3>4. length <= 7 /\ (length < longest \/ length \in {15, 272})
      BY <2>1, <2>3, <3>1, <3>2, <3>3
    <3>5. length < longest
      BY <3>4, NotPadded
    <3> QED
      BY <3>1, <3>2, <3>3, <3>5, <2>1, <2>3, NamesAreIds DEF Inputs, ByteStrings, NONCE_ID_LEN
  <2>4. CASE codec = "piv"
    BY <2>1, <2>4, InputAssumption DEF Inputs, ByteStrings
  <2>5. CASE codec \notin {"identifier", "names", "piv"}
    BY <2>1, <2>5 DEF Inputs, ByteStrings
  <2> QED
    BY <2>2, <2>3, <2>4, <2>5
<1>3. ASSUME NEW b \in Byte, Follow(b) PROVE Inputs'
  <2>1. /\ codec' = codec /\ first' = first /\ second' = Append(second, b)
        /\ codec = "names" => Len(second) < Longest["names"]
    BY <1>3 DEF Follow
  <2> QED
    BY <2>1, NamesAreIds DEF Inputs, ByteStrings, NONCE_ID_LEN
<1>4. ASSUME NEW n \in {8, 13, 269}, Pad(n) PROVE Inputs'
  <2> DEFINE padding == [i \in 1..n |-> 1]
  <2>1. /\ codec' = codec /\ second' = second /\ first' = first \o padding
        /\ codec \in {"option", "body"}
    BY <1>4 DEF Pad
  <2>2. padding \in Seq(Byte)
    BY DEF Byte
  <2> HIDE DEF padding
  <2> QED
    BY <2>1, <2>2 DEF Inputs, ByteStrings
<1>5. ASSUME NEW delta, NEW length, AddOption(delta, length) PROVE Inputs'
  BY <1>5 DEF AddOption, Inputs, ByteStrings
<1>6. ASSUME NEW p, AddParameter(p) PROVE Inputs'
  BY <1>6 DEF AddParameter, Inputs, ByteStrings
<1>7. ASSUME NEW s, AddSuite(s) PROVE Inputs'
  BY <1>7 DEF AddSuite, Inputs, ByteStrings
<1> QED
  BY <1>1, <1>2, <1>3, <1>4, <1>5, <1>6, <1>7 DEF Next

\* and they are in every state.
LEMMA InputsHold == Spec => []Inputs
  BY InitInputs, NextInputs, PTL DEF Spec

\* Exclusive or is undone by itself: of two bits, of two pairs of bits, of two
\* nibbles, of two bytes.
LEMMA XorBitsCancel ==
  \A a, b, c \in 0..1 : XorBits(a, c) = XorBits(b, c) => a = b
  BY DEF XorBits

\* The exclusive or of two bits is a bit.
LEMMA XorBitsRange == \A a, c \in 0..1 : XorBits(a, c) \in 0..1
  BY DEF XorBits

\* Halves: a number below w * k has a quotient below w and a remainder below k
LEMMA Halves2 ==
  ASSUME NEW a \in 0..3
  PROVE  a \div 2 \in 0..1 /\ a % 2 \in 0..1 /\ a = 2 * (a \div 2) + (a % 2)
  OBVIOUS

\* A nibble in two halves,
LEMMA Halves4 ==
  ASSUME NEW a \in 0..15
  PROVE  a \div 4 \in 0..3 /\ a % 4 \in 0..3 /\ a = 4 * (a \div 4) + (a % 4)
  OBVIOUS

\* and a byte.
LEMMA Halves16 ==
  ASSUME NEW a \in 0..255
  PROVE  a \div 16 \in 0..15 /\ a % 16 \in 0..15 /\ a = 16 * (a \div 16) + (a % 16)
  OBVIOUS

\* Two bits at a time,
LEMMA XorPairsCancel ==
  ASSUME NEW a \in 0..3, NEW b \in 0..3, NEW c \in 0..3
  PROVE XorPairs(a, c) \in 0..3 /\ (XorPairs(a, c) = XorPairs(b, c) => a = b)
<1> DEFINE x == XorBits(a \div 2, c \div 2)
           y == XorBits(a % 2, c % 2)
           z == XorBits(b \div 2, c \div 2)
           w == XorBits(b % 2, c % 2)
<1>1. x \in 0..1 /\ y \in 0..1 /\ z \in 0..1 /\ w \in 0..1
  BY Halves2, XorBitsRange
<1>2. XorPairs(a, c) = 2 * x + y /\ XorPairs(b, c) = 2 * z + w
  BY DEF XorPairs
<1>3. x = z => a \div 2 = b \div 2
  BY Halves2, XorBitsCancel
<1>4. y = w => a % 2 = b % 2
  BY Halves2, XorBitsCancel
<1> HIDE DEF x, y, z, w
<1>5. 2 * x + y \in 0..3 /\ (2 * x + y = 2 * z + w => x = z /\ y = w)
  BY <1>1
<1> QED BY <1>2, <1>3, <1>4, <1>5, Halves2

\* four bits at a time,
LEMMA XorNibblesCancel ==
  ASSUME NEW a \in 0..15, NEW b \in 0..15, NEW c \in 0..15
  PROVE XorNibbles(a, c) \in 0..15 /\ (XorNibbles(a, c) = XorNibbles(b, c) => a = b)
<1> DEFINE x == XorPairs(a \div 4, c \div 4)
           y == XorPairs(a % 4, c % 4)
           z == XorPairs(b \div 4, c \div 4)
           w == XorPairs(b % 4, c % 4)
<1>1. x \in 0..3 /\ y \in 0..3 /\ z \in 0..3 /\ w \in 0..3
  BY Halves4, XorPairsCancel
<1>2. XorNibbles(a, c) = 4 * x + y /\ XorNibbles(b, c) = 4 * z + w
  BY DEF XorNibbles
<1>3. x = z => a \div 4 = b \div 4
  BY Halves4, XorPairsCancel
<1>4. y = w => a % 4 = b % 4
  BY Halves4, XorPairsCancel
<1> HIDE DEF x, y, z, w
<1>5. 4 * x + y \in 0..15 /\ (4 * x + y = 4 * z + w => x = z /\ y = w)
  BY <1>1
<1> QED BY <1>2, <1>3, <1>4, <1>5, Halves4

\* and the ^ of compute_nonce: the byte comes back from its exclusive or.
LEMMA XorBytesCancel ==
  ASSUME NEW a \in Byte, NEW b \in Byte, NEW c \in Byte, XorBytes(a, c) = XorBytes(b, c)
  PROVE  a = b
<1> DEFINE x == XorNibbles(a \div 16, c \div 16)
           y == XorNibbles(a % 16, c % 16)
           z == XorNibbles(b \div 16, c \div 16)
           w == XorNibbles(b % 16, c % 16)
<1>0. a \in 0..255 /\ b \in 0..255 /\ c \in 0..255
  BY DEF Byte
<1>1. x \in 0..15 /\ y \in 0..15 /\ z \in 0..15 /\ w \in 0..15
  <2>1. /\ a \div 16 \in 0..15 /\ b \div 16 \in 0..15 /\ c \div 16 \in 0..15
        /\ a % 16 \in 0..15 /\ b % 16 \in 0..15 /\ c % 16 \in 0..15
    BY <1>0, Halves16
  <2>2. x \in 0..15
    BY <2>1, XorNibblesCancel
  <2>3. y \in 0..15
    BY <2>1, XorNibblesCancel
  <2>4. z \in 0..15
    BY <2>1, XorNibblesCancel
  <2>5. w \in 0..15
    BY <2>1, XorNibblesCancel
  <2> QED
    BY <2>2, <2>3, <2>4, <2>5
<1>2. XorBytes(a, c) = 16 * x + y /\ XorBytes(b, c) = 16 * z + w
  BY DEF XorBytes
<1>3. x = z => a \div 16 = b \div 16
  BY <1>0, Halves16, XorNibblesCancel
<1>4. y = w => a % 16 = b % 16
  BY <1>0, Halves16, XorNibblesCancel
<1> HIDE DEF x, y, z, w
<1>5. 16 * x + y = 16 * z + w => x = z /\ y = w
  BY <1>1
<1> QED BY <1>0, <1>2, <1>3, <1>4, <1>5, Halves16



-----------------------------------------------------------------------------
\* Byte strings by their length.
Strings(n) == {s \in Seq(Byte) : Len(s) <= n}
Exactly(n) == {s \in Seq(Byte) : Len(s) = n}

\* Lengths are numbers: of a string of bounded length,
LEMMA Size ==
  ASSUME NEW n \in Nat, NEW s \in Strings(n)
  PROVE  s \in Seq(Byte) /\ \E k \in 0..n : Len(s) = k
<1>1. s \in Seq(Byte) /\ Len(s) <= n
  BY DEF Strings
<1>2. PICK k \in Nat : k = Len(s)
  BY <1>1, LenProperties
<1>3. k <= n
  BY <1>1, <1>2
<1> QED
  BY <1>1, <1>2, <1>3

\* and of a string of known length.
LEMMA ExactSize ==
  ASSUME NEW n \in Nat, NEW s \in Exactly(n)
  PROVE  s \in Seq(Byte) /\ Len(s) = n
BY DEF Exactly

\* Two strings of known length, one behind the other.
LEMMA Joined ==
  ASSUME NEW m \in Nat, NEW n \in Nat, NEW a \in Exactly(m), NEW b \in Exactly(n)
  PROVE  a \o b \in Exactly(m + n)
<1>1. a \in Seq(Byte) /\ b \in Seq(Byte) /\ Len(a) = m /\ Len(b) = n
  BY DEF Exactly
<1>2. a \o b \in Seq(Byte) /\ Len(a \o b) = Len(a) + Len(b)
  BY <1>1, ConcatProperties
<1> QED
  BY <1>1, <1>2 DEF Exactly

\* A single byte is a string of length one.
LEMMA OneByte ==
  ASSUME NEW e \in Byte
  PROVE  <<e>> \in Exactly(1)
BY DEF Exactly

\* Cancel, the length of the first parts known.
LEMMA CancelExactly ==
  ASSUME NEW n \in Nat, NEW a \in Exactly(n), NEW b \in Exactly(n),
         NEW x \in Seq(Byte), NEW y \in Seq(Byte), a \o x = b \o y
  PROVE  a = b /\ x = y
<1>1. a \in Seq(Byte) /\ b \in Seq(Byte) /\ Len(a) = Len(b)
  BY DEF Exactly
<1> QED
  BY <1>1, Cancel

\* Zero bytes in front give a string its length.
LEMMA Padded ==
  ASSUME NEW n \in Nat, NEW s \in Strings(n), NEW m \in 0..n, Len(s) = m
  PROVE  /\ PadLeft(s, n) \in Exactly(n)
         /\ \A i \in 1..n : PadLeft(s, n)[i] = IF i <= n - m THEN 0 ELSE s[i - (n - m)]
<1>1. PICK k \in Nat : k = n - m
  OBVIOUS
<1>0. s \in Seq(Byte)
  BY DEF Strings
<1> DEFINE zeros == [i \in 1..k |-> 0]
<1>2. zeros \in Seq(Byte) /\ Len(zeros) = k /\ \A i \in 1..k : zeros[i] = 0
  BY DEF Byte
<1> HIDE DEF zeros
<1>3. PadLeft(s, n) = zeros \o s
  BY <1>1 DEF PadLeft, zeros
<1>5. /\ zeros \o s \in Seq(Byte) /\ Len(zeros \o s) = k + m
      /\ \A i \in 1..(k + m) : (zeros \o s)[i] = IF i <= k THEN zeros[i] ELSE s[i - k]
  <2>1. /\ zeros \o s \in Seq(Byte) /\ Len(zeros \o s) = Len(zeros) + Len(s)
        /\ \A i \in 1..(Len(zeros) + Len(s)) :
             (zeros \o s)[i] = IF i <= Len(zeros) THEN zeros[i] ELSE s[i - Len(zeros)]
    BY <1>0, <1>2, ConcatProperties
  <2> QED
    BY <2>1, <1>2
<1>6. k + m = n
  BY <1>1
<1> QED
  BY <1>1, <1>2, <1>3, <1>5, <1>6 DEF Exactly

\* Of a known length, it can be told from its padding.
LEMMA PadLeftCancel ==
  ASSUME NEW n \in Nat, NEW s \in Strings(n), NEW t \in Strings(n),
         Len(s) = Len(t), PadLeft(s, n) = PadLeft(t, n)
  PROVE  s = t
<1>1. PICK m \in 0..n : Len(s) = m
  BY Size
<1>2. ASSUME NEW i \in 1..m PROVE s[i] = t[i]
  <2>1. PICK j \in 1..n : j = i + (n - m)
    OBVIOUS
  <2>2. ~(j <= n - m) /\ j - (n - m) = i
    BY <2>1
  <2>3. \A k \in 1..n : PadLeft(s, n)[k] = IF k <= n - m THEN 0 ELSE s[k - (n - m)]
    BY <1>1, Padded
  <2>4. \A k \in 1..n : PadLeft(t, n)[k] = IF k <= n - m THEN 0 ELSE t[k - (n - m)]
    BY <1>1, Padded
  <2> QED
    BY <2>2, <2>3, <2>4
<1>3. s \in Seq(Byte) /\ t \in Seq(Byte)
  BY DEF Strings
<1> QED
  BY <1>1, <1>2, <1>3, SeqEqual

\* Partial IVs that from_piv takes.
PivStrings == {p \in Seq(Byte) : CanonicalPiv(p)}

\* A Partial IV as encode_piv makes it: one to five bytes, no leading zero.
LEMMA PivSize ==
  ASSUME NEW p \in PivStrings
  PROVE  /\ p \in Strings(5)
         /\ \E k \in 1..5 : Len(p) = k /\ (k > 1 => p[1] # 0)
<1>1. p \in Seq(Byte) /\ Len(p) \in 1..5 /\ (Len(p) > 1 => p[1] # 0)
  BY DEF PivStrings, CanonicalPiv, PIV_MAX_LEN
<1>2. PICK k \in 1..5 : Len(p) = k
  BY <1>1
<1>3. k > 1 => p[1] # 0
  BY <1>1, <1>2
<1>4. p \in Strings(5)
  BY <1>1, <1>2 DEF Strings
<1> QED
  BY <1>2, <1>3, <1>4

\* Padded to five bytes, a shorter Partial IV begins with a zero where a longer
\* one does not,
LEMMA ShorterPivDiffers ==
  ASSUME NEW p \in PivStrings, NEW q \in PivStrings, NEW m \in 1..5, NEW n \in 1..5,
         Len(p) = m, Len(q) = n, m < n
  PROVE  PadLeft(p, 5) # PadLeft(q, 5)
<1>1. p \in Strings(5) /\ q \in Strings(5) /\ q[1] # 0
  <2>1. p \in Strings(5)
    BY PivSize
  <2>2. PICK k \in 1..5 : q \in Strings(5) /\ Len(q) = k /\ (k > 1 => q[1] # 0)
    BY PivSize
  <2>3. k > 1
    BY <2>2
  <2> QED
    BY <2>1, <2>2, <2>3
<1>2. PICK j \in 1..5 : j = 6 - n
  OBVIOUS
<1>3. j <= 5 - m /\ ~(j <= 5 - n) /\ j - (5 - n) = 1
  BY <1>2
<1>4. m \in 0..5 /\ n \in 0..5 /\ 5 \in Nat
  OBVIOUS
<1>5. PadLeft(p, 5)[j] = IF j <= 5 - m THEN 0 ELSE p[j - (5 - m)]
  BY <1>1, <1>4, Padded
<1>6. PadLeft(q, 5)[j] = IF j <= 5 - n THEN 0 ELSE q[j - (5 - n)]
  BY <1>1, <1>4, Padded
<1> QED
  BY <1>1, <1>3, <1>5, <1>6

\* so the padding of compute_nonce does not make two of them equal.
LEMMA PivPadCancel ==
  ASSUME NEW p \in PivStrings, NEW q \in PivStrings, PadLeft(p, 5) = PadLeft(q, 5)
  PROVE  p = q
<1>1. PICK m \in 1..5 : Len(p) = m
  BY PivSize
<1>2. PICK n \in 1..5 : Len(q) = n
  BY PivSize
<1>3. ~(m < n) /\ ~(n < m)
  BY <1>1, <1>2, ShorterPivDiffers
<1>4. m = n
  BY <1>3
<1>5. p \in Strings(5) /\ q \in Strings(5) /\ Len(p) = Len(q) /\ 5 \in Nat
  BY <1>1, <1>2, <1>4, PivSize
<1> QED
  BY <1>5, PadLeftCancel

\* What compute_nonce combines with the Common IV.
NonceText(id, piv) ==
  <<Len(id)>> \o PadLeft(id, NONCE_ID_LEN) \o PadLeft(piv, PIV_MAX_LEN)

\* The text the Common IV is laid over: S, the padded ID, the padded Partial IV
\* give back the ID and the Partial IV.
LEMMA NonceTextCancel ==
  ASSUME NEW id \in Strings(7), NEW other \in Strings(7),
         NEW p \in PivStrings, NEW q \in PivStrings
  PROVE  /\ NonceText(id, p) \in Exactly(13)
         /\ NonceText(id, p) = NonceText(other, q) => id = other /\ p = q
<1> DEFINE Name(i) == PadLeft(i, 7)
           Number(v) == PadLeft(v, 5)
<1>1. ASSUME NEW i \in Strings(7)
      PROVE  Len(i) \in Byte /\ Name(i) \in Exactly(7) /\ <<Len(i)>> \in Exactly(1)
  <2>1. PICK k \in 0..7 : Len(i) = k
    BY <1>1, Size
  <2>2. Name(i) \in Exactly(7)
    BY <2>1, Padded
  <2>3. k \in Byte
    BY DEF Byte
  <2> QED
    BY <2>1, <2>2, <2>3, OneByte
<1>2. ASSUME NEW v \in PivStrings PROVE Number(v) \in Exactly(5)
  <2>1. PICK k \in 1..5 : Len(v) = k
    BY PivSize
  <2>2. v \in Strings(5) /\ k \in 0..5 /\ 5 \in Nat
    BY PivSize
  <2> QED
    BY <2>1, <2>2, Padded
<1>3. ASSUME NEW i \in Strings(7), NEW v \in PivStrings
      PROVE  NonceText(i, v) = (<<Len(i)>> \o Name(i)) \o Number(v)
  BY DEF NonceText, NONCE_ID_LEN, PIV_MAX_LEN
<1> HIDE DEF Name, Number
<1>4. ASSUME NEW i \in Strings(7) PROVE <<Len(i)>> \o Name(i) \in Exactly(8)
  <2>1. <<Len(i)>> \o Name(i) \in Exactly(1 + 7)
    BY <1>1, Joined
  <2> QED
    BY <2>1
<1>5. ASSUME NEW x \in Exactly(8), NEW y \in Exactly(5) PROVE x \o y \in Exactly(13)
  <2>1. x \o y \in Exactly(8 + 5)
    BY Joined
  <2> QED
    BY <2>1
<1>6. NonceText(id, p) \in Exactly(13)
  BY <1>2, <1>3, <1>4, <1>5
<1>7. ASSUME NonceText(id, p) = NonceText(other, q) PROVE id = other /\ p = q
  <2> DEFINE a == <<Len(id)>> \o Name(id)
             b == <<Len(other)>> \o Name(other)
  <2>1. a \in Exactly(8) /\ b \in Exactly(8)
    BY <1>4
  <2>2. Number(p) \in Seq(Byte) /\ Number(q) \in Seq(Byte)
    BY <1>2, ExactSize
  <2>3. a \o Number(p) = b \o Number(q)
    BY <1>3, <1>7
  <2> HIDE DEF a, b
  <2>4. a = b /\ Number(p) = Number(q)
    <3>1. a \in Seq(Byte) /\ b \in Seq(Byte) /\ Len(a) = Len(b)
      BY <2>1, ExactSize
    <3> QED
      BY <2>2, <2>3, <3>1, Cancel
  <2>5. Len(id) = Len(other) /\ Name(id) = Name(other)
    <3>1. <<Len(id)>> \o Name(id) = <<Len(other)>> \o Name(other)
      BY <2>4 DEF a, b
    <3>2. /\ Len(id) \in Byte /\ Len(other) \in Byte
          /\ Name(id) \in Seq(Byte) /\ Name(other) \in Seq(Byte)
      BY <1>1, ExactSize
    <3> QED
      BY <3>1, <3>2, CancelByte
  <2>6. id = other
    BY <2>5, PadLeftCancel DEF Name
  <2>7. p = q
    BY <2>4, PivPadCancel DEF Number
  <2> QED
    BY <2>6, <2>7
<1> QED
  BY <1>6, <1>7

\* The Common IV does not mix up two texts.
LEMMA NonceCancel ==
  ASSUME NEW id \in Strings(7), NEW other \in Strings(7),
         NEW p \in PivStrings, NEW q \in PivStrings,
         NEW iv \in [1..NONCE_LEN -> Byte],
         compute_nonce(id, p, iv) = compute_nonce(other, q, iv)
  PROVE  id = other /\ p = q
<1> DEFINE n == NonceText(id, p)
           m == NonceText(other, q)
<1>1. n \in Seq(Byte) /\ Len(n) = 13 /\ m \in Seq(Byte) /\ Len(m) = 13
  <2>1. n \in Exactly(13) /\ m \in Exactly(13)
    BY NonceTextCancel
  <2> QED
    BY <2>1, ExactSize
<1>2. /\ compute_nonce(id, p, iv) = [i \in 1..13 |-> XorBytes(n[i], iv[i])]
      /\ compute_nonce(other, q, iv) = [i \in 1..13 |-> XorBytes(m[i], iv[i])]
  BY DEF compute_nonce, NonceText, NONCE_LEN
<1>3. n = m => id = other /\ p = q
  BY NonceTextCancel
<1> HIDE DEF n, m
<1>4. ASSUME NEW i \in 1..13 PROVE n[i] = m[i]
  <2>1. XorBytes(n[i], iv[i]) = XorBytes(m[i], iv[i])
    BY <1>2
  <2>2. n[i] \in Byte /\ m[i] \in Byte
    BY <1>1, ElementOfSeq
  <2>3. iv[i] \in Byte
    BY DEF NONCE_LEN
  <2> QED
    BY <2>1, <2>2, <2>3, XorBytesCancel
<1>5. n = m
  BY <1>1, <1>4, SeqEqual
<1> QED
  BY <1>3, <1>5

\* The provers reason about these by the lemmas below, not by the elements.
Cat(a, b) == a \o b
One(b) == <<b>>

\* Bytes behind bytes are bytes,
LEMMA CatBytes ==
  ASSUME NEW a \in Seq(Byte), NEW b \in Seq(Byte)
  PROVE  Cat(a, b) \in Seq(Byte)
BY ConcatProperties DEF Cat

\* and so is one of them.
LEMMA OneBytes ==
  ASSUME NEW b \in Byte
  PROVE  One(b) \in Seq(Byte)
BY DEF One

\* Laying end to end is associative: three parts,
LEMMA CatRegroup ==
  ASSUME NEW a \in Seq(Byte), NEW b \in Seq(Byte), NEW c \in Seq(Byte)
  PROVE  Cat(Cat(a, b), c) = Cat(a, Cat(b, c))
BY ConcatAssociative DEF Cat

\* and four.
LEMMA CatRegroup4 ==
  ASSUME NEW a \in Seq(Byte), NEW b \in Seq(Byte), NEW c \in Seq(Byte), NEW d \in Seq(Byte)
  PROVE  Cat(Cat(Cat(a, b), c), d) = Cat(a, Cat(b, Cat(c, d)))
BY CatBytes, CatRegroup

\* Cancel for Cat,
LEMMA CatCancel ==
  ASSUME NEW a \in Seq(Byte), NEW b \in Seq(Byte), NEW x \in Seq(Byte), NEW y \in Seq(Byte),
         Len(a) = Len(b), Cat(a, x) = Cat(b, y)
  PROVE  a = b /\ x = y
BY Cancel DEF Cat

\* CancelByte for Cat and One.
LEMMA OneCancel ==
  ASSUME NEW a \in Byte, NEW b \in Byte, NEW x \in Seq(Byte), NEW y \in Seq(Byte),
         Cat(One(a), x) = Cat(One(b), y)
  PROVE  a = b /\ x = y
BY CancelByte DEF Cat, One

\* Strings that end in a byte each and are equal end in the same byte.
LEMMA LastByte ==
  ASSUME NEW s \in Seq(Byte), NEW t \in Seq(Byte), NEW a \in Byte, NEW b \in Byte,
         Cat(s, One(a)) = Cat(t, One(b))
  PROVE  a = b
<1>1. Append(s, a) = Append(t, b)
  BY AppendIsConcat DEF Cat, One
<1> QED
  BY <1>1, AppendInjective

\* Two bytes are the pair of them.
LEMMA PairBytes ==
  ASSUME NEW a \in Byte, NEW b \in Byte
  PROVE  Cat(One(a), One(b)) = <<a, b>>
<1> DEFINE s == <<a>>
           t == <<b>>
           u == <<a, b>>
<1>1. s \in Seq(Byte) /\ t \in Seq(Byte) /\ u \in Seq(Byte)
      /\ Len(s) = 1 /\ Len(t) = 1 /\ Len(u) = 2 /\ s[1] = a /\ t[1] = b /\ u[1] = a /\ u[2] = b
  OBVIOUS
<1> HIDE DEF s, t, u
<1>2. /\ s \o t \in Seq(Byte) /\ Len(s \o t) = Len(s) + Len(t)
      /\ \A i \in 1..(Len(s) + Len(t)) : (s \o t)[i] = IF i <= Len(s) THEN s[i] ELSE t[i - Len(s)]
  BY <1>1, ConcatProperties
<1>3. Len(s) + Len(t) = 2
  BY <1>1
<1>4. (s \o t)[1] = a /\ (s \o t)[2] = b
  BY <1>1, <1>2, <1>3
<1>5. ASSUME NEW i \in 1..2 PROVE (s \o t)[i] = u[i]
  <2>1. CASE i = 1
    BY <1>1, <1>4, <2>1
  <2>2. CASE i = 2
    BY <1>1, <1>4, <2>2
  <2>3. i = 1 \/ i = 2
    OBVIOUS
  <2> QED
    BY <2>1, <2>2, <2>3
<1>6. s \o t = u
  BY <1>1, <1>2, <1>3, <1>5, SeqEqual
<1> QED
  BY <1>6 DEF Cat, One, s, t, u

\* A string that begins with its length, counted from k.
Tagged(k, s) == Cat(One(k + Len(s)), s)

\* A CBOR string of at most eight bytes is its head byte and its bytes,
LEMMA TaggedBytes ==
  ASSUME NEW k \in 0..200, NEW s \in Strings(8)
  PROVE  /\ Tagged(k, s) \in Seq(Byte) /\ s \in Seq(Byte)
         /\ \E n \in 0..8, c \in Byte :
              Len(s) = n /\ k + Len(s) = c /\ c = k + n /\ Tagged(k, s) = Cat(One(c), s)
<1>1. PICK n \in 0..8 : Len(s) = n
  BY Size
<1>2. PICK c \in Byte : c = k + n
  BY DEF Byte
<1>3. k + Len(s) = c
  BY <1>1, <1>2
<1>4. s \in Seq(Byte)
  BY DEF Strings
<1>5. Tagged(k, s) = Cat(One(c), s)
  BY <1>3 DEF Tagged
<1>6. Cat(One(c), s) \in Seq(Byte)
  BY <1>4, OneBytes, CatBytes
<1> QED
  BY <1>1, <1>2, <1>3, <1>4, <1>5, <1>6

\* and so is the string of the hashed text, whose head is its length.
LEMMA LengthFirst ==
  ASSUME NEW s \in Strings(8)
  PROVE  /\ Tagged(0, s) \in Seq(Byte) /\ s \in Seq(Byte)
         /\ \E n \in Byte : Len(s) = n /\ Tagged(0, s) = Cat(One(n), s)
<1>1. PICK n \in 0..8 : Len(s) = n
  BY Size
<1>2. s \in Seq(Byte) /\ n \in Byte
  BY DEF Strings, Byte
<1>3. 0 + Len(s) = n
  <2>1. 0 + n = n
    OBVIOUS
  <2> QED
    BY <1>1, <2>1
<1>4. Tagged(0, s) = Cat(One(n), s)
  BY <1>3 DEF Tagged
<1>5. Cat(One(n), s) \in Seq(Byte)
  BY <1>2, OneBytes, CatBytes
<1> QED
  BY <1>1, <1>2, <1>4, <1>5

\* It ends where it says.
LEMMA TaggedCancel ==
  ASSUME NEW k \in 0..200, NEW a \in Strings(8), NEW b \in Strings(8),
         NEW x \in Seq(Byte), NEW y \in Seq(Byte), Cat(Tagged(k, a), x) = Cat(Tagged(k, b), y)
  PROVE  a = b /\ x = y
<1>1. PICK m \in 0..8, c \in Byte :
        Len(a) = m /\ c = k + m /\ Tagged(k, a) = Cat(One(c), a)
  BY TaggedBytes
<1>2. PICK n \in 0..8, d \in Byte :
        Len(b) = n /\ d = k + n /\ Tagged(k, b) = Cat(One(d), b)
  BY TaggedBytes
<1>3. a \in Seq(Byte) /\ b \in Seq(Byte)
  BY TaggedBytes
<1>4. Cat(One(c), Cat(a, x)) = Cat(One(d), Cat(b, y))
  BY <1>1, <1>2, <1>3, OneBytes, CatRegroup
<1>5. c = d /\ Cat(a, x) = Cat(b, y)
  BY <1>3, <1>4, CatBytes, OneCancel
<1>6. m = n
  BY <1>1, <1>2, <1>5
<1>7. Len(a) = Len(b)
  BY <1>1, <1>2, <1>6
<1> QED
  BY <1>3, <1>5, <1>7, CatCancel

\* A string behind its length gives both back.
LEMMA LengthFirstCancel ==
  ASSUME NEW a \in Strings(8), NEW b \in Strings(8),
         NEW x \in Seq(Byte), NEW y \in Seq(Byte), Cat(Tagged(0, a), x) = Cat(Tagged(0, b), y)
  PROVE  a = b /\ x = y
BY TaggedCancel

\* A string within a limit is within a larger one.
LEMMA StringsGrow ==
  ASSUME NEW m \in Nat, NEW n \in Nat, m <= n, NEW s \in Strings(m)
  PROVE  s \in Strings(n)
<1>1. PICK k \in 0..m : s \in Seq(Byte) /\ Len(s) = k
  BY Size
<1>2. k <= n
  OBVIOUS
<1> QED
  BY <1>1, <1>2 DEF Strings

\* build_aad_cbor: the AAD gives back the key identifier and the Partial IV.
LEMMA AadCancel ==
  ASSUME NEW id \in Strings(8), NEW other \in Strings(8),
         NEW p \in Strings(8), NEW q \in Strings(8),
         build_aad_cbor(id, p) = build_aad_cbor(other, q)
  PROVE  id = other /\ p = q
<1> DEFINE head == <<133, 1, 129, ALG_AEAD>>
           end == One(64)
<1>1. head \in Seq(Byte) /\ end \in Seq(Byte)
  BY DEF Byte, ALG_AEAD, One
<1>2. ASSUME NEW i \in Strings(8), NEW v \in Strings(8)
      PROVE  build_aad_cbor(i, v) = Cat(Cat(Cat(head, Tagged(64, i)), Tagged(64, v)), end)
  BY DEF build_aad_cbor, ByteString, Tagged, Cat, One
<1> HIDE DEF head, end
<1>3. 64 \in 0..200
  OBVIOUS
<1>4. ASSUME NEW i \in Strings(8) PROVE Tagged(64, i) \in Seq(Byte)
  BY <1>3, TaggedBytes
<1>5. ASSUME NEW i \in Strings(8), NEW v \in Strings(8)
      PROVE  build_aad_cbor(i, v) = Cat(head, Cat(Tagged(64, i), Cat(Tagged(64, v), end)))
  BY <1>1, <1>2, <1>4, CatRegroup4
<1>6. Cat(Tagged(64, id), Cat(Tagged(64, p), end)) = Cat(Tagged(64, other), Cat(Tagged(64, q), end))
  BY <1>1, <1>4, <1>5, CatBytes, CatCancel
<1>7. id = other /\ Cat(Tagged(64, p), end) = Cat(Tagged(64, q), end)
  BY <1>1, <1>3, <1>4, <1>6, CatBytes, TaggedCancel, SMTT(30)
<1>8. p = q
  BY <1>1, <1>3, <1>7, TaggedCancel
<1> QED
  BY <1>7, <1>8

\* ID contexts, and what build_info_cbor and derive_context_id make of them.
IdContexts == Strings(8) \cup {Absent}

\* No ID Context is not an empty one.
LEMMA AbsentApart == Absent \notin Strings(8)
<1>1. Absent \notin Seq(Byte)
  <2>1. SUFFICES ASSUME Absent \in Seq(Byte) PROVE FALSE
    OBVIOUS
  <2>2. Byte \subseteq Nat
    BY DEF Byte
  <2>3. Absent \in Seq(Nat)
    BY <2>1, <2>2, SeqMonotonic
  <2> QED
    BY <2>3, OptionAssumption
<1> QED
  BY <1>1 DEF Strings

\* The empty string is within every limit.
LEMMA EmptyString == <<>> \in Strings(8)
BY DEF Strings

\* Either form of an ID context tells its first byte, and then where it ends.
InfoContext(c) == IF c = Absent THEN One(246) ELSE Tagged(64, c)
HashedContext(c) == IF c = Absent THEN One(0) ELSE Cat(One(1), Tagged(0, c))

\* The ID Context in the HKDF info: null, or a CBOR string,
LEMMA InfoContextBytes ==
  ASSUME NEW c \in IdContexts
  PROVE  InfoContext(c) \in Seq(Byte)
<1>1. 64 \in 0..200 /\ 246 \in Byte
  BY DEF Byte
<1> QED
  BY <1>1, TaggedBytes, OneBytes DEF InfoContext, IdContexts

\* which gives the ID Context back, whatever follows it.
LEMMA InfoContextCancel ==
  ASSUME NEW c \in IdContexts, NEW d \in IdContexts, NEW x \in Seq(Byte), NEW y \in Seq(Byte),
         Cat(InfoContext(c), x) = Cat(InfoContext(d), y)
  PROVE  c = d /\ x = y
<1>1. 64 \in 0..200 /\ 246 \in Byte
  BY DEF Byte
<1>2. ASSUME NEW s \in Strings(8), NEW u \in Seq(Byte), NEW v \in Seq(Byte),
             Cat(One(246), u) = Cat(Tagged(64, s), v)
      PROVE  FALSE
  <2>1. PICK n \in 0..8, b \in Byte : b = 64 + n /\ Tagged(64, s) = Cat(One(b), s) /\ s \in Seq(Byte)
    BY <1>1, TaggedBytes
  <2>2. Cat(One(246), u) = Cat(One(b), Cat(s, v))
    BY <1>2, <2>1, OneBytes, CatRegroup
  <2>3. 246 = b
    BY <1>1, <2>1, <2>2, CatBytes, OneCancel
  <2> QED
    BY <2>1, <2>3
<1>3. CASE c = Absent /\ d = Absent
  BY <1>1, <1>3, OneCancel DEF InfoContext
<1>4. CASE c = Absent /\ d # Absent
  BY <1>2, <1>4 DEF InfoContext, IdContexts
<1>5. CASE c # Absent /\ d = Absent
  BY <1>2, <1>5 DEF InfoContext, IdContexts
<1>6. CASE c # Absent /\ d # Absent
  BY <1>1, <1>6, TaggedCancel DEF InfoContext, IdContexts
<1> QED
  BY <1>3, <1>4, <1>5, <1>6

\* The ID Context in the text derive_context_id hashes: a flag, then the string,
LEMMA HashedContextBytes ==
  ASSUME NEW c \in IdContexts
  PROVE  HashedContext(c) \in Seq(Byte)
<1>1. 0 \in 0..200 /\ 0 \in Byte /\ 1 \in Byte
  BY DEF Byte
<1>2. CASE c = Absent
  BY <1>1, <1>2, OneBytes DEF HashedContext
<1>3. CASE c # Absent
  BY <1>1, <1>3, TaggedBytes, OneBytes, CatBytes DEF HashedContext, IdContexts
<1> QED
  BY <1>2, <1>3

\* which gives the ID Context back, whatever follows it.
LEMMA HashedContextCancel ==
  ASSUME NEW c \in IdContexts, NEW d \in IdContexts, NEW x \in Seq(Byte), NEW y \in Seq(Byte),
         Cat(HashedContext(c), x) = Cat(HashedContext(d), y)
  PROVE  c = d /\ x = y
<1>1. 0 \in 0..200 /\ 0 \in Byte /\ 1 \in Byte /\ 0 # 1
  BY DEF Byte
<1>2. ASSUME NEW s \in Strings(8), NEW v \in Seq(Byte)
      PROVE  /\ Cat(Cat(One(1), Tagged(0, s)), v) = Cat(One(1), Cat(Tagged(0, s), v))
             /\ Cat(Tagged(0, s), v) \in Seq(Byte)
  <2>1. Tagged(0, s) \in Seq(Byte) /\ One(1) \in Seq(Byte)
    BY <1>1, LengthFirst, OneBytes
  <2> QED
    BY <2>1, CatBytes, CatRegroup
<1>3. CASE c = Absent /\ d = Absent
  BY <1>1, <1>3, OneCancel DEF HashedContext
<1>4. CASE c = Absent /\ d # Absent
  BY <1>1, <1>2, <1>4, OneCancel DEF HashedContext, IdContexts
<1>5. CASE c # Absent /\ d = Absent
  BY <1>1, <1>2, <1>5, OneCancel DEF HashedContext, IdContexts
<1>6. CASE c # Absent /\ d # Absent
  <2>1. c \in Strings(8) /\ d \in Strings(8)
    BY <1>6 DEF IdContexts
  <2>2. Cat(One(1), Cat(Tagged(0, c), x)) = Cat(One(1), Cat(Tagged(0, d), y))
    BY <1>2, <1>6, <2>1 DEF HashedContext
  <2>3. Cat(Tagged(0, c), x) = Cat(Tagged(0, d), y)
    BY <1>1, <1>2, <2>1, <2>2, OneCancel
  <2> QED
    BY <2>1, <2>3, LengthFirstCancel
<1> QED
  BY <1>3, <1>4, <1>5, <1>6

\* The inputs of the key derivation, regrouped.
InfoEnd(type, length) == Cat(One(ALG_AEAD), Cat(type, One(length)))

\* build_info_cbor, read as one part behind the other.
LEMMA InfoGrouped ==
  ASSUME NEW id \in Strings(8), NEW c \in IdContexts, NEW type \in Seq(Byte), NEW length \in Byte
  PROVE  /\ build_info_cbor(id, c, type, length) =
              Cat(One(133), Cat(Tagged(64, id), Cat(InfoContext(c), InfoEnd(type, length))))
         /\ InfoEnd(type, length) \in Seq(Byte)
         /\ Cat(InfoContext(c), InfoEnd(type, length)) \in Seq(Byte)
         /\ Cat(Tagged(64, id), Cat(InfoContext(c), InfoEnd(type, length))) \in Seq(Byte)
<1> DEFINE i == Tagged(64, id)
           k == InfoContext(c)
           h == One(133)
           a == One(ALG_AEAD)
           l == One(length)
<1>1. build_info_cbor(id, c, type, length) = Cat(Cat(Cat(Cat(Cat(h, i), k), a), type), l)
  BY DEF build_info_cbor, ByteString, Tagged, InfoContext, Cat, One
<1>2. /\ i \in Seq(Byte) /\ k \in Seq(Byte) /\ h \in Seq(Byte)
      /\ a \in Seq(Byte) /\ l \in Seq(Byte)
  <2>1. 64 \in 0..200 /\ 133 \in Byte /\ ALG_AEAD \in Byte
    BY DEF Byte, ALG_AEAD
  <2> QED
    BY <2>1, OneBytes, TaggedBytes, InfoContextBytes
<1>3. InfoEnd(type, length) = Cat(a, Cat(type, l))
  BY DEF InfoEnd
<1> HIDE DEF i, k, h, a, l
<1>4. Cat(Cat(h, i), k) \in Seq(Byte)
  BY <1>2, CatBytes
<1>5. Cat(Cat(Cat(Cat(Cat(h, i), k), a), type), l) = Cat(Cat(Cat(h, i), k), Cat(a, Cat(type, l)))
  BY <1>2, <1>4, CatRegroup4
<1>6. Cat(a, Cat(type, l)) \in Seq(Byte)
  BY <1>2, CatBytes
<1>7. Cat(Cat(Cat(h, i), k), Cat(a, Cat(type, l))) = Cat(h, Cat(i, Cat(k, Cat(a, Cat(type, l)))))
  BY <1>2, <1>6, CatRegroup4
<1>8. /\ Cat(k, Cat(a, Cat(type, l))) \in Seq(Byte)
      /\ Cat(i, Cat(k, Cat(a, Cat(type, l)))) \in Seq(Byte)
  BY <1>2, <1>6, CatBytes
<1> QED
  BY <1>1, <1>3, <1>5, <1>6, <1>7, <1>8 DEF i, k, h

\* build_info_cbor: the info gives back the identifier and the ID Context.
LEMMA InfoCancel ==
  ASSUME NEW id \in Strings(8), NEW other \in Strings(8), NEW c \in IdContexts, NEW d \in IdContexts,
         NEW type \in Seq(Byte), NEW length \in Byte,
         build_info_cbor(id, c, type, length) = build_info_cbor(other, d, type, length)
  PROVE  id = other /\ c = d
<1> DEFINE e == InfoEnd(type, length)
<1>1. 64 \in 0..200 /\ 133 \in Byte
  BY DEF Byte
<1>2. ASSUME NEW i \in Strings(8), NEW k \in IdContexts
      PROVE  /\ build_info_cbor(i, k, type, length) =
                  Cat(One(133), Cat(Tagged(64, i), Cat(InfoContext(k), e)))
             /\ e \in Seq(Byte) /\ Cat(InfoContext(k), e) \in Seq(Byte)
             /\ Cat(Tagged(64, i), Cat(InfoContext(k), e)) \in Seq(Byte)
  BY InfoGrouped
<1> HIDE DEF e
<1>3. Cat(Tagged(64, id), Cat(InfoContext(c), e)) = Cat(Tagged(64, other), Cat(InfoContext(d), e))
  BY <1>1, <1>2, OneCancel
<1>4. id = other /\ Cat(InfoContext(c), e) = Cat(InfoContext(d), e)
  BY <1>1, <1>2, <1>3, TaggedCancel
<1> QED
  BY <1>2, <1>4, InfoContextCancel

\* The last byte is the length of the output.
LEMMA InfoLength ==
  ASSUME NEW id \in Strings(8), NEW other \in Strings(8), NEW c \in IdContexts, NEW d \in IdContexts,
         NEW type \in Seq(Byte), NEW kind \in Seq(Byte), NEW m \in Byte, NEW n \in Byte,
         build_info_cbor(id, c, type, m) = build_info_cbor(other, d, kind, n)
  PROVE  m = n
<1> DEFINE front(i, k, t) ==
             Cat(Cat(Cat(Cat(One(133), Tagged(64, i)), InfoContext(k)), One(ALG_AEAD)), t)
<1>1. ASSUME NEW i \in Strings(8), NEW k \in IdContexts, NEW t \in Seq(Byte), NEW l \in Byte
      PROVE  build_info_cbor(i, k, t, l) = Cat(front(i, k, t), One(l))
  BY DEF build_info_cbor, ByteString, Tagged, InfoContext, Cat, One
<1>2. ASSUME NEW i \in Strings(8), NEW k \in IdContexts, NEW t \in Seq(Byte)
      PROVE  front(i, k, t) \in Seq(Byte)
  <2>1. 64 \in 0..200 /\ 133 \in Byte /\ ALG_AEAD \in Byte
    BY DEF Byte, ALG_AEAD
  <2>2. /\ One(133) \in Seq(Byte) /\ Tagged(64, i) \in Seq(Byte)
        /\ InfoContext(k) \in Seq(Byte) /\ One(ALG_AEAD) \in Seq(Byte)
    BY <2>1, OneBytes, TaggedBytes, InfoContextBytes
  <2> QED
    BY <2>2, CatBytes
<1> HIDE DEF front
<1> QED
  BY <1>1, <1>2, LastByte

\* derive_context_id: the text that is hashed gives back the salt, the ID Context
\* and the identifier.
LEMMA ContextIdCancel ==
  ASSUME NEW salt \in Strings(8), NEW other \in Strings(8), NEW c \in IdContexts, NEW d \in IdContexts,
         NEW id \in Strings(8), NEW name \in Strings(8),
         derive_context_id(salt, c, id) = derive_context_id(other, d, name)
  PROVE  salt = other /\ c = d /\ id = name
<1>1. 0 \in Byte /\ 1 \in Byte
  BY DEF Byte
<1>2. ASSUME NEW k \in IdContexts
      PROVE  HashedContext(k) = IF k = Absent THEN <<0>> ELSE <<1, Len(k)>> \o k
  <2>1. CASE k = Absent
    BY <2>1 DEF HashedContext, One
  <2>2. CASE k # Absent
    <3>1. k \in Strings(8)
      BY <2>2 DEF IdContexts
    <3>2. PICK l \in Byte : k \in Seq(Byte) /\ Len(k) = l /\ Tagged(0, k) = Cat(One(l), k)
      BY <3>1, LengthFirst
    <3>3. HashedContext(k) = Cat(One(1), Cat(One(l), k))
      BY <2>2, <3>2 DEF HashedContext
    <3>4. Cat(One(1), Cat(One(l), k)) = Cat(Cat(One(1), One(l)), k)
      BY <1>1, <3>2, OneBytes, CatRegroup
    <3>5. Cat(One(1), One(l)) = <<1, l>>
      BY <1>1, PairBytes
    <3> QED
      BY <2>2, <3>2, <3>3, <3>4, <3>5 DEF Cat
  <2> QED
    BY <2>1, <2>2
<1>3. ASSUME NEW s \in Strings(8), NEW k \in IdContexts, NEW i \in Strings(8)
      PROVE  /\ derive_context_id(s, k, i) = Cat(Tagged(0, s), Cat(HashedContext(k), Tagged(0, i)))
             /\ Tagged(0, i) \in Seq(Byte)
             /\ Cat(HashedContext(k), Tagged(0, i)) \in Seq(Byte)
  <2>1. PICK m \in Byte : s \in Seq(Byte) /\ Len(s) = m /\ Tagged(0, s) = Cat(One(m), s)
    BY LengthFirst
  <2>2. PICK n \in Byte : i \in Seq(Byte) /\ Len(i) = n /\ Tagged(0, i) = Cat(One(n), i)
    BY LengthFirst
  <2>3. derive_context_id(s, k, i) = Cat(Cat(Cat(Tagged(0, s), HashedContext(k)), One(n)), i)
    <3>1. derive_context_id(s, k, i) = Cat(Cat(Cat(Cat(One(m), s), HashedContext(k)), One(n)), i)
      BY <1>2, <2>1, <2>2 DEF derive_context_id, Cat, One
    <3> QED
      BY <2>1, <3>1
  <2>4. /\ Tagged(0, s) \in Seq(Byte) /\ HashedContext(k) \in Seq(Byte)
        /\ One(n) \in Seq(Byte) /\ i \in Seq(Byte)
    BY <2>2, LengthFirst, HashedContextBytes, OneBytes
  <2>5. Cat(Cat(Cat(Tagged(0, s), HashedContext(k)), One(n)), i) =
          Cat(Tagged(0, s), Cat(HashedContext(k), Cat(One(n), i)))
    BY <2>4, CatRegroup4
  <2>6. Tagged(0, i) \in Seq(Byte)
    BY LengthFirst
  <2> QED
    BY <2>2, <2>3, <2>4, <2>5, <2>6, CatBytes
<1>4. salt = other /\ Cat(HashedContext(c), Tagged(0, id)) = Cat(HashedContext(d), Tagged(0, name))
  BY <1>3, LengthFirstCancel
<1>5. c = d /\ Tagged(0, id) = Tagged(0, name)
  BY <1>3, <1>4, HashedContextCancel
<1>6. id = name
  <2>1. <<>> \in Seq(Byte) /\ Cat(Tagged(0, id), <<>>) = Cat(Tagged(0, name), <<>>)
    BY <1>5
  <2> QED
    BY <2>1, LengthFirstCancel
<1> QED
  BY <1>4, <1>5, <1>6

-----------------------------------------------------------------------------

\* What InputAssumption says of the tables the inputs are drawn from.
LEMMA ContextInputs ==
  /\ \A piv \in Pivs : piv \in PivStrings
  /\ \A c \in Contexts : c \in IdContexts
  /\ \A salt \in Salts : salt \in Strings(8)
  /\ CommonIv \in [1..NONCE_LEN -> Byte]
BY InputAssumption DEF PivStrings, IdContexts, Strings, ID_CONTEXT_CAPACITY, SALT_MAX_LEN

\* The two names of the codec "names" are Sender IDs.
LEMMA NamesAreStrings ==
  ASSUME Inputs, codec = "names"
  PROVE  first \in Strings(7) /\ second \in Strings(7) /\ first \in Strings(8) /\ second \in Strings(8)
<1>1. first \in Strings(7) /\ second \in Strings(7)
  BY DEF Inputs, ByteStrings, Strings, NONCE_ID_LEN
<1> QED
  BY <1>1, StringsGrow

\* No two senders share a nonce, and no sender uses one for two numbers; nor
\* can the additional data of one request be that of another.
\* (compute_nonce, build_aad_cbor)
THEOREM NoncesAlwaysApart == Spec => []NoncesApart
<1>1. Inputs => NoncesApart
  <2> SUFFICES ASSUME Inputs, codec = "names", NEW p \in Pivs, NEW q \in Pivs,
                      \/ compute_nonce(first, p, CommonIv) = compute_nonce(second, q, CommonIv)
                      \/ build_aad_cbor(first, p) = build_aad_cbor(second, q)
               PROVE  first = second /\ p = q
    BY DEF NoncesApart
  <2>1. /\ first \in Strings(7) /\ second \in Strings(7)
        /\ first \in Strings(8) /\ second \in Strings(8)
    BY NamesAreStrings
  <2>2. /\ p \in PivStrings /\ q \in PivStrings /\ CommonIv \in [1..NONCE_LEN -> Byte]
    BY ContextInputs
  <2>3. p \in Strings(8) /\ q \in Strings(8)
    <3>1. p \in Strings(5) /\ q \in Strings(5)
      BY <2>2, PivSize
    <3> QED
      BY <3>1, StringsGrow
  <2> QED
    BY <2>1, <2>2, <2>3, NonceCancel, AadCancel
<1> QED
  BY <1>1, InputsHold, PTL

\* What the keys, the Common IV and the identifier of a context are derived
\* from is never the same for two contexts that differ.
\* (build_info_cbor, derive_context_id)
THEOREM ContextsAlwaysApart == Spec => []ContextsApart
<1>1. Inputs => ContextsApart
  <2> SUFFICES ASSUME Inputs, codec = "names", NEW c \in Contexts, NEW d \in Contexts
               PROVE  /\ KeyInfo(first, c) = KeyInfo(second, d) => first = second /\ c = d
                      /\ IvInfo(c) = IvInfo(d) => c = d
                      /\ KeyInfo(first, c) # IvInfo(d)
                      /\ \A salt, other \in Salts :
                           derive_context_id(salt, c, first) = derive_context_id(other, d, second) =>
                             salt = other /\ c = d /\ first = second
    BY DEF ContextsApart
  <2>1. /\ first \in Strings(8) /\ second \in Strings(8) /\ <<>> \in Strings(8)
    BY NamesAreStrings, EmptyString
  <2>2. c \in IdContexts /\ d \in IdContexts
    BY ContextInputs
  <2>3. KEY \in Seq(Byte) /\ IV \in Seq(Byte) /\ 16 \in Byte /\ NONCE_LEN \in Byte /\ 16 # NONCE_LEN
    BY DEF KEY, IV, NONCE_LEN, Byte
  <2>4. KeyInfo(first, c) = KeyInfo(second, d) => first = second /\ c = d
    BY <2>1, <2>2, <2>3, InfoCancel DEF KeyInfo
  <2>5. IvInfo(c) = IvInfo(d) => c = d
    BY <2>1, <2>2, <2>3, InfoCancel DEF IvInfo
  <2>6. KeyInfo(first, c) # IvInfo(d)
    BY <2>1, <2>2, <2>3, InfoLength DEF KeyInfo, IvInfo
  <2>7. ASSUME NEW salt \in Salts, NEW other \in Salts,
               derive_context_id(salt, c, first) = derive_context_id(other, d, second)
        PROVE  salt = other /\ c = d /\ first = second
    BY <2>1, <2>2, <2>7, ContextInputs, ContextIdCancel
  <2> QED
    BY <2>4, <2>5, <2>6, <2>7
<1> QED
  BY <1>1, InputsHold, PTL

\* The input of the codec "identifier" is a connection identifier.
LEMMA IdentifierInputs ==
  ASSUME Inputs, codec = "identifier"
  PROVE  first \in ConnectionIds /\ first \in Strings(7) /\ second \in Seq(Byte) /\ first \in Seq(Byte)
BY DEF Inputs, ByteStrings, ConnectionIds, Strings, CONNECTION_ID_CAPACITY

\* Identifiers come back from the wire whatever follows them.
\* (encode_identifier, parse_identifier)
THEOREM IdentifiersRoundTrip == Spec => []IdentifierRoundTrip
<1>1. Inputs => IdentifierRoundTrip
  BY IdentifierInputs, RoundTripAlways DEF IdentifierRoundTrip, Faithful
<1> QED
  BY <1>1, InputsHold, PTL

\* A string of one byte is that byte.
LEMMA SingleByte ==
  ASSUME NEW s \in Seq(Byte), Len(s) = 1
  PROVE  s # <<>> /\ s = <<s[1]>>
<1>1. s # <<>>
  OBVIOUS
<1>2. s[1] \in Byte
  BY ElementOfSeq
<1>3. <<s[1]>> \in Seq(Byte) /\ Len(<<s[1]>>) = 1
  BY <1>2
<1>4. \A i \in 1..1 : s[i] = <<s[1]>>[i]
  OBVIOUS
<1>5. s = <<s[1]>>
  <2> DEFINE t == <<s[1]>>
  <2>1. t \in Seq(Byte) /\ Len(s) = Len(t) /\ \A i \in 1..Len(s) : s[i] = t[i]
    BY <1>3, <1>4
  <2> HIDE DEF t
  <2>2. s = t
    BY <2>1, SeqEqual
  <2> QED
    BY <2>2 DEF t
<1> QED
  BY <1>1, <1>5

\* What is behind the first of two bytes is the second.
LEMMA SecondByte ==
  ASSUME NEW s \in Seq(Byte), Len(s) = 2
  PROVE  s # <<>> /\ SubSeq(s, 2, 2) = <<s[2]>>
<1>1. s # <<>>
  OBVIOUS
<1>2. 2 \in 1..Len(s)
  OBVIOUS
<1>3. s[2] \in Byte
  BY <1>2, ElementOfSeq
<1> DEFINE t == SubSeq(s, 2, 2)
<1>4. t \in Seq(Byte) /\ Len(t) = 1 /\ t[1] = s[2]
  <2>1. \A i \in 2..2 : s[i] \in Byte
    BY <1>3
  <2>2. /\ SubSeq(s, 2, 2) \in Seq(Byte)
        /\ Len(SubSeq(s, 2, 2)) = IF 2 <= 2 THEN 2 - 2 + 1 ELSE 0
        /\ \A i \in 1..(2 - 2 + 1) : SubSeq(s, 2, 2)[i] = s[2 + i - 1]
    BY <2>1, SubSeqProperties
  <2> HIDE DEF t
  <2>3. 2 - 2 + 1 = 1 /\ 2 + 1 - 1 = 2
    OBVIOUS
  <2> QED
    BY <2>2, <2>3 DEF t
<1> HIDE DEF t
<1>5. t = <<t[1]>>
  BY <1>4, SingleByte
<1> QED
  BY <1>1, <1>4, <1>5 DEF t

\* What the parser of C_I reads, parse_identifier reads too, or refuses.
LEMMA ParsersAgree ==
  ASSUME NEW data \in Seq(Byte), parse_c_i(data) # Unreadable, parse_identifier(data) # Unreadable
  PROVE  parse_c_i(data) = parse_identifier(data).id
<1>1. CASE Len(data) = 1 /\ data[1] \in UnsignedInts
  <2>1. data # <<>> /\ data = <<data[1]>> /\ parse_c_i(data) = data
    <3>1. data # <<>> /\ data = <<data[1]>>
      BY <1>1, SingleByte
    <3>2. ~(Len(data) = 2)
      BY <1>1
    <3>3. parse_c_i(data) = data
      BY <1>1, <3>2, Zenon DEF parse_c_i
    <3> QED
      BY <3>1, <3>3
  <2>2. parse_identifier(data) = [id |-> <<data[1]>>, consumed |-> 1]
    BY <1>1, <2>1, ParseInteger
  <2> QED
    BY <2>1, <2>2
<1>2. CASE ~(Len(data) = 1 /\ data[1] \in UnsignedInts)
  <2>1. Len(data) = 2 /\ data[1] = 65 /\ parse_c_i(data) = <<data[2]>>
    BY <1>2, Zenon DEF parse_c_i
  <2>2. data # <<>> /\ 65 \in 64..87 /\ 65 \notin UnsignedInts /\ 65 \notin NegativeInts /\ 65 # 88
    <3>1. data # <<>>
      BY <2>1, SecondByte
    <3>2. 65 \in 64..87 /\ 65 # 88
      OBVIOUS
    <3> QED
      BY <3>1, <3>2, FirstBytes
  <2>3. CASE data[2] <= 23
    <3>1. data[1] \notin UnsignedInts /\ data[1] \notin NegativeInts /\ data[1] # 88
      BY <2>1, <2>2
    <3>2. Len(data) >= 2
      BY <2>1
    <3>3. parse_identifier(data) = Unreadable
      BY <2>1, <2>2, <2>3, <3>1, <3>2, Zenon DEF parse_identifier
    <3> QED
      BY <3>3
  <2>4. CASE ~(data[2] <= 23)
    <3>1. parse_identifier(data) = StringAt(data, 1, data[1] - 64)
      BY <2>1, <2>2, <2>4, ParseString
    <3>2. parse_identifier(data) = StringAt(data, 1, 1)
      <4>1. 65 - 64 = 1
        OBVIOUS
      <4> QED
        BY <2>1, <3>1, <4>1
    <3>3. SubSeq(data, 2, 2) = <<data[2]>>
      BY <2>1, SecondByte
    <3>4. 1 + 1 = 2
      OBVIOUS
    <3>5. parse_identifier(data) = [id |-> SubSeq(data, 2, 2), consumed |-> 2]
      BY <3>2, <3>4, Zenon DEF StringAt
    <3> QED
      BY <2>1, <3>3, <3>5
  <2> QED
    BY <2>3, <2>4
<1> QED
  BY <1>1, <1>2

\* The roles read the same identifier from the same bytes, and the responder's
\* parser the one that was sent, unless one of them refuses.
\* (responder.rs:263-279, parse_identifier)
THEOREM IdentifierParsersAlwaysAgree == Spec => []IdentifierParsersAgree
<1>1. Inputs => IdentifierParsersAgree
  <2> SUFFICES ASSUME Inputs, codec = "identifier" PROVE
        LET data == first \o second
            c == parse_identifier(data)
        IN /\ parse_c_i(data) # Unreadable /\ c # Unreadable => parse_c_i(data) = c.id
           /\ parse_c_i(encode_identifier(first)) \in {first, Unreadable}
    BY DEF IdentifierParsersAgree
  <2>1. first \o second \in Seq(Byte)
    BY IdentifierInputs, ConcatProperties
  <2>2. parse_c_i(encode_identifier(first)) \in {first, Unreadable}
    BY IdentifierInputs, ResponderNeverMisreads
  <2> DEFINE data == first \o second
  <2>3. parse_c_i(data) # Unreadable /\ parse_identifier(data) # Unreadable =>
          parse_c_i(data) = parse_identifier(data).id
    BY <2>1, ParsersAgree
  <2> QED
    BY <2>2, <2>3
<1> QED
  BY <1>1, InputsHold, PTL

-----------------------------------------------------------------------------
\* Sizes.

\* A connection identifier takes one to eight bytes on the wire.
LEMMA EncodedIdSize ==
  ASSUME NEW id \in Strings(7)
  PROVE  \E k \in 1..8 : Len(encode_identifier(id)) = k
<1>1. PICK n \in 0..7 : Len(id) = n
  BY Size
<1>2. id \in Seq(Byte)
  BY DEF Strings
<1>3. CASE n = 1 /\ id[1] \in UnsignedInts \cup NegativeInts
  <2>1. encode_identifier(id) = id
    BY <1>1, <1>3, Zenon DEF encode_identifier
  <2>2. Len(id) = 1 /\ 1 \in 1..8
    BY <1>1, <1>3
  <2> QED
    BY <2>1, <2>2
<1>4. CASE ~(n = 1 /\ id[1] \in UnsignedInts \cup NegativeInts)
  <2>1. encode_identifier(id) = <<64 + n>> \o id
    BY <1>1, <1>4 DEF encode_identifier, encode_bstr
  <2>2. 64 + n \in Byte
    BY DEF Byte
  <2>3. <<64 + n>> \in Exactly(1) /\ id \in Exactly(n)
    BY <1>1, <1>2, <2>2, OneByte DEF Exactly
  <2>4. <<64 + n>> \o id \in Exactly(1 + n)
    BY <2>3, Joined
  <2>5. PICK k \in 1..8 : k = 1 + n
    OBVIOUS
  <2>6. Len(<<64 + n>> \o id) = k
    BY <2>4, <2>5 DEF Exactly
  <2> QED
    BY <2>1, <2>6
<1> QED
  BY <1>3, <1>4

\* The sizes of what a raw public key is encoded to.
LEMMA RawSizes ==
  /\ Len(encode_id_cred(Digest(<<>>))) = 11
  /\ Len(encode_credential(Key(<<>>))) = 40
<1>1. Digest(<<>>) \in Exactly(32)
  BY DEF Digest, Exactly, Byte
<1>2. SubSeq(Digest(<<>>), 1, 8) \in Exactly(8)
  <2> DEFINE d == Digest(<<>>)
  <2>1. d \in Seq(Byte) /\ Len(d) = 32
    BY <1>1, ExactSize
  <2> HIDE DEF d
  <2>2. ASSUME NEW i \in 1..8 PROVE d[i] \in Byte
    <3>1. i \in 1..Len(d)
      BY <2>1
    <3> QED
      BY <2>1, <3>1, ElementOfSeq
  <2>3. SubSeq(d, 1, 8) \in Seq(Byte) /\ Len(SubSeq(d, 1, 8)) = 8
    BY <2>2, SubSeqProperties
  <2> QED
    BY <2>3 DEF d, Exactly
<1>3. <<161, 4, 72>> \in Exactly(3) /\ CoseKeyLayout \in Exactly(6) /\ <<88, 32>> \in Exactly(2)
  BY DEF CoseKeyLayout, Exactly, Byte
<1>4. encode_id_cred(Digest(<<>>)) \in Exactly(3 + 8)
  BY <1>2, <1>3, Joined DEF encode_id_cred
<1>5. Key(<<>>) \in Exactly(32)
  <2> DEFINE sevens == [i \in 1..32 |-> 7]
  <2>1. sevens \in Exactly(32)
    BY DEF Exactly, Byte
  <2>2. Key(<<>>) = <<>> \o sevens
    BY DEF Key
  <2>3. <<>> \o sevens = sevens
    <3> HIDE DEF sevens
    <3> QED
      BY <2>1, ConcatEmptySeq DEF Exactly
  <2> QED
    BY <2>1, <2>2, <2>3
<1>6. append_cbor_bstr(Key(<<>>)) \in Exactly(2 + 32)
  <2>1. Len(Key(<<>>)) = 32
    BY <1>5, ExactSize
  <2>2. append_cbor_bstr(Key(<<>>)) = <<88, 32>> \o Key(<<>>)
    <3>1. ~(32 <= 23) /\ 32 \in 24..255
      OBVIOUS
    <3> QED
      BY <2>1, <3>1, Zenon DEF append_cbor_bstr
  <2> QED
    BY <1>3, <1>5, <2>2, Joined
<1>7. encode_credential(Key(<<>>)) \in Exactly(6 + (2 + 32))
  BY <1>3, <1>6, Joined DEF encode_credential
<1> QED
  BY <1>4, <1>7 DEF Exactly

\* The CBOR head of a byte string: one byte up to 23, two up to 255.
LEMMA BstrSizes ==
  /\ \A n \in 0..23 : BstrSize(n) = n + 1
  /\ \A n \in 24..255 : BstrSize(n) = n + 2
BY DEF BstrSize

\* Every message fits every buffer it passes, with raw keys and identifiers of
\* every length.  (transcript.rs, kdf.rs, create_message_1 and the calls after)
THEOREM RawKeysAlwaysFit == Spec => []RawKeysFit
<1> DEFINE raw == [id_cred |-> 11, credential |-> 40]
<1>1. raw.id_cred = 11 /\ raw.credential = 40
  OBVIOUS
<1> HIDE DEF raw
<1>2. BstrSize(HashLen) = 34 /\ HashLen = 32
  BY BstrSizes DEF HashLen
<1>3. ASSUME NEW length \in 0..128, NEW context \in 24..100
      PROVE  edhoc_kdf_fits(context, length)
  <2>1. BstrSize(context) = context + 2 /\ context <= 255
    BY BstrSizes
  <2>2. 1 + (context + 2) + 1 <= 128 /\ 1 + (context + 2) + 2 <= 128
    OBVIOUS
  <2> QED
    BY <2>1, <2>2 DEF edhoc_kdf_fits
<1>4. ASSUME NEW id \in 0..8 PROVE MacFits(id, raw)
  <2>1. ContextSize(id, raw) = id + 85
    BY <1>1, <1>2 DEF ContextSize
  <2>2. id + 85 \in 24..100 /\ id + 85 <= 128 /\ HashLen \in 0..128
    BY <1>2
  <2> QED
    BY <1>3, <2>1, <2>2 DEF MacFits
<1>5. SignatureStructureFits(raw)
  <2>1. BstrSize(11) = 12 /\ BstrSize(74) = 76
    BY BstrSizes
  <2>2. BstrSize(HashLen) + raw.credential = 74
    BY <1>1, <1>2
  <2> QED
    BY <1>1, <1>2, <2>1, <2>2 DEF SignatureStructureFits
<1>6. ASSUME NEW plaintext \in 24..100 PROVE TranscriptFits(plaintext, raw)
  <2>1. BstrSize(plaintext) = plaintext + 2
    BY BstrSizes
  <2> QED
    BY <1>1, <1>2, <2>1 DEF TranscriptFits
<1>7. ASSUME NEW sig \in SIG_LEN PROVE BstrSize(sig) = sig + 2 /\ sig \in 48..64
  BY BstrSizes DEF SIG_LEN
<1>8. ASSUME NEW id \in 1..8 PROVE Message1Fits(id)
  BY <1>2 DEF Message1Fits
<1>9. ASSUME NEW id \in 1..8, NEW sig \in SIG_LEN PROVE Message2Fits(id, raw, sig)
  <2>1. PICK plaintext \in 24..100 : plaintext = id + 11 + (sig + 2)
    BY <1>7
  <2>2. id + raw.id_cred + BstrSize(sig) = plaintext
    BY <1>1, <1>7, <2>1
  <2>3. BstrSize(32 + plaintext) = 32 + plaintext + 2
    BY BstrSizes
  <2>4. /\ plaintext <= 128 /\ 32 + plaintext <= 144 /\ 32 + plaintext + 2 <= 160
        /\ 32 + plaintext >= 32 + 1 + sig
    BY <1>7, <2>1
  <2>5. /\ MacFits(id, raw) /\ SignatureStructureFits(raw)
        /\ edhoc_kdf_fits(HashLen, plaintext) /\ TranscriptFits(plaintext, raw)
    <3>1. id \in 0..8 /\ 32 \in 24..100 /\ plaintext \in 0..128
      BY SMTT(30)
    <3>2. edhoc_kdf_fits(32, plaintext)
      BY <1>3, <3>1
    <3>3. edhoc_kdf_fits(HashLen, plaintext)
      BY <1>2, <3>2
    <3> QED
      BY <1>4, <1>5, <1>6, <3>1, <3>3
  <2> QED
    BY <1>2, <2>2, <2>3, <2>4, <2>5 DEF Message2Fits
<1>10. ASSUME NEW sig \in SIG_LEN PROVE Message3Fits(raw, sig)
  <2>1. PICK plaintext \in 24..100 : plaintext = 11 + (sig + 2)
    BY <1>7
  <2>2. raw.id_cred + BstrSize(sig) = plaintext
    BY <1>1, <1>7, <2>1
  <2>3. BstrSize(plaintext + 8) = plaintext + 8 + 2
    BY BstrSizes
  <2>4. plaintext + 8 <= 128 /\ plaintext + 8 + 2 <= 128
    OBVIOUS
  <2>5. MacFits(0, raw) /\ SignatureStructureFits(raw) /\ TranscriptFits(plaintext, raw)
    BY <1>4, <1>5, <1>6
  <2> QED
    BY <2>2, <2>3, <2>4, <2>5 DEF Message3Fits, TAG_LEN
<1>11. Inputs => RawKeysFit
  <2> SUFFICES ASSUME Inputs, codec = "identifier" PROVE RawKeysFit
    BY DEF RawKeysFit
  <2>1. PICK k \in 1..8 : Len(encode_identifier(first)) = k
    BY IdentifierInputs, EncodedIdSize
  <2>2. [id_cred |-> Len(encode_id_cred(Digest(<<>>))),
         credential |-> Len(encode_credential(Key(<<>>)))] = raw
    BY RawSizes DEF raw
  <2> QED
    BY <1>8, <1>9, <1>10, <2>1, <2>2 DEF RawKeysFit
<1> QED
  BY <1>11, InputsHold, PTL

\* Slice, the lengths known,
LEMMA SliceExactly ==
  ASSUME NEW m \in Nat, NEW n \in Nat, NEW a \in Exactly(m), NEW b \in Exactly(n),
         NEW c \in Seq(Byte)
  PROVE  SubSeq(Cat(Cat(a, b), c), m + 1, m + n) = b
<1>1. a \in Seq(Byte) /\ b \in Seq(Byte) /\ Len(a) = m /\ Len(b) = n
  BY DEF Exactly
<1>2. SubSeq((a \o b) \o c, Len(a) + 1, Len(a) + Len(b)) = b
  BY <1>1, Slice
<1> QED
  BY <1>1, <1>2 DEF Cat

\* and with nothing behind the part.
LEMMA SliceEnd ==
  ASSUME NEW m \in Nat, NEW n \in Nat, NEW a \in Exactly(m), NEW b \in Exactly(n)
  PROVE  SubSeq(Cat(a, b), m + 1, m + n) = b
<1>1. <<>> \in Seq(Byte)
  OBVIOUS
<1>2. Cat(a, b) \in Seq(Byte)
  BY CatBytes, ExactSize
<1>3. Cat(Cat(a, b), <<>>) = Cat(a, b)
  <2> DEFINE s == Cat(a, b)
  <2>1. s \in Seq(Byte)
    BY <1>2
  <2> HIDE DEF s
  <2>2. s \o <<>> = s
    BY <2>1, ConcatEmptySeq
  <2> QED
    BY <2>2 DEF Cat, s
<1>4. SubSeq(Cat(Cat(a, b), <<>>), m + 1, m + n) = b
  <2> DEFINE e == <<>>
  <2>1. e \in Seq(Byte)
    BY <1>1
  <2> HIDE DEF e
  <2>2. SubSeq(Cat(Cat(a, b), e), m + 1, m + n) = b
    BY <2>1, SliceExactly
  <2> QED
    BY <2>2 DEF e
<1> QED
  BY <1>3, <1>4

\* Joined for Cat.
LEMMA CatExactly ==
  ASSUME NEW m \in Nat, NEW n \in Nat, NEW a \in Exactly(m), NEW b \in Exactly(n)
  PROVE  Cat(a, b) \in Exactly(m + n)
BY Joined DEF Cat

\* The byte laid in front is the first.
LEMMA FirstByte ==
  ASSUME NEW b \in Byte, NEW x \in Seq(Byte)
  PROVE  Cat(One(b), x)[1] = b /\ Cat(One(b), x) # <<>>
<1>1. <<b>> \in Seq(Byte) /\ Len(<<b>>) = 1 /\ <<b>>[1] = b
  OBVIOUS
<1>2. PICK n \in Nat : Len(x) = n
  BY LenProperties
<1> DEFINE h == <<b>>
<1> HIDE DEF h
<1>3. h \in Seq(Byte) /\ Len(h) = 1 /\ h[1] = b
  BY <1>1 DEF h
<1>4. /\ Len(h \o x) = Len(h) + Len(x)
      /\ \A i \in 1..(Len(h) + Len(x)) : (h \o x)[i] = IF i <= Len(h) THEN h[i] ELSE x[i - Len(h)]
  BY <1>3, ConcatProperties
<1>5. Len(h \o x) = 1 + n /\ (h \o x)[1] = b
  BY <1>2, <1>3, <1>4
<1>6. h \o x # <<>>
  BY <1>5
<1> QED
  BY <1>5, <1>6 DEF Cat, One, h

\* Every byte string has a length.
LEMMA ExactlySeq ==
  ASSUME NEW s \in Seq(Byte)
  PROVE  \E n \in Nat : s \in Exactly(n) /\ Len(s) = n
BY LenProperties DEF Exactly

\* The empty string has length zero.
LEMMA EmptyExactly == <<>> \in Exactly(0)
BY DEF Exactly

\* The flag byte, put together and taken apart.
FlagOf(p, k, h) == p + 8 * k + 16 * h

\* The flag byte of the option gives back the length of the Partial IV and the two
\* flags,
LEMMA Flags ==
  ASSUME NEW p \in 0..7, NEW k \in 0..1, NEW h \in 0..1
  PROVE  /\ FlagOf(p, k, h) \in Byte /\ FlagOf(p, k, h) < 32 /\ PivLen(FlagOf(p, k, h)) = p
         /\ KFlag(FlagOf(p, k, h)) <=> k = 1
         /\ HFlag(FlagOf(p, k, h)) <=> h = 1
<1>0. PICK f \in 0..31 : f = FlagOf(p, k, h) /\ f = p + 8 * k + 16 * h
  BY DEF FlagOf
<1>1. f < 32 /\ f % 8 = p
  BY <1>0
<1>2. (f \div 8) % 2 = k
  BY <1>0
<1>3. (f \div 16) % 2 = h
  BY <1>0
<1>4. f \in Byte
  BY DEF Byte
<1> QED
  BY <1>0, <1>1, <1>2, <1>3, <1>4 DEF PivLen, KFlag, HFlag

\* and every flag byte without reserved bits is made of the three.
LEMMA FlagParts ==
  ASSUME NEW f \in 0..31
  PROVE  \E p \in 0..7, k \in 0..1, h \in 0..1 : f = FlagOf(p, k, h)
<1>1. f % 8 \in 0..7 /\ (f \div 8) % 2 \in 0..1 /\ (f \div 16) % 2 \in 0..1
  OBVIOUS
<1>2. f = (f % 8) + 8 * ((f \div 8) % 2) + 16 * ((f \div 16) % 2)
  OBVIOUS
<1> QED
  BY <1>1, <1>2 DEF FlagOf

\* The option from its fields.
ContextText(c) == IF c = Absent THEN <<>> ELSE Cat(One(Len(c)), c)
OptionText(f, piv, c, kid) == Cat(Cat(One(f), piv), Cat(ContextText(c), kid))

\* The ID Context in the option: nothing, or its length and its bytes.
LEMMA ContextTextSize ==
  ASSUME NEW c \in IdContexts
  PROVE  \E n \in 0..9 : /\ ContextText(c) \in Exactly(n)
                         /\ n = IF c = Absent THEN 0 ELSE Len(c) + 1
<1>1. CASE c = Absent
  BY <1>1, EmptyExactly DEF ContextText
<1>2. CASE c # Absent
  <2>1. c \in Strings(8)
    BY <1>2 DEF IdContexts
  <2>2. PICK l \in 0..8 : Len(c) = l
    BY <2>1, Size
  <2>3. One(l) \in Exactly(1) /\ c \in Exactly(l)
    BY <2>1, <2>2, OneByte DEF One, Byte, Exactly, Strings
  <2>4. Cat(One(l), c) \in Exactly(1 + l)
    BY <2>3, CatExactly
  <2>5. 1 + l \in 0..9 /\ 1 + l = l + 1
    OBVIOUS
  <2> QED
    BY <1>2, <2>2, <2>4, <2>5 DEF ContextText
<1> QED
  BY <1>1, <1>2

\* parse_option reads it field by field.
LEMMA ParseText ==
  ASSUME NEW p \in 1..5, NEW piv \in Exactly(p), CanonicalPiv(piv),
         NEW c \in IdContexts, NEW k \in 0..1, NEW h \in 0..1, h = IF c = Absent THEN 0 ELSE 1,
         NEW kid \in Strings(7), k = 0 => kid = <<>>,
         NEW f, f = FlagOf(p, k, h)
  PROVE  parse_option(OptionText(f, piv, c, kid)) =
           [piv |-> piv, kid_context |-> c, kid |-> IF k = 1 THEN kid ELSE Absent]
<1> DEFINE data == OptionText(f, piv, c, kid)
           ct == ContextText(c)
           rest == Cat(ct, kid)
<1>1. PICK n \in 0..9 : ct \in Exactly(n) /\ n = IF c = Absent THEN 0 ELSE Len(c) + 1
  BY ContextTextSize
<1>2. PICK l \in 0..7 : Len(kid) = l /\ kid \in Exactly(l)
  BY Size DEF Exactly
<1>3. /\ f \in Byte /\ f < 32 /\ PivLen(f) = p /\ (KFlag(f) <=> k = 1) /\ (HFlag(f) <=> h = 1)
      /\ f # 0
  <2>1. p \in 0..7
    OBVIOUS
  <2>2. f # 0
    BY DEF FlagOf
  <2> QED
    BY <2>1, <2>2, Flags
<1>4. One(f) \in Exactly(1) /\ One(f) \in Seq(Byte)
  BY <1>3, OneByte, OneBytes DEF One
<1>5. rest \in Exactly(n + l)
  BY <1>1, <1>2, CatExactly
<1>6. piv \in Seq(Byte) /\ rest \in Seq(Byte) /\ ct \in Seq(Byte) /\ kid \in Seq(Byte)
  BY <1>1, <1>2, <1>5, ExactSize
<1>7. Cat(One(f), piv) \in Exactly(1 + p)
  BY <1>4, CatExactly
<1>8. data = Cat(Cat(One(f), piv), rest)
  BY DEF OptionText
<1> HIDE DEF rest, ct
<1>9. data \in Exactly((1 + p) + (n + l))
  <2>1. PICK u \in Nat, v \in Nat : u = 1 + p /\ v = n + l
    OBVIOUS
  <2>2. Cat(One(f), piv) \in Exactly(u) /\ rest \in Exactly(v)
    BY <1>5, <1>7, <2>1
  <2>3. data \in Exactly(u + v)
    BY <1>8, <2>2, CatExactly
  <2> QED
    BY <2>1, <2>3
<1>10. data[1] = f /\ data # <<>>
  <2>1. data = Cat(One(f), Cat(piv, rest))
    BY <1>4, <1>6, <1>8, CatRegroup
  <2> HIDE DEF data
  <2> QED
    BY <1>3, <1>6, <2>1, CatBytes, FirstByte
<1> HIDE DEF data
<1>11. SubSeq(data, 2, p + 1) = piv
  <2>1. SubSeq(data, 1 + 1, 1 + p) = piv
    BY <1>4, <1>6, <1>8, SliceExactly
  <2>2. 1 + 1 = 2 /\ 1 + p = p + 1
    OBVIOUS
  <2> QED
    BY <2>1, <2>2
<1>12. Len(data) = (1 + p) + (n + l) /\ Rest(data) = rest
  <2>1. Len(data) = (1 + p) + (n + l)
    BY <1>9, ExactSize
  <2>2. SubSeq(data, (1 + p) + 1, (1 + p) + (n + l)) = rest
    BY <1>5, <1>7, <1>8, SliceEnd
  <2>3. (1 + p) + 1 = p + 2
    OBVIOUS
  <2> QED
    BY <1>3, <1>10, <2>1, <2>2, <2>3 DEF Rest
<1>13. Len(rest) = n + l
  BY <1>5, ExactSize
<1>14. HFlag(f) => /\ rest # <<>> /\ rest[1] + 1 = n /\ c \in Seq(Byte) /\ n <= 9
                   /\ SubSeq(rest, 2, n) = c
  <2> SUFFICES ASSUME HFlag(f)
               PROVE  /\ rest # <<>> /\ rest[1] + 1 = n /\ c \in Seq(Byte) /\ n <= 9
                      /\ SubSeq(rest, 2, n) = c
    OBVIOUS
  <2>1. c # Absent /\ c \in Strings(8)
    BY <1>3 DEF IdContexts
  <2>2. PICK m \in 0..8 : Len(c) = m /\ c \in Exactly(m)
    BY <2>1, Size DEF Exactly
  <2>3. n = m + 1 /\ m \in Byte /\ c \in Seq(Byte)
    BY <1>1, <2>1, <2>2 DEF Exactly, Byte
  <2>4. ct = Cat(One(m), c)
    BY <2>1, <2>2 DEF ct, ContextText
  <2>5. One(m) \in Exactly(1) /\ One(m) \in Seq(Byte)
    BY <2>3, OneByte, OneBytes DEF One
  <2>6. rest = Cat(Cat(One(m), c), kid)
    BY <2>4 DEF rest
  <2>7. rest = Cat(One(m), Cat(c, kid))
    BY <1>6, <2>3, <2>5, <2>6, CatRegroup
  <2>8. rest[1] = m /\ rest # <<>>
    BY <1>6, <2>3, <2>7, CatBytes, FirstByte
  <2>9. SubSeq(rest, 1 + 1, 1 + m) = c
    BY <1>6, <2>2, <2>5, <2>6, SliceExactly
  <2>10. 1 + 1 = 2 /\ 1 + m = m + 1
    OBVIOUS
  <2> QED
    BY <2>3, <2>8, <2>9, <2>10
<1>15. ContextLen(data) = n
  <2>1. CASE HFlag(f)
    BY <1>10, <1>12, <1>14, <2>1 DEF ContextLen
  <2>2. CASE ~HFlag(f)
    BY <1>1, <1>3, <1>10, <1>12, <2>2 DEF ContextLen
  <2> QED
    BY <2>1, <2>2
<1>16. SubSeq(rest, n + 1, Len(rest)) = kid
  <2>1. rest = Cat(ct, kid) /\ n \in Nat /\ l \in Nat
    BY DEF rest
  <2>2. SubSeq(rest, n + 1, n + l) = kid
    BY <1>1, <1>2, <2>1, SliceEnd
  <2> QED
    BY <1>13, <2>2
<1>17. WellFormed(data)
  <2>1. data # <<0>>
    BY <1>3, <1>10
  <2>2. p < Len(data)
    BY <1>12
  <2>3. Len(rest) - n = l
    BY <1>13
  <2>4. l \in 0..(IF KFlag(f) THEN 7 ELSE 0)
    <3>1. CASE k = 1
      BY <1>3, <3>1
    <3>2. CASE k = 0
      <4>1. Len(<<>>) = 0
        OBVIOUS
      <4>2. l = 0
        BY <1>2, <3>2, <4>1
      <4> QED
        BY <1>3, <3>2, <4>2
    <3> QED
      BY <3>1, <3>2
  <2>5. p > 0 => p < Len(data) /\ CanonicalPiv(SubSeq(data, 2, p + 1))
    BY <1>11, <2>2
  <2>6. HFlag(f) => rest # <<>> /\ n <= 8 + 1
    BY <1>14
  <2> QED
    BY <1>3, <1>10, <1>12, <1>15, <2>1, <2>3, <2>4, <2>5, <2>6
       DEF WellFormed, ID_CONTEXT_CAPACITY, NONCE_ID_LEN
<1>18. parse_option(data) = [piv |-> piv,
                             kid_context |-> IF HFlag(f) THEN c ELSE Absent,
                             kid |-> IF KFlag(f) THEN kid ELSE Absent]
  BY <1>3, <1>10, <1>11, <1>12, <1>14, <1>15, <1>16, <1>17, Zenon DEF parse_option
<1>19. c = IF HFlag(f) THEN c ELSE Absent
  BY <1>3
<1> QED
  BY <1>3, <1>18, <1>19 DEF data

\* Requests, and responses that carry their own Partial IV.
LEMMA RequestParsed ==
  ASSUME NEW piv \in PivStrings, NEW c \in IdContexts, NEW kid \in Strings(7)
  PROVE  /\ parse_option(request_option(piv, c, kid)) =
              [piv |-> piv, kid_context |-> c, kid |-> kid]
         /\ parse_option(response_option(piv)) =
              [piv |-> piv, kid_context |-> Absent, kid |-> Absent]
<1>1. PICK p \in 1..5 : piv \in Exactly(p) /\ Len(piv) = p /\ CanonicalPiv(piv)
  BY PivSize DEF PivStrings, Exactly
<1>2. kid # Absent /\ kid \in Seq(Byte)
  <2>1. kid \in Strings(8)
    BY StringsGrow
  <2> QED
    BY <2>1, AbsentApart DEF Strings
<1>3. piv \in Seq(Byte)
  BY <1>1, ExactSize
<1>4. PICK h \in 0..1 : h = IF c = Absent THEN 0 ELSE 1
  OBVIOUS
<1>5. PICK f : f = FlagOf(p, 1, h)
  OBVIOUS
<1>6. FlagByte(piv, c, kid) = f
  BY <1>1, <1>2, <1>4, <1>5 DEF FlagByte, FlagOf
<1>7. f \in Byte
  <2>1. p \in 0..7 /\ 1 \in 0..1
    OBVIOUS
  <2> QED
    BY <1>5, <2>1, Flags
<1>8. ContextText(c) \in Seq(Byte)
  BY ContextTextSize, ExactSize
<1>9. request_option(piv, c, kid) = OptionText(f, piv, c, kid)
  <2>1. request_option(piv, c, kid) = Cat(Cat(Cat(One(f), piv), ContextText(c)), kid)
    BY <1>6 DEF request_option, Cat, One, ContextText
  <2>2. Cat(One(f), piv) \in Seq(Byte)
    BY <1>3, <1>7, OneBytes, CatBytes
  <2> QED
    BY <1>2, <1>8, <2>1, <2>2, CatRegroup DEF OptionText
<1>10. parse_option(OptionText(f, piv, c, kid)) =
         [piv |-> piv, kid_context |-> c, kid |-> IF 1 = 1 THEN kid ELSE Absent]
  <2>1. PICK k \in 0..1 : k = 1
    OBVIOUS
  <2>2. f = FlagOf(p, k, h)
    BY <1>5, <2>1
  <2>3. k = 0 => kid = <<>>
    BY <2>1
  <2>4. parse_option(OptionText(f, piv, c, kid)) =
          [piv |-> piv, kid_context |-> c, kid |-> IF k = 1 THEN kid ELSE Absent]
    BY <1>1, <1>4, <2>2, <2>3, ParseText
  <2> QED
    BY <2>1, <2>4
<1>11. response_option(piv) = OptionText(p, piv, Absent, <<>>)
  <2>1. FlagByte(piv, Absent, Absent) = p
    BY <1>1 DEF FlagByte
  <2>2. response_option(piv) = Cat(One(p), piv)
    BY <2>1 DEF response_option, Cat, One
  <2>3. Cat(One(p), piv) \in Seq(Byte)
    <3>1. p \in Byte
      BY DEF Byte
    <3> QED
      BY <1>3, <3>1, OneBytes, CatBytes
  <2> DEFINE s == Cat(One(p), piv)
             e == <<>>
  <2>4. OptionText(p, piv, Absent, e) = Cat(s, Cat(e, e))
    BY DEF OptionText, ContextText
  <2>5. s \in Seq(Byte) /\ e \in Seq(Byte) /\ e \o e = e
    BY <2>3
  <2> HIDE DEF s
  <2>6. s \o e = s
    BY <2>5, ConcatEmptySeq
  <2> QED
    BY <2>2, <2>4, <2>5, <2>6 DEF Cat, s
<1>12. parse_option(OptionText(p, piv, Absent, <<>>)) =
         [piv |-> piv, kid_context |-> Absent, kid |-> Absent]
  <2>1. PICK k \in 0..1, g \in 0..1, s \in Strings(7), a \in IdContexts :
          k = 0 /\ g = 0 /\ s = <<>> /\ a = Absent
    <3>1. <<>> \in Strings(7) /\ Absent \in IdContexts
      BY DEF Strings, IdContexts
    <3>2. 0 \in 0..1
      OBVIOUS
    <3> QED
      BY <3>1, <3>2
  <2>2. p = FlagOf(p, k, g)
    BY <2>1 DEF FlagOf
  <2>3. g = IF a = Absent THEN 0 ELSE 1
    BY <2>1
  <2>4. parse_option(OptionText(p, piv, a, s)) =
          [piv |-> piv, kid_context |-> a, kid |-> IF k = 1 THEN s ELSE Absent]
    BY <1>1, <2>1, <2>2, <2>3, ParseText
  <2> QED
    BY <2>1, <2>4
<1> QED
  BY <1>9, <1>10, <1>11, <1>12

\* A string is its first part and the rest.
LEMMA CutAt ==
  ASSUME NEW n \in Nat, NEW s \in Exactly(n), NEW m \in 0..n
  PROVE  /\ s = Cat(SubSeq(s, 1, m), SubSeq(s, m + 1, n))
         /\ SubSeq(s, 1, m) \in Exactly(m) /\ SubSeq(s, m + 1, n) \in Exactly(n - m)
<1>1. s \in Seq(Byte) /\ Len(s) = n
  BY ExactSize
<1>2. \A i \in 1..n : s[i] \in Byte
  BY <1>1, ElementOfSeq
<1>3. SubSeq(s, 1, m) \in Exactly(m)
  <2>1. SubSeq(s, 1, m) \in Seq(Byte) /\ Len(SubSeq(s, 1, m)) = IF 1 <= m THEN m - 1 + 1 ELSE 0
    BY <1>2, SubSeqProperties
  <2> QED
    BY <2>1 DEF Exactly
<1>4. SubSeq(s, m + 1, n) \in Exactly(n - m)
  <2>1. /\ SubSeq(s, m + 1, n) \in Seq(Byte)
        /\ Len(SubSeq(s, m + 1, n)) = IF m + 1 <= n THEN n - (m + 1) + 1 ELSE 0
    BY <1>2, SubSeqProperties
  <2> QED
    BY <2>1 DEF Exactly
<1>5. SubSeq(s, 1, m) \o SubSeq(s, m + 1, n) = SubSeq(s, 1, n)
  BY <1>1, ConcatAdjacentSubSeq
<1>6. SubSeq(s, 1, n) = s
  BY <1>1, SubSeqFull
<1> QED
  BY <1>3, <1>4, <1>5, <1>6 DEF Cat

\* Its first byte apart, too.
LEMMA CutFront ==
  ASSUME NEW n \in Nat, NEW s \in Exactly(n), NEW m \in 1..n
  PROVE  /\ s = Cat(Cat(One(s[1]), SubSeq(s, 2, m)), SubSeq(s, m + 1, n)) /\ s[1] \in Byte
         /\ SubSeq(s, 2, m) \in Exactly(m - 1) /\ SubSeq(s, m + 1, n) \in Exactly(n - m)
<1>1. /\ s = Cat(SubSeq(s, 1, m), SubSeq(s, m + 1, n))
      /\ SubSeq(s, m + 1, n) \in Exactly(n - m)
  BY CutAt
<1>2. s \in Seq(Byte) /\ Len(s) = n /\ \A i \in 1..n : s[i] \in Byte
  BY ExactSize, ElementOfSeq
<1>3. SubSeq(s, 2, m) \in Exactly(m - 1)
  <2>1. /\ SubSeq(s, 2, m) \in Seq(Byte)
        /\ Len(SubSeq(s, 2, m)) = IF 2 <= m THEN m - 2 + 1 ELSE 0
    BY <1>2, SubSeqProperties
  <2> QED
    BY <2>1 DEF Exactly
<1>4. SubSeq(s, 1, m) = SubSeq(s, 1, 1) \o SubSeq(s, 2, m)
  <2>1. 1 \in 1..(n + 1) /\ 1 \in (1 - 1)..n /\ m \in 1..n /\ 1 + 1 = 2
    OBVIOUS
  <2>2. SubSeq(s, 1, 1) \o SubSeq(s, 1 + 1, m) = SubSeq(s, 1, m)
    BY <1>2, <2>1, ConcatAdjacentSubSeq
  <2> QED
    BY <2>1, <2>2
<1>5. SubSeq(s, 1, 1) = <<s[1]>>
  <2> DEFINE t == SubSeq(s, 1, 1)
  <2>1. /\ t \in Seq(Byte) /\ Len(t) = IF 1 <= 1 THEN 1 - 1 + 1 ELSE 0
        /\ \A i \in 1..(1 - 1 + 1) : t[i] = s[1 + i - 1]
    <3>1. \A i \in 1..1 : s[i] \in Byte
      BY <1>2
    <3> QED
      BY <3>1, SubSeqProperties
  <2> HIDE DEF t
  <2>2. 1 - 1 + 1 = 1 /\ 1 + 1 - 1 = 1
    OBVIOUS
  <2>3. Len(t) = 1 /\ t[1] = s[1]
    BY <2>1, <2>2
  <2>4. t = <<t[1]>>
    BY <2>1, <2>3, SingleByte
  <2> QED
    BY <2>3, <2>4 DEF t
<1> QED
  BY <1>1, <1>2, <1>3, <1>4, <1>5 DEF Cat, One

\* The flag of the KID taken off.
LEMMA LowerFirst ==
  ASSUME NEW f \in Byte, NEW g \in Byte, g = f + 8, NEW x \in Seq(Byte)
  PROVE  [Cat(One(g), x) EXCEPT ![1] = @ - 8] = Cat(One(f), x)
<1> DEFINE s == Cat(One(g), x)
           t == Cat(One(f), x)
           u == [s EXCEPT ![1] = @ - 8]
<1>1. PICK n \in Nat : Len(x) = n
  BY LenProperties
<1>2. g - 8 = f
  BY DEF Byte
<1>3. ASSUME NEW b \in Byte
      PROVE  /\ Cat(One(b), x) \in Seq(Byte) /\ Len(Cat(One(b), x)) = 1 + n
             /\ Cat(One(b), x)[1] = b
             /\ \A i \in 2..(1 + n) : Cat(One(b), x)[i] = x[i - 1]
  <2> DEFINE h == <<b>>
  <2>1. h \in Seq(Byte) /\ Len(h) = 1 /\ h[1] = b
    OBVIOUS
  <2> HIDE DEF h
  <2>2. /\ h \o x \in Seq(Byte) /\ Len(h \o x) = Len(h) + Len(x)
        /\ \A i \in 1..(Len(h) + Len(x)) : (h \o x)[i] = IF i <= Len(h) THEN h[i] ELSE x[i - Len(h)]
    BY <1>2, <2>1, ConcatProperties
  <2>3. \A i \in 1..(1 + n) : (h \o x)[i] = IF i <= 1 THEN h[i] ELSE x[i - 1]
    BY <1>1, <2>1, <2>2
  <2>4. (h \o x)[1] = b
    <3>1. 1 \in 1..(1 + n) /\ 1 <= 1
      OBVIOUS
    <3> QED
      BY <2>1, <2>3, <3>1
  <2>5. ASSUME NEW i \in 2..(1 + n) PROVE (h \o x)[i] = x[i - 1]
    <3>1. i \in 1..(1 + n) /\ ~(i <= 1)
      OBVIOUS
    <3> QED
      BY <2>3, <3>1
  <2> QED
    BY <1>1, <2>1, <2>2, <2>4, <2>5 DEF Cat, One, h
<1>4. /\ s \in Seq(Byte) /\ Len(s) = 1 + n /\ s[1] = g
      /\ \A i \in 2..(1 + n) : s[i] = x[i - 1]
  BY <1>2, <1>3
<1>5. /\ t \in Seq(Byte) /\ Len(t) = 1 + n /\ t[1] = f
      /\ \A i \in 2..(1 + n) : t[i] = x[i - 1]
  BY <1>3
<1> HIDE DEF s, t
<1>6. u = [s EXCEPT ![1] = f]
  BY <1>2, <1>4
<1> HIDE DEF u
<1>7. /\ u \in Seq(Byte) /\ Len(u) = 1 + n
      /\ \A i \in 1..(1 + n) : u[i] = IF i = 1 THEN f ELSE s[i]
  <2>1. 1 \in 1..Len(s)
    BY <1>4
  <2>2. /\ [s EXCEPT ![1] = f] \in Seq(Byte) /\ Len([s EXCEPT ![1] = f]) = Len(s)
        /\ \A i \in 1..Len(s) : [s EXCEPT ![1] = f][i] = IF i = 1 THEN f ELSE s[i]
    BY <1>2, <1>4, <2>1, ExceptSeq
  <2> QED
    BY <1>4, <1>6, <2>2
<1>8. ASSUME NEW i \in 1..(1 + n) PROVE u[i] = t[i]
  <2>1. CASE i = 1
    BY <1>5, <1>7, <2>1
  <2>2. CASE i # 1
    <3>1. i \in 2..(1 + n)
      BY <2>2
    <3> QED
      BY <1>4, <1>5, <1>7, <2>2, <3>1
  <2> QED
    BY <2>1, <2>2
<1>9. u = t
  BY <1>5, <1>7, <1>8, SeqEqual
<1> QED
  BY <1>9 DEF u, s, t

\* What parse_option accepts is what its fields are written as.
LEMMA OptionRebuilt ==
  ASSUME NEW data \in Seq(Byte), data # <<>>, WellFormed(data)
  PROVE  LET o == parse_option(data)
             kid == IF o.kid = Absent THEN <<>> ELSE o.kid
             encoded == request_option(o.piv, o.kid_context, kid)
         IN data = IF o.kid = Absent THEN [encoded EXCEPT ![1] = @ - 8] ELSE encoded
<1> DEFINE f == data[1]
           rest == Rest(data)
           cl == ContextLen(data)
<1>1. PICK n \in Nat : data \in Exactly(n) /\ Len(data) = n /\ n >= 1
  BY ExactlySeq
<1>2. f \in 0..31
  <2>1. 1 \in 1..Len(data)
    BY <1>1
  <2>2. f \in Byte
    BY <2>1, ElementOfSeq
  <2>3. f < 32
    BY DEF WellFormed
  <2>4. PICK b \in 0..255 : b = f
    BY <2>2 DEF Byte
  <2>5. b < 32
    BY <2>3, <2>4
  <2>6. b \in 0..31
    BY <2>5
  <2> QED
    BY <2>4, <2>6
<1>3. PICK p \in 0..7, k \in 0..1, h \in 0..1 : f = FlagOf(p, k, h)
  BY <1>2, FlagParts
<1>4. PivLen(f) = p /\ (KFlag(f) <=> k = 1) /\ (HFlag(f) <=> h = 1) /\ f \in Byte
  BY <1>3, Flags
<1> DEFINE piv == SubSeq(data, 2, p + 1)
<1>5. p + 1 \in 1..n
  <2>1. p > 0 => p < n
    BY <1>1, <1>4 DEF WellFormed
  <2> QED
    BY <1>1, <2>1
<1>6. PICK r \in Nat : r = n - (p + 1)
  BY <1>5
<1>7. /\ data = Cat(Cat(One(f), piv), SubSeq(data, p + 2, n))
      /\ piv \in Exactly(p) /\ SubSeq(data, p + 2, n) \in Exactly(r)
  <2>1. PICK m \in 1..n : m = p + 1
    BY <1>5
  <2>2. /\ data = Cat(Cat(One(data[1]), SubSeq(data, 2, m)), SubSeq(data, m + 1, n))
        /\ SubSeq(data, 2, m) \in Exactly(m - 1) /\ SubSeq(data, m + 1, n) \in Exactly(n - m)
    BY <1>1, CutFront
  <2>3. m + 1 = p + 2 /\ m - 1 = p /\ n - m = r
    BY <1>6, <2>1
  <2> QED
    BY <2>1, <2>2, <2>3
<1>8. rest = SubSeq(data, p + 2, n)
  BY <1>1, <1>4 DEF Rest
<1>9. rest \in Exactly(r) /\ rest \in Seq(Byte) /\ Len(rest) = r /\ data = Cat(Cat(One(f), piv), rest)
  BY <1>7, <1>8, ExactSize
<1>10. piv \in Seq(Byte) /\ Len(piv) = p
  BY <1>7 DEF Exactly
<1> DEFINE c == IF HFlag(f) THEN SubSeq(rest, 2, cl) ELSE Absent
           kid == SubSeq(rest, cl + 1, r)
<1>11. parse_option(data) = [piv |-> piv, kid_context |-> c,
                             kid |-> IF KFlag(f) THEN kid ELSE Absent]
  BY <1>4, <1>9, Zenon DEF parse_option
<1>12. r - cl \in 0..(IF KFlag(f) THEN 7 ELSE 0)
  BY <1>9 DEF WellFormed, NONCE_ID_LEN
<1> HIDE DEF f, rest, piv
<1>13. /\ rest = Cat(ContextText(c), kid) /\ ContextText(c) \in Seq(Byte)
       /\ kid \in Exactly(r - cl) /\ (c = Absent <=> ~HFlag(f))
  <2>1. CASE HFlag(f)
    <3>1. rest # <<>> /\ cl = rest[1] + 1 /\ cl <= 9
      BY <2>1 DEF WellFormed, ContextLen, ID_CONTEXT_CAPACITY, f, rest
    <3>2. r > 0
      BY <1>9, <3>1
    <3>3. PICK l \in Byte : l = rest[1]
      <4>1. 1 \in 1..Len(rest)
        BY <1>9, <3>2
      <4> QED
        BY <1>9, <4>1, ElementOfSeq
    <3>4. PICK m \in 1..r : m = cl /\ m = l + 1
      <4>1. cl = l + 1 /\ l \in Nat
        <5>1. l \in Nat
          BY DEF Byte
        <5>2. cl = l + 1
          <6> HIDE DEF cl
          <6> QED
            BY <3>1, <3>3
        <5> QED
          BY <5>1, <5>2
      <4>2. r - (l + 1) \in 0..7
        <5>1. r - (l + 1) \in 0..(IF KFlag(f) THEN 7 ELSE 0)
          BY <1>12, <4>1
        <5>2. CASE KFlag(f)
          BY <5>1, <5>2
        <5>3. CASE ~KFlag(f)
          BY <4>1, <5>1, <5>3
        <5> QED
          BY <5>2, <5>3
      <4>3. l + 1 \in 1..r
        BY <4>1, <4>2
      <4> QED
        BY <4>1, <4>3
    <3> HIDE DEF cl
    <3>5. /\ rest = Cat(Cat(One(rest[1]), SubSeq(rest, 2, m)), SubSeq(rest, m + 1, r))
          /\ SubSeq(rest, 2, m) \in Exactly(m - 1) /\ SubSeq(rest, m + 1, r) \in Exactly(r - m)
      BY <1>9, CutFront
    <3>6. m - 1 = l /\ l \in Nat /\ l <= 8
      BY <3>1, <3>4 DEF Byte
    <3>7. c = SubSeq(rest, 2, m) /\ kid = SubSeq(rest, m + 1, r)
      BY <2>1, <3>4
    <3>8. c \in Seq(Byte) /\ Len(c) = l
      BY <3>5, <3>6, <3>7, ExactSize
    <3>9. c \in Strings(8)
      BY <3>6, <3>8 DEF Strings
    <3>10. c # Absent
      BY <3>9, AbsentApart
    <3>11. ContextText(c) = Cat(One(l), c)
      BY <3>8, <3>10 DEF ContextText
    <3>12. Cat(One(l), c) \in Seq(Byte)
      BY <3>3, <3>8, OneBytes, CatBytes
    <3> QED
      BY <2>1, <3>3, <3>4, <3>5, <3>7, <3>10, <3>11, <3>12
  <2>2. CASE ~HFlag(f)
    <3>1. cl = 0
      BY <2>2 DEF ContextLen, f
    <3> HIDE DEF cl
    <3>2. c = Absent /\ ContextText(c) = <<>>
      BY <2>2 DEF ContextText
    <3>3. kid = rest
      <4>1. SubSeq(rest, 1, Len(rest)) = rest
        BY <1>9, SubSeqFull
      <4>2. 0 + 1 = 1
        OBVIOUS
      <4> QED
        BY <1>9, <3>1, <4>1, <4>2
    <3>4. <<>> \o rest = rest
      BY <1>9, ConcatEmptySeq
    <3>5. r - cl = r
      BY <3>1
    <3>6. <<>> \in Seq(Byte)
      OBVIOUS
    <3>7. rest = Cat(ContextText(c), kid)
      BY <3>2, <3>3, <3>4 DEF Cat
    <3>8. kid \in Exactly(r - cl)
      BY <1>9, <3>3, <3>5
    <3> QED
      BY <2>2, <3>2, <3>6, <3>7, <3>8
  <2> QED
    BY <2>1, <2>2
<1>14. PICK l \in 0..7 : l = r - cl
  BY <1>12
<1>15. kid \in Exactly(l) /\ kid \in Seq(Byte) /\ (~KFlag(f) => l = 0)
  <2>1. kid \in Exactly(l)
    BY <1>13, <1>14
  <2>2. ASSUME ~KFlag(f) PROVE l = 0
    <3>1. l \in 0..0
      BY <1>12, <1>14, <2>2
    <3> QED
      BY <3>1
  <2> QED
    BY <2>1, <2>2 DEF Exactly
<1> HIDE DEF c, kid, cl
<1>16. kid # Absent
  <2>1. kid \in Strings(8)
    BY <1>15 DEF Exactly, Strings
  <2> QED
    BY <2>1, AbsentApart
<1>17. PICK g \in Byte : g = FlagOf(p, 1, h)
  <2>1. 1 \in 0..1
    OBVIOUS
  <2> QED
    BY <2>1, Flags
<1>18. FlagByte(piv, c, kid) = g
  BY <1>4, <1>10, <1>13, <1>16, <1>17 DEF FlagByte, FlagOf
<1>19. request_option(piv, c, kid) = Cat(Cat(One(g), piv), rest)
  <2>1. request_option(piv, c, kid) = Cat(Cat(Cat(One(g), piv), ContextText(c)), kid)
    BY <1>18 DEF request_option, Cat, One, ContextText
  <2>2. Cat(One(g), piv) \in Seq(Byte)
    BY <1>10, OneBytes, CatBytes
  <2> QED
    BY <1>13, <1>15, <2>1, <2>2, CatRegroup
<1>20. CASE k = 1
  <2>1. KFlag(f) /\ g = f
    BY <1>3, <1>4, <1>17, <1>20
  <2>2. parse_option(data) = [piv |-> piv, kid_context |-> c, kid |-> kid]
    BY <1>11, <2>1
  <2> QED
    BY <1>9, <1>16, <1>19, <2>1, <2>2
<1>21. CASE k = 0
  <2>1. ~KFlag(f) /\ g = f + 8 /\ l = 0
    BY <1>3, <1>4, <1>15, <1>17, <1>21 DEF FlagOf
  <2>2. parse_option(data) = [piv |-> piv, kid_context |-> c, kid |-> Absent]
    BY <1>11, <2>1
  <2>3. kid = <<>>
    <3>1. kid \in Seq(Byte) /\ Len(kid) = 0
      BY <1>15, <2>1, ExactSize
    <3> QED
      BY <3>1, EmptySeq
  <2> DEFINE x == Cat(piv, rest)
  <2>4. Cat(Cat(One(g), piv), rest) = Cat(One(g), x) /\ x \in Seq(Byte)
    BY <1>9, <1>10, OneBytes, CatRegroup, CatBytes
  <2>5. data = Cat(One(f), x)
    BY <1>4, <1>9, <1>10, OneBytes, CatRegroup
  <2> HIDE DEF x
  <2>6. [Cat(One(g), x) EXCEPT ![1] = @ - 8] = Cat(One(f), x)
    BY <1>4, <2>1, <2>4, LowerFirst
  <2> QED
    BY <1>19, <2>2, <2>3, <2>4, <2>5, <2>6
<1> QED
  BY <1>20, <1>21

\* What options say is read back, and no option that is accepted says what
\* another says.  (protect_request_reserved, parse_option, request_identifiers)
THEOREM OptionsAlwaysRoundTrip == Spec => []OptionRoundTrip
<1>1. ASSUME Inputs, codec = "names", NEW piv \in Pivs, NEW c \in Contexts \cup {second}
      PROVE  LET request == request_option(piv, c, first)
             IN /\ parse_option(request) = [piv |-> piv, kid_context |-> c, kid |-> first]
                /\ request_identifiers(request) = [kid |-> first, piv |-> piv]
                /\ parse_option(response_option(piv)) =
                     [piv |-> piv, kid_context |-> Absent, kid |-> Absent]
  <2> DEFINE request == request_option(piv, c, first)
  <2>1. /\ first \in Strings(7) /\ first \in Strings(8) /\ second \in Strings(8)
        /\ piv \in PivStrings
    BY <1>1, NamesAreStrings, ContextInputs
  <2>2. c \in IdContexts
    BY <2>1, ContextInputs DEF IdContexts
  <2>3. /\ parse_option(request) = [piv |-> piv, kid_context |-> c, kid |-> first]
        /\ parse_option(response_option(piv)) =
             [piv |-> piv, kid_context |-> Absent, kid |-> Absent]
    BY <2>1, <2>2, RequestParsed
  <2> HIDE DEF request
  <2>4. piv # <<>> /\ first # Absent
    <3>1. PICK p \in 1..5 : Len(piv) = p
      BY <2>1, PivSize
    <3> QED
      BY <2>1, <3>1, AbsentApart
  <2>5. parse_option(request) # Invalid
    <3>1. piv \in Seq(Nat) /\ first \in Seq(Nat) /\ c \in Seq(Nat) \cup {Absent}
      <4>1. Byte \subseteq Nat
        BY DEF Byte
      <4>2. \A s : s \in Seq(Byte) => s \in Seq(Nat)
        BY <4>1, SeqMonotonic
      <4>3. piv \in Seq(Byte) /\ first \in Seq(Byte) /\ (c = Absent \/ c \in Seq(Byte))
        BY <2>1, <2>2 DEF PivStrings, Strings, IdContexts
      <4> QED
        BY <4>2, <4>3
    <3>2. [piv |-> piv, kid_context |-> c, kid |-> first] \in
            [piv : Seq(Nat), kid_context : Seq(Nat) \cup {Absent}, kid : Seq(Nat) \cup {Absent}]
      BY <3>1
    <3> QED
      BY <2>3, <3>2, OptionAssumption
  <2>6. request_identifiers(request) = [kid |-> first, piv |-> piv]
    BY <2>3, <2>4, <2>5 DEF request_identifiers
  <2> QED
    BY <2>3, <2>6 DEF request
<1>2. ASSUME Inputs, codec = "option", first # <<>>, parse_option(first) # Invalid
      PROVE  LET o == parse_option(first)
                 kid == IF o.kid = Absent THEN <<>> ELSE o.kid
                 encoded == request_option(o.piv, o.kid_context, kid)
             IN first = IF o.kid = Absent THEN [encoded EXCEPT ![1] = @ - 8] ELSE encoded
  <2>1. first \in Seq(Byte)
    BY <1>2 DEF Inputs, ByteStrings
  <2>2. WellFormed(first)
    BY <1>2 DEF parse_option
  <2> QED
    BY <1>2, <2>1, <2>2, OptionRebuilt
<1>3. Inputs => OptionRoundTrip
  BY <1>1, <1>2, Zenon DEF OptionRoundTrip
<1> QED
  BY <1>3, InputsHold, PTL

\* A set of numbers has a least one: induction without an operator to assume.
LEMMA Least ==
  ASSUME NEW T, T \subseteq Nat, T # {}
  PROVE  \E n \in T : \A m \in T : n <= m
<1> DEFINE R == OpToRel(<, Nat)
<1>1. IsWellFoundedOn(R, Nat)
  BY NatLessThanWellFounded
<1>2. \A m, n \in Nat : m < n => <<m, n>> \in R
  BY DEF OpToRel
<1> HIDE DEF R
<1>3. PICK n \in T : \A m \in T : ~ (<<m, n>> \in R)
  BY <1>1, WFMin
<1>4. ASSUME NEW m \in T PROVE n <= m
  <2>1. m \in Nat /\ n \in Nat /\ ~(<<m, n>> \in R)
    BY <1>3
  <2>2. ~(m < n)
    BY <2>1, <1>2
  <2> QED
    BY <2>1, <2>2
<1> QED
  BY <1>4

\* A function that calls itself once exists, if every call brings it nearer to
\* where it stops.
Terminates(S, V, Stop, out, next, comb, rank) ==
  /\ out \in [S -> V] /\ next \in [S -> S] /\ comb \in [S -> [V -> V]] /\ rank \in [S -> Nat]
  /\ \A s \in S : s \in Stop \/ rank[next[s]] < rank[s]
Computes(S, V, Stop, out, next, comb) ==
  {f \in [S -> V] : \A s \in S : f[s] = IF s \in Stop THEN out[s] ELSE comb[s][f[next[s]]]}

\* A function that calls itself at most once on each argument, at a smaller rank,
\* exists: it is put together from its approximations up to each rank.
LEMMA Recursion ==
  ASSUME NEW S, NEW V, NEW Stop, NEW out, NEW next, NEW comb, NEW rank,
         Terminates(S, V, Stop, out, next, comb, rank)
  PROVE  Computes(S, V, Stop, out, next, comb) # {}
<1> DEFINE Up(n) == {s \in S : rank[s] < n}
           Good(n, f) == /\ f \in [Up(n) -> V]
                         /\ \A s \in Up(n) : f[s] = IF s \in Stop THEN out[s]
                                                    ELSE comb[s][f[next[s]]]
           Bad == {n \in Nat : ~ \E f : Good(n, f)}
<1>0. /\ out \in [S -> V] /\ next \in [S -> S] /\ comb \in [S -> [V -> V]] /\ rank \in [S -> Nat]
      /\ \A s \in S : s \in Stop \/ rank[next[s]] < rank[s]
  BY DEF Terminates
<1>1. ASSUME Bad # {} PROVE FALSE
  <2>1. PICK n \in Bad : \A m \in Bad : n <= m
    <3>1. Bad \subseteq Nat
      OBVIOUS
    <3> HIDE DEF Bad
    <3> QED
      BY <1>1, <3>1, Least
  <2>2. CASE n = 0
    <3>1. Up(0) = {}
      BY <1>0
    <3> DEFINE e == [s \in Up(0) |-> out[s]]
    <3>2. Good(0, e)
      BY <1>0, <3>1
    <3> QED
      BY <2>1, <2>2, <3>2
  <2>3. CASE n # 0
    <3>0. n \in Nat
      OBVIOUS
    <3>1. n - 1 \in Nat /\ n - 1 \notin Bad
      <4> HIDE DEF Bad
      <4> QED
        BY <2>1, <2>3, <3>0
    <3>2. PICK g : Good(n - 1, g)
      BY <3>1
    <3>3. \A s \in Up(n) : s \in Stop \/ next[s] \in Up(n - 1)
      BY <1>0, <3>0
    <3>4. Up(n - 1) \subseteq Up(n) /\ Up(n) \subseteq S
      BY <1>0, <3>0
    <3> DEFINE f == [s \in Up(n) |-> IF s \in Stop THEN out[s] ELSE comb[s][g[next[s]]]]
    <3> HIDE DEF Up
    <3>5. \A s \in Up(n - 1) : f[s] = g[s]
      BY <3>2, <3>4
    <3>6. ASSUME NEW s \in Up(n)
          PROVE  f[s] \in V /\ f[s] = IF s \in Stop THEN out[s] ELSE comb[s][f[next[s]]]
      <4>1. CASE s \in Stop
        BY <1>0, <3>4, <4>1
      <4>2. CASE s \notin Stop
        <5>1. next[s] \in Up(n - 1) /\ s \in S
          BY <3>3, <3>4, <4>2
        <5>2. g[next[s]] \in V /\ f[next[s]] = g[next[s]]
          BY <3>2, <3>5, <5>1
        <5>3. f[s] = comb[s][g[next[s]]]
          BY <4>2
        <5>4. comb[s] \in [V -> V]
          BY <1>0, <5>1
        <5> HIDE DEF f
        <5>5. f[s] \in V
          BY <5>2, <5>3, <5>4
        <5> QED
          BY <4>2, <5>2, <5>3, <5>5
      <4> QED
        BY <4>1, <4>2
    <3>7. f = [s \in Up(n) |-> f[s]]
      OBVIOUS
    <3> HIDE DEF f
    <3>8. f \in [Up(n) -> V]
      BY <3>6, <3>7
    <3>9. Good(n, f)
      BY <3>6, <3>8
    <3> QED
      BY <2>1, <3>9
  <2> QED
    BY <2>2, <2>3
<1> DEFINE G(n) == CHOOSE f : Good(n, f)
<1>2. \A n \in Nat : Good(n, G(n))
  BY <1>1
<1>3. ASSUME NEW n \in Nat, NEW m \in Nat, NEW f, NEW g, Good(n, f), Good(m, g)
      PROVE  \A s \in Up(n) \cap Up(m) : f[s] = g[s]
  <2> DEFINE Differ == {k \in Nat : \E s \in Up(n) \cap Up(m) : rank[s] = k /\ f[s] # g[s]}
  <2>1. SUFFICES ASSUME Differ # {} PROVE FALSE
    BY <1>0
  <2>2. PICK k \in Differ : \A j \in Differ : k <= j
    <3>1. Differ \subseteq Nat
      OBVIOUS
    <3> HIDE DEF Differ
    <3> QED
      BY <2>1, <3>1, Least
  <2>3. PICK s \in Up(n) \cap Up(m) : rank[s] = k /\ f[s] # g[s]
    BY <2>2
  <2>4. s \notin Stop
    BY <1>3, <2>3
  <2>5. next[s] \in Up(n) \cap Up(m) /\ rank[next[s]] < k
    BY <1>0, <2>3, <2>4
  <2>6. f[next[s]] # g[next[s]]
    BY <1>3, <2>3, <2>4, <2>5
  <2>7. rank[next[s]] \in Differ /\ k \in Nat /\ rank[next[s]] \in Nat
    BY <1>0, <2>2, <2>5, <2>6
  <2> HIDE DEF Differ
  <2>8. k <= rank[next[s]]
    BY <2>2, <2>7
  <2> QED
    BY <2>5, <2>7, <2>8
<1> DEFINE F == [s \in S |-> G(rank[s] + 1)[s]]
<1>4. ASSUME NEW s \in S
      PROVE  F[s] \in V /\ F[s] = IF s \in Stop THEN out[s] ELSE comb[s][F[next[s]]]
  <2>1. /\ rank[s] \in Nat /\ rank[next[s]] \in Nat /\ rank[s] + 1 \in Nat
        /\ rank[next[s]] + 1 \in Nat /\ next[s] \in S
    BY <1>0
  <2>2. s \in Up(rank[s] + 1) /\ next[s] \in Up(rank[next[s]] + 1)
    BY <1>0, <2>1
  <2>3. s \notin Stop => next[s] \in Up(rank[s] + 1)
    BY <1>0, <2>1
  <2>4. Good(rank[s] + 1, G(rank[s] + 1)) /\ Good(rank[next[s]] + 1, G(rank[next[s]] + 1))
    BY <1>2, <2>1
  <2> HIDE DEF G
  <2>5. F[s] = G(rank[s] + 1)[s] /\ F[next[s]] = G(rank[next[s]] + 1)[next[s]]
    BY <2>1
  <2> HIDE DEF F
  <2>6. s \notin Stop => G(rank[s] + 1)[next[s]] = G(rank[next[s]] + 1)[next[s]]
    <3>1. s \notin Stop => next[s] \in Up(rank[s] + 1) \cap Up(rank[next[s]] + 1)
      BY <2>2, <2>3
    <3> HIDE DEF Up, Good
    <3> QED
      BY <1>3, <2>1, <2>4, <3>1
  <2> HIDE DEF Up
  <2> QED
    BY <1>0, <2>2, <2>4, <2>5, <2>6
<1>5. F \in [S -> V]
  <2>1. F = [s \in S |-> F[s]]
    OBVIOUS
  <2> HIDE DEF F
  <2> QED
    BY <1>4, <2>1
<1> QED
  BY <1>4, <1>5 DEF Computes

-----------------------------------------------------------------------------
\* Partial IVs.

DigitStrings == Seq(0..(Base - 1))

\* A number is its last digit behind the others,
LEMMA DivMod ==
  ASSUME NEW n \in Nat
  PROVE  /\ n \div Base \in Nat /\ n % Base \in 0..(Base - 1)
         /\ n = ((n \div Base) * Base) + (n % Base)
         /\ n >= Base => n \div Base < n /\ n \div Base >= 1
<1>1. Base \in Nat /\ Base > 1
  BY BaseAssumption
<1>2. n \div Base \in Nat /\ n % Base \in 0..(Base - 1) /\ n = (Base * (n \div Base)) + (n % Base)
  BY <1>1
<1> QED
  BY <1>1, <1>2

\* and in one way only.
LEMMA DivModUnique ==
  ASSUME NEW q \in Nat, NEW d \in 0..(Base - 1)
  PROVE  (q * Base + d) \div Base = q /\ (q * Base + d) % Base = d
BY BaseAssumption

\* What the recursion in encode_piv says.
LEMMA Digits ==
  ASSUME NEW n \in Nat
  PROVE  encode_piv(n) = IF n < Base THEN <<n>> ELSE Append(encode_piv(n \div Base), n % Base)
<1> DEFINE Stop == {m \in Nat : m < Base}
           out == [m \in Nat |-> <<m>>]
           next == [m \in Nat |-> m \div Base]
           comb == [m \in Nat |-> [s \in Seq(Nat) |-> Append(s, m % Base)]]
           rank == [m \in Nat |-> m]
<1>1. Terminates(Nat, Seq(Nat), Stop, out, next, comb, rank)
  <2>1. out \in [Nat -> Seq(Nat)]
    OBVIOUS
  <2>2. next \in [Nat -> Nat] /\ rank \in [Nat -> Nat]
    BY DivMod
  <2>3. comb \in [Nat -> [Seq(Nat) -> Seq(Nat)]]
    <3>1. ASSUME NEW m \in Nat, NEW s \in Seq(Nat) PROVE Append(s, m % Base) \in Seq(Nat)
      <4>1. m % Base \in Nat
        BY DivMod, BaseAssumption
      <4> QED
        BY <4>1
    <3> QED
      BY <3>1
  <2>4. ASSUME NEW m \in Nat PROVE m \in Stop \/ rank[next[m]] < rank[m]
    <3>1. CASE m < Base
      BY <3>1
    <3>2. CASE ~(m < Base)
      <4>1. m >= Base
        BY <3>2, BaseAssumption
      <4> QED
        BY <4>1, DivMod
    <3> QED
      BY <3>1, <3>2
  <2> HIDE DEF Stop, out, next, comb, rank
  <2> QED
    BY <2>1, <2>2, <2>3, <2>4 DEF Terminates
<1>2. PICK f \in [Nat -> Seq(Nat)] :
        \A m \in Nat : f[m] = IF m \in Stop THEN out[m] ELSE comb[m][f[next[m]]]
  <2>1. Computes(Nat, Seq(Nat), Stop, out, next, comb) # {}
    BY <1>1, Recursion
  <2> QED
    BY <2>1 DEF Computes
<1>3. f = [m \in Nat |-> IF m < Base THEN <<m>> ELSE Append(f[m \div Base], m % Base)]
  <2>1. ASSUME NEW m \in Nat
        PROVE  f[m] = IF m < Base THEN <<m>> ELSE Append(f[m \div Base], m % Base)
    BY <1>2, DivMod
  <2> QED
    BY <2>1
<1> DEFINE digits == CHOOSE g : g = [m \in Nat |-> IF m < Base THEN <<m>>
                                                  ELSE Append(g[m \div Base], m % Base)]
<1>4. digits = [m \in Nat |-> IF m < Base THEN <<m>> ELSE Append(digits[m \div Base], m % Base)]
  BY <1>3
<1>5. \A m \in Nat : encode_piv(m) = digits[m]
  BY DEF encode_piv
<1> HIDE DEF digits
<1> QED
  BY <1>4, <1>5, DivMod

\* The digits of a number.
LEMMA DigitsTyped ==
  ASSUME NEW n \in Nat
  PROVE  encode_piv(n) \in DigitStrings /\ encode_piv(n) # <<>>
<1> DEFINE Bad == {m \in Nat : ~(encode_piv(m) \in DigitStrings /\ encode_piv(m) # <<>>)}
<1>1. SUFFICES ASSUME Bad # {} PROVE FALSE
  OBVIOUS
<1>2. PICK m \in Bad : \A k \in Bad : m <= k
  <2>1. Bad \subseteq Nat
    OBVIOUS
  <2> HIDE DEF Bad
  <2> QED
    BY <1>1, <2>1, Least
<1>3. m \in Nat /\ ~(encode_piv(m) \in DigitStrings /\ encode_piv(m) # <<>>)
  BY <1>2
<1>4. CASE m < Base
  <2>1. encode_piv(m) = <<m>> /\ m \in 0..(Base - 1)
    BY <1>3, <1>4, Digits, BaseAssumption
  <2> QED
    BY <1>3, <2>1 DEF DigitStrings
<1>5. CASE ~(m < Base)
  <2>1. encode_piv(m) = Append(encode_piv(m \div Base), m % Base)
    BY <1>3, <1>5, Digits
  <2>2. m \div Base \in Nat /\ m \div Base < m /\ m % Base \in 0..(Base - 1)
    <3>1. m >= Base
      BY <1>3, <1>5, BaseAssumption
    <3> QED
      BY <1>3, <3>1, DivMod
  <2>3. m \div Base \notin Bad
    <3> HIDE DEF Bad
    <3> QED
      BY <1>2, <1>3, <2>2
  <2>4. encode_piv(m \div Base) \in DigitStrings
    BY <2>2, <2>3
  <2> DEFINE s == encode_piv(m \div Base)
             d == m % Base
  <2>5. s \in Seq(0..(Base - 1)) /\ d \in 0..(Base - 1)
    BY <2>2, <2>4 DEF DigitStrings
  <2> HIDE DEF s, d
  <2>6. Append(s, d) \in DigitStrings /\ Append(s, d) # <<>>
    BY <2>5, AppendProperties DEF DigitStrings
  <2> QED
    BY <1>3, <2>1, <2>6 DEF s, d
<1> QED
  BY <1>4, <1>5

\* The value is what the recursion in PivValue leads to, whatever function
\* computes it.
Horner(v, s) == v[0] = 0 /\ \A n \in 1..Len(s) : v[n] = v[n - 1] * Base + s[n]

\* The running values of a string of digits exist,
LEMMA HornerExists ==
  ASSUME NEW s \in DigitStrings
  PROVE  \E v \in [0..Len(s) -> Nat] : Horner(v, s)
<1> DEFINE S == 0..Len(s)
           Stop == {0}
           out == [n \in S |-> 0]
           next == [n \in S |-> IF n = 0 THEN 0 ELSE n - 1]
           comb == [n \in S |-> [x \in Nat |-> IF n = 0 THEN x ELSE x * Base + s[n]]]
           rank == [n \in S |-> n]
<1>1. Terminates(S, Nat, Stop, out, next, comb, rank)
  <2>1. Len(s) \in Nat /\ \A n \in 1..Len(s) : s[n] \in Nat
    <3>1. \A n \in 1..Len(s) : s[n] \in 0..(Base - 1)
      BY ElementOfSeq DEF DigitStrings
    <3> QED
      BY <3>1, BaseAssumption DEF DigitStrings
  <2>2. out \in [S -> Nat] /\ next \in [S -> S] /\ rank \in [S -> Nat]
    BY <2>1
  <2>3. comb \in [S -> [Nat -> Nat]]
    <3>1. ASSUME NEW n \in S, NEW x \in Nat
          PROVE  (IF n = 0 THEN x ELSE x * Base + s[n]) \in Nat
      BY <2>1, BaseAssumption
    <3> QED
      BY <3>1
  <2>4. \A n \in S : n \in Stop \/ rank[next[n]] < rank[n]
    BY <2>1
  <2> HIDE DEF S, Stop, out, next, comb, rank
  <2> QED
    BY <2>2, <2>3, <2>4 DEF Terminates
<1>2. PICK v \in [S -> Nat] :
        \A n \in S : v[n] = IF n \in Stop THEN out[n] ELSE comb[n][v[next[n]]]
  <2>1. Computes(S, Nat, Stop, out, next, comb) # {}
    <3> HIDE DEF S, Stop, out, next, comb, rank
    <3> QED
      BY <1>1, Recursion
  <2> HIDE DEF S, Stop, out, next, comb
  <2> QED
    BY <2>1 DEF Computes
<1>3. Horner(v, s)
  <2>1. v[0] = 0
    <3>1. 0 \in S
      BY DEF DigitStrings
    <3> QED
      BY <1>2, <3>1
  <2>2. ASSUME NEW n \in 1..Len(s) PROVE v[n] = v[n - 1] * Base + s[n]
    <3>1. n \in S /\ n - 1 \in S /\ n # 0 /\ Len(s) \in Nat
      BY DEF DigitStrings
    <3>2. v[n] = comb[n][v[n - 1]] /\ v[n - 1] \in Nat
      BY <1>2, <3>1
    <3> QED
      BY <3>1, <3>2
  <2> QED
    BY <2>1, <2>2 DEF Horner
<1> QED
  BY <1>3

\* there is one list of them,
LEMMA HornerUnique ==
  ASSUME NEW s, Len(s) \in Nat, NEW v, NEW w, Horner(v, s), Horner(w, s), NEW n \in 0..Len(s)
  PROVE  v[n] = w[n]
<1> DEFINE Bad == {m \in 0..Len(s) : v[m] # w[m]}
<1>1. SUFFICES ASSUME Bad # {} PROVE FALSE
  OBVIOUS
<1>2. PICK m \in Bad : \A k \in Bad : m <= k
  <2>1. Bad \subseteq Nat
    OBVIOUS
  <2> HIDE DEF Bad
  <2> QED
    BY <1>1, <2>1, Least
<1>3. m \in 0..Len(s) /\ v[m] # w[m]
  BY <1>2
<1>4. m # 0
  BY <1>3 DEF Horner
<1>5. m \in 1..Len(s) /\ m - 1 \in 0..Len(s) /\ m - 1 < m
  BY <1>3, <1>4
<1>6. m - 1 \notin Bad
  <2> HIDE DEF Bad
  <2> QED
    BY <1>2, <1>5
<1>7. v[m - 1] = w[m - 1]
  BY <1>5, <1>6
<1> QED
  BY <1>3, <1>5, <1>7 DEF Horner

\* and decode_piv returns the last.
LEMMA ValueIs ==
  ASSUME NEW s \in DigitStrings, NEW v, Horner(v, s)
  PROVE  PivValue(s) = v[Len(s)] /\ PivValue(s) \in Nat
<1>1. Len(s) \in Nat
  BY DEF DigitStrings
<1>2. PICK w \in [0..Len(s) -> Nat] : Horner(w, s)
  BY HornerExists
<1> DEFINE value == CHOOSE f : f = [n \in 0..Len(s) |->
                                      IF n = 0 THEN 0 ELSE f[n - 1] * Base + s[n]]
<1>3. w = [n \in 0..Len(s) |-> IF n = 0 THEN 0 ELSE w[n - 1] * Base + s[n]]
  <2>1. ASSUME NEW n \in 0..Len(s)
        PROVE  w[n] = IF n = 0 THEN 0 ELSE w[n - 1] * Base + s[n]
    BY <1>1, <1>2 DEF Horner
  <2> QED
    BY <2>1
<1>4. value = [n \in 0..Len(s) |-> IF n = 0 THEN 0 ELSE value[n - 1] * Base + s[n]]
  BY <1>3
<1>5. PivValue(s) = value[Len(s)]
  BY DEF PivValue
<1> HIDE DEF value
<1>6. Horner(value, s)
  BY <1>1, <1>4 DEF Horner
<1>7. Len(s) \in 0..Len(s)
  BY <1>1
<1>8. value[Len(s)] = v[Len(s)] /\ value[Len(s)] = w[Len(s)]
  BY <1>1, <1>2, <1>6, <1>7, HornerUnique
<1> QED
  BY <1>2, <1>5, <1>7, <1>8

\* One digit more.
LEMMA ValueAppend ==
  ASSUME NEW s \in DigitStrings, NEW d \in 0..(Base - 1)
  PROVE  /\ Append(s, d) \in DigitStrings
         /\ PivValue(Append(s, d)) = PivValue(s) * Base + d
<1> DEFINE t == Append(s, d)
<1>1. PICK k \in Nat : Len(s) = k
  BY DEF DigitStrings
<1>2. /\ t \in DigitStrings /\ Len(t) = k + 1 /\ t[k + 1] = d
      /\ \A n \in 1..k : t[n] = s[n]
  BY <1>1, AppendProperties DEF DigitStrings
<1> HIDE DEF t
<1>3. PICK v \in [0..Len(t) -> Nat] : Horner(v, t)
  BY <1>2, HornerExists
<1>4. PivValue(t) = v[k + 1]
  BY <1>2, <1>3, ValueIs
<1>5. Horner(v, s)
  <2>1. ASSUME NEW n \in 1..k PROVE v[n] = v[n - 1] * Base + s[n]
    <3>1. n \in 1..(k + 1)
      OBVIOUS
    <3> QED
      BY <1>2, <1>3, <3>1 DEF Horner
  <2> QED
    BY <1>1, <1>3, <2>1 DEF Horner
<1>6. PivValue(s) = v[k]
  BY <1>1, <1>5, ValueIs
<1>7. v[k + 1] = v[k] * Base + d
  <2>1. k + 1 \in 1..(k + 1) /\ (k + 1) - 1 = k
    OBVIOUS
  <2> QED
    BY <1>2, <1>3, <2>1 DEF Horner
<1> QED
  BY <1>2, <1>4, <1>6, <1>7 DEF t

\* No digit is zero,
LEMMA ValueEmpty == PivValue(<<>>) = 0 /\ <<>> \in DigitStrings
<1>1. <<>> \in DigitStrings /\ Len(<<>>) = 0
  BY DEF DigitStrings
<1>2. PICK v \in [0..Len(<<>>) -> Nat] : Horner(v, <<>>)
  BY <1>1, HornerExists
<1>3. PivValue(<<>>) = v[0]
  BY <1>1, <1>2, ValueIs
<1> QED
  BY <1>1, <1>2, <1>3 DEF Horner

\* and one digit is itself.
LEMMA ValueOne ==
  ASSUME NEW d \in 0..(Base - 1)
  PROVE  <<d>> \in DigitStrings /\ PivValue(<<d>>) = d
<1>1. /\ Append(<<>>, d) \in DigitStrings
      /\ PivValue(Append(<<>>, d)) = PivValue(<<>>) * Base + d
  BY ValueEmpty, ValueAppend
<1>2. Append(<<>>, d) = <<d>>
  OBVIOUS
<1> QED
  BY <1>1, <1>2, ValueEmpty, BaseAssumption

\* A number is the value of its digits.
LEMMA ValueOfDigits ==
  ASSUME NEW n \in Nat
  PROVE  PivValue(encode_piv(n)) = n
<1> DEFINE Bad == {m \in Nat : PivValue(encode_piv(m)) # m}
<1>1. SUFFICES ASSUME Bad # {} PROVE FALSE
  OBVIOUS
<1>2. PICK m \in Bad : \A k \in Bad : m <= k
  <2>1. Bad \subseteq Nat
    OBVIOUS
  <2> HIDE DEF Bad
  <2> QED
    BY <1>1, <2>1, Least
<1>3. m \in Nat /\ PivValue(encode_piv(m)) # m
  BY <1>2
<1>4. CASE m < Base
  <2>1. encode_piv(m) = <<m>> /\ m \in 0..(Base - 1)
    BY <1>3, <1>4, Digits, BaseAssumption
  <2> QED
    BY <1>3, <2>1, ValueOne
<1>5. CASE ~(m < Base)
  <2>1. encode_piv(m) = Append(encode_piv(m \div Base), m % Base)
    BY <1>3, <1>5, Digits
  <2>2. /\ m \div Base \in Nat /\ m \div Base < m /\ m % Base \in 0..(Base - 1)
        /\ m = ((m \div Base) * Base) + (m % Base)
    <3>1. m >= Base
      BY <1>3, <1>5, BaseAssumption
    <3> QED
      BY <1>3, <3>1, DivMod
  <2>3. m \div Base \notin Bad
    <3> HIDE DEF Bad
    <3> QED
      BY <1>2, <1>3, <2>2
  <2>4. PivValue(encode_piv(m \div Base)) = m \div Base
    BY <2>2, <2>3
  <2>5. PivValue(encode_piv(m)) = PivValue(encode_piv(m \div Base)) * Base + (m % Base)
    BY <2>1, <2>2, DigitsTyped, ValueAppend
  <2> QED
    BY <1>3, <2>2, <2>4, <2>5
<1> QED
  BY <1>4, <1>5

\* The first digit of a number is not zero, unless it is the only one.
Canonical(s) == s # <<>> /\ (Len(s) > 1 => s[1] # 0)

\* encode_piv leaves no leading zero, but for the number zero itself.
LEMMA DigitsCanonical ==
  ASSUME NEW n \in Nat
  PROVE  Canonical(encode_piv(n)) /\ (n > 0 => encode_piv(n)[1] # 0)
<1> DEFINE Bad == {m \in Nat : m > 0 /\ encode_piv(m)[1] = 0}
<1>1. Bad = {}
  <2>1. SUFFICES ASSUME Bad # {} PROVE FALSE
    OBVIOUS
  <2>2. PICK m \in Bad : \A k \in Bad : m <= k
    <3>1. Bad \subseteq Nat
      OBVIOUS
    <3> HIDE DEF Bad
    <3> QED
      BY <2>1, <3>1, Least
  <2>3. m \in Nat /\ m > 0 /\ encode_piv(m)[1] = 0
    BY <2>2
  <2>4. CASE m < Base
    <3>1. encode_piv(m) = <<m>>
      BY <2>3, <2>4, Digits
    <3> QED
      BY <2>3, <3>1
  <2>5. CASE ~(m < Base)
    <3>1. encode_piv(m) = Append(encode_piv(m \div Base), m % Base)
      BY <2>3, <2>5, Digits
    <3>2. /\ m \div Base \in Nat /\ m \div Base < m /\ m % Base \in 0..(Base - 1)
          /\ m \div Base >= 1
      <4>1. m >= Base
        BY <2>3, <2>5, BaseAssumption
      <4> QED
        BY <2>3, <4>1, DivMod
    <3>3. m \div Base \notin Bad
      <4> HIDE DEF Bad
      <4> QED
        BY <2>2, <2>3, <3>2
    <3>4. encode_piv(m \div Base)[1] # 0
      BY <3>2, <3>3
    <3>5. encode_piv(m)[1] = encode_piv(m \div Base)[1]
      <4> DEFINE s == encode_piv(m \div Base)
                 d == m % Base
      <4>1. s \in Seq(0..(Base - 1)) /\ s # <<>> /\ d \in 0..(Base - 1)
        BY <3>2, DigitsTyped DEF DigitStrings
      <4> HIDE DEF s, d
      <4>2. 1 \in 1..Len(s)
        BY <4>1
      <4>3. Append(s, d)[1] = s[1]
        BY <4>1, <4>2, AppendProperties
      <4> QED
        BY <3>1, <4>3 DEF s, d
    <3> QED
      BY <2>3, <3>4, <3>5
  <2> QED
    BY <2>4, <2>5
<1>2. encode_piv(n) # <<>> /\ (n > 0 => encode_piv(n)[1] # 0)
  BY <1>1, DigitsTyped
<1>3. n = 0 => ~(Len(encode_piv(n)) > 1)
  <2>1. n = 0 => encode_piv(n) = <<n>>
    BY Digits, BaseAssumption
  <2> QED
    BY <2>1
<1> QED
  BY <1>2, <1>3 DEF Canonical

\* No other string of digits has that value.
LEMMA DigitsUnique ==
  ASSUME NEW s \in DigitStrings, Canonical(s)
  PROVE  encode_piv(PivValue(s)) = s
<1> DEFINE Wrong(t) == t \in DigitStrings /\ Canonical(t) /\ encode_piv(PivValue(t)) # t
           Bad == {k \in Nat : \E t \in DigitStrings : Wrong(t) /\ Len(t) = k}
<1>1. SUFFICES ASSUME Bad # {} PROVE FALSE
  <2>1. Len(s) \in Nat
    BY DEF DigitStrings
  <2> QED
    BY <2>1
<1>2. PICK k \in Bad : \A j \in Bad : k <= j
  <2>1. Bad \subseteq Nat
    OBVIOUS
  <2> HIDE DEF Bad
  <2> QED
    BY <1>1, <2>1, Least
<1>3. PICK t \in DigitStrings : Wrong(t) /\ Len(t) = k
  BY <1>2
<1>4. PICK u \in DigitStrings, d \in 0..(Base - 1) : t = Append(u, d)
  BY <1>3, SequenceEmptyOrAppend DEF Canonical, DigitStrings
<1>5. PICK l \in Nat : Len(u) = l
  BY DEF DigitStrings
<1>6. Len(t) = l + 1 /\ k = l + 1 /\ (\A i \in 1..l : t[i] = u[i])
  BY <1>3, <1>4, <1>5, AppendProperties DEF DigitStrings
<1>7. PivValue(t) = PivValue(u) * Base + d /\ PivValue(u) \in Nat
  BY <1>4, ValueAppend, HornerExists, ValueIs
<1>8. CASE u = <<>>
  <2>1. t = <<d>> /\ PivValue(t) = d /\ d \in Nat /\ d < Base
    BY <1>4, <1>8, ValueOne, BaseAssumption
  <2>2. encode_piv(d) = <<d>>
    BY <2>1, Digits
  <2> QED
    BY <1>3, <2>1, <2>2
<1>9. CASE u # <<>>
  <2>1. l >= 1
    BY <1>5, <1>9, EmptySeq DEF DigitStrings
  <2>2. u[1] = t[1] /\ t[1] # 0
    <3>1. Len(t) > 1 /\ 1 \in 1..l
      BY <1>6, <2>1
    <3> QED
      BY <1>3, <1>6, <3>1 DEF Canonical
  <2>3. Canonical(u)
    BY <1>9, <2>2 DEF Canonical
  <2>4. l \notin Bad
    <3>1. l < k
      BY <1>6
    <3> HIDE DEF Bad
    <3> QED
      BY <1>2, <1>6, <3>1
  <2>5. encode_piv(PivValue(u)) = u
    BY <1>5, <2>3, <2>4
  <2> HIDE DEF Bad, Wrong
  <2>6. PivValue(u) >= 1
    <3>1. PivValue(u) # 0
      <4>1. SUFFICES ASSUME PivValue(u) = 0 PROVE FALSE
        OBVIOUS
      <4>2. encode_piv(0) = <<0>>
        BY Digits, BaseAssumption
      <4>3. u = <<0>>
        BY <2>5, <4>1, <4>2
      <4> QED
        BY <2>2, <4>3
    <3> QED
      BY <1>7, <3>1
  <2> DEFINE q == PivValue(u)
  <2> HIDE DEF q
  <2>7. q \in Nat /\ q >= 1 /\ PivValue(t) = q * Base + d /\ encode_piv(q) = u
    BY <1>7, <2>5, <2>6 DEF q
  <2>8. q * Base + d \in Nat /\ ~(q * Base + d < Base)
    <3>1. Base \in Nat /\ d \in Nat
      BY BaseAssumption
    <3>2. q * Base >= Base
      BY <2>7, <3>1
    <3>3. q * Base \in Nat
      BY <2>7, <3>1
    <3> QED
      BY <3>1, <3>2, <3>3
  <2>9. (q * Base + d) \div Base = q /\ (q * Base + d) % Base = d
    BY <2>7, DivModUnique
  <2>10. encode_piv(PivValue(t)) = Append(encode_piv(q), d)
    BY <2>7, <2>8, <2>9, Digits
  <2> QED
    BY <1>3, <1>4, <2>7, <2>10 DEF Wrong
<1> QED
  BY <1>8, <1>9

\* How long they are.
Short(m, k) == \A n \in Nat : n < m => \E l \in 1..k : Len(encode_piv(n)) = l

\* A number below Base is one digit,
LEMMA ShortOne == Short(Base, 1)
<1>1. ASSUME NEW n \in Nat, n < Base PROVE Len(encode_piv(n)) = 1
  <2>1. encode_piv(n) = <<n>>
    BY <1>1, Digits
  <2> QED
    BY <2>1
<1> QED
  BY <1>1 DEF Short

\* and one below Base times more is one digit longer.
LEMMA ShortNext ==
  ASSUME NEW m \in Nat, NEW k \in Nat, Short(m, k)
  PROVE  Short(m * Base, k + 1) /\ m * Base \in Nat
<1>0. Base \in Nat /\ Base > 1 /\ m * Base \in Nat
  BY BaseAssumption
<1>1. ASSUME NEW n \in Nat, n < m * Base PROVE \E l \in 1..(k + 1) : Len(encode_piv(n)) = l
  <2>1. CASE n < Base
    <3>1. encode_piv(n) = <<n>> /\ 1 \in 1..(k + 1)
      BY <2>1, Digits
    <3>2. Len(<<n>>) = 1
      OBVIOUS
    <3> QED
      BY <3>1, <3>2
  <2>2. CASE ~(n < Base)
    <3>1. PICK q \in Nat, d \in 0..(Base - 1) :
            q = n \div Base /\ d = n % Base /\ n = (q * Base) + d
      BY DivMod
    <3>2. q < m
      <4>1. SUFFICES ASSUME q >= m PROVE FALSE
        BY <3>1
      <4>2. PICK e \in Nat : q = m + e
        <5>1. q - m \in Nat /\ q = m + (q - m)
          BY <4>1
        <5> QED
          BY <5>1
      <4>3. q * Base = m * Base + e * Base /\ e * Base \in Nat /\ q * Base \in Nat
        BY <1>0, <4>2
      <4> QED
        BY <1>0, <1>1, <3>1, <4>3
    <3>3. PICK l \in 1..k : Len(encode_piv(q)) = l
      BY <3>1, <3>2 DEF Short
    <3>4. encode_piv(n) = Append(encode_piv(q), d)
      BY <2>2, <3>1, Digits
    <3>5. encode_piv(q) \in Seq(0..(Base - 1))
      BY DigitsTyped DEF DigitStrings
    <3>6. Len(encode_piv(n)) = l + 1
      BY <3>3, <3>4, <3>5, AppendProperties
    <3>7. l + 1 \in 1..(k + 1)
      OBVIOUS
    <3> QED
      BY <3>6, <3>7
  <2> QED
    BY <2>1, <2>2
<1> QED
  BY <1>0, <1>1 DEF Short

\* Up to MAX_SEQUENCE an encoding is one to five digits: decode_piv never refuses
\* what encode_piv made.
LEMMA LastNumber ==
  ASSUME NEW n \in Nat, n <= MAX_SEQUENCE
  PROVE  \E l \in 1..5 : Len(encode_piv(n)) = l
<1>1. Base \in Nat
  BY BaseAssumption
<1>2. 1 + 1 = 2 /\ 2 + 1 = 3 /\ 3 + 1 = 4 /\ 4 + 1 = 5
  OBVIOUS
<1>3. Short(Base, 1)
  BY ShortOne
<1>4. Short(Base * Base, 2) /\ Base * Base \in Nat
  BY <1>1, <1>2, <1>3, ShortNext
<1>5. Short(Base * Base * Base, 3) /\ Base * Base * Base \in Nat
  BY <1>2, <1>4, ShortNext
<1>6. Short(Base * Base * Base * Base, 4) /\ Base * Base * Base * Base \in Nat
  BY <1>2, <1>5, ShortNext
<1>7. Short(Base * Base * Base * Base * Base, 5) /\ Base * Base * Base * Base * Base \in Nat
  BY <1>2, <1>6, ShortNext
<1>8. PICK m \in Nat : m = Base * Base * Base * Base * Base
  BY <1>7
<1>9. n < m
  <2>1. n <= m - 1
    BY <1>8 DEF MAX_SEQUENCE
  <2> QED
    BY <2>1
<1> QED
  BY <1>7, <1>8, <1>9 DEF Short

\* A number and its Partial IV stand for one another, whatever the base: no
\* number is lost on the wire, and none has two spellings.
\* (encode_piv, from_piv)
THEOREM PivsAlwaysRoundTrip == Spec => []PivRoundTrip
<1>1. ASSUME Inputs, codec = "piv"
      PROVE  LET number == PivValue(first)
             IN /\ number <= MAX_SEQUENCE => from_piv(encode_piv(number)) = number
                /\ from_piv(first) # NoNumber => encode_piv(from_piv(first)) = first
  <2>1. first \in DigitStrings /\ PivValue(first) \in Nat
    <3>1. first \in DigitStrings
      BY <1>1 DEF Inputs, DigitStrings
    <3> QED
      BY <3>1, HornerExists, ValueIs
  <2> DEFINE number == PivValue(first)
  <2>2. ASSUME number <= MAX_SEQUENCE PROVE from_piv(encode_piv(number)) = number
    <3>1. PICK l \in 1..5 : Len(encode_piv(number)) = l
      BY <2>1, <2>2, LastNumber
    <3>2. Canonical(encode_piv(number)) /\ PivValue(encode_piv(number)) = number
      BY <2>1, DigitsCanonical, ValueOfDigits
    <3>3. CanonicalPiv(encode_piv(number))
      BY <3>1, <3>2 DEF Canonical, CanonicalPiv, PIV_MAX_LEN
    <3> QED
      BY <3>2, <3>3 DEF from_piv
  <2>3. ASSUME from_piv(first) # NoNumber PROVE encode_piv(from_piv(first)) = first
    <3>1. CanonicalPiv(first) /\ from_piv(first) = PivValue(first)
      BY <2>3 DEF from_piv
    <3>2. Canonical(first)
      <4>1. PICK l \in 1..5 : Len(first) = l
        BY <3>1 DEF CanonicalPiv, PIV_MAX_LEN
      <4>2. first # <<>>
        BY <4>1
      <4> QED
        BY <3>1, <4>2 DEF CanonicalPiv, Canonical
    <3> QED
      BY <2>1, <3>1, <3>2, DigitsUnique
  <2> QED
    BY <2>2, <2>3
<1>2. Inputs => PivRoundTrip
  BY <1>1 DEF PivRoundTrip
<1> QED
  BY <1>2, InputsHold, PTL

-----------------------------------------------------------------------------
\* Bodies.

\* What decode_nibble returns, and where it stops reading.
LEMMA NibbleRead ==
  ASSUME NEW data \in Seq(Byte), NEW pos \in Nat \ {0}, NEW nibble \in 0..15
  PROVE  LET r == decode_nibble(data, pos, nibble)
         IN r # Malformed =>
              nibble # 15 /\ r \in [value : Nat, next : Nat] /\ r.next >= pos
<1> DEFINE r == decode_nibble(data, pos, nibble)
<1>1. PICK n \in Nat : Len(data) = n
  BY LenProperties
<1>2. ASSUME NEW i \in Nat, i >= 1, i <= n PROVE data[i] \in Nat
  <2>1. i \in 1..n /\ Byte \subseteq Nat
    BY <1>2 DEF Byte
  <2>2. data[i] \in Byte
    BY <1>1, <2>1, ElementOfSeq
  <2> QED
    BY <2>1, <2>2
<1>3. CASE nibble <= 12
  <2>1. r = [value |-> nibble, next |-> pos]
    BY <1>3 DEF decode_nibble
  <2> QED
    BY <1>3, <2>1
<1>4. CASE nibble = 13
  <2>1. CASE pos <= n
    <3>1. r = [value |-> 13 + data[pos], next |-> pos + 1]
      BY <1>1, <1>4, <2>1 DEF decode_nibble
    <3>2. data[pos] \in Nat
      BY <1>2, <2>1
    <3>3. 13 + data[pos] \in Nat /\ pos + 1 \in Nat /\ pos + 1 >= pos
      BY <3>2
    <3> QED
      BY <1>4, <3>1, <3>3
  <2>2. CASE ~(pos <= n)
    BY <1>1, <1>4, <2>2 DEF decode_nibble
  <2> QED
    BY <2>1, <2>2
<1>5. CASE nibble = 14
  <2>1. CASE pos + 1 <= n
    <3>1. r = [value |-> 269 + 256 * data[pos] + data[pos + 1], next |-> pos + 2]
      BY <1>1, <1>5, <2>1 DEF decode_nibble
    <3>2. data[pos] \in Nat /\ data[pos + 1] \in Nat
      BY <1>2, <2>1
    <3>3. 269 + 256 * data[pos] + data[pos + 1] \in Nat /\ pos + 2 \in Nat /\ pos + 2 >= pos
      BY <3>2
    <3> QED
      BY <1>5, <3>1, <3>3
  <2>2. CASE ~(pos + 1 <= n)
    BY <1>1, <1>5, <2>2 DEF decode_nibble
  <2> QED
    BY <2>1, <2>2
<1>6. CASE nibble = 15
  BY <1>6 DEF decode_nibble
<1> QED
  BY <1>3, <1>4, <1>5, <1>6

\* Past an option the loops are further on, and not past the end of the body.
LEMMA Advance ==
  ASSUME NEW data \in Seq(Byte), NEW pos \in Nat \ {0}, pos <= Len(data),
         DeltaAt(data, pos) # Malformed
  PROVE  LET delta == DeltaAt(data, pos)
             end == OptionEnd(data, pos, delta.next)
         IN /\ delta \in [value : Nat, next : Nat]
            /\ end # Malformed => /\ end \in Nat \ {0} /\ pos < end /\ end <= Len(data) + 1
                                  /\ data[pos] % 16 # 15
<1> DEFINE delta == DeltaAt(data, pos)
           end == OptionEnd(data, pos, delta.next)
           length == decode_nibble(data, delta.next, data[pos] % 16)
<1>1. data[pos] \div 16 \in 0..15 /\ data[pos] % 16 \in 0..15
  <2>1. pos \in 1..Len(data)
    BY LenProperties
  <2>2. data[pos] \in Byte
    BY <2>1, ElementOfSeq
  <2>3. PICK b \in 0..255 : b = data[pos]
    BY <2>2 DEF Byte
  <2>4. b \div 16 \in 0..15 /\ b % 16 \in 0..15
    OBVIOUS
  <2> QED
    BY <2>3, <2>4
<1>2. delta \in [value : Nat, next : Nat] /\ delta.next >= pos + 1
  <2>1. pos + 1 \in Nat \ {0}
    OBVIOUS
  <2> QED
    BY <1>1, <2>1, NibbleRead DEF DeltaAt
<1>3. ASSUME end # Malformed
      PROVE  end \in Nat \ {0} /\ pos < end /\ end <= Len(data) + 1 /\ data[pos] % 16 # 15
  <2>1. length # Malformed /\ end = length.next + length.value /\ ~(end > Len(data) + 1)
    BY <1>3 DEF OptionEnd
  <2>2. delta.next \in Nat \ {0}
    BY <1>2
  <2>3. /\ length \in [value : Nat, next : Nat] /\ length.next >= delta.next
        /\ data[pos] % 16 # 15
    BY <1>1, <2>1, <2>2, NibbleRead
  <2> HIDE DEF length, delta, end
  <2>4. PICK a \in Nat, v \in Nat, d \in Nat :
          a = length.next /\ v = length.value /\ d = delta.next /\ a >= d /\ d >= pos + 1
    BY <1>2, <2>3
  <2>5. PICK n \in Nat : n = Len(data)
    BY LenProperties
  <2>6. end = a + v /\ ~(a + v > n + 1)
    BY <2>1, <2>4, <2>5
  <2> QED
    BY <2>3, <2>4, <2>5, <2>6, SMTT(30)
<1> QED
  BY <1>2, <1>3

\* The results of the loops, and what they lead to.
Whole(data) == [options |-> data, payload |-> <<>>]
Results == {Malformed} \cup [options : Seq(Byte), payload : Seq(Byte)]

\* SplitAt gives options and a payload.
LEMMA SplitResult ==
  ASSUME NEW data \in Seq(Byte), NEW pos \in Nat \ {0}, pos <= Len(data)
  PROVE  SplitAt(data, pos) \in Results
<1>1. PICK n \in Nat : Len(data) = n
  BY LenProperties
<1>2. \A i \in 1..n : data[i] \in Byte
  BY <1>1, ElementOfSeq
<1>3. SubSeq(data, 1, pos - 1) \in Seq(Byte) /\ SubSeq(data, pos + 1, n) \in Seq(Byte)
  <2>1. \A i \in 1..(pos - 1) : data[i] \in Byte
    BY <1>1, <1>2
  <2>2. \A i \in (pos + 1)..n : data[i] \in Byte
    BY <1>2
  <2> QED
    BY <2>1, <2>2, SubSeqProperties
<1> QED
  BY <1>1, <1>3 DEF SplitAt, Results

\* What holds of a cursor if it holds of all that are further on holds of all.
LEMMA CursorInduction ==
  ASSUME NEW data \in Seq(Byte), NEW Good,
         \A at \in Cursor :
           (\A c \in Cursor : at.pos <= Len(data) /\ at.pos < c.pos => c \in Good) => at \in Good
  PROVE  \A at \in Cursor : at \in Good
<1>1. PICK n \in Nat : Len(data) = n
  BY LenProperties
<1>2. ASSUME NEW at \in Cursor PROVE at.pos \in Nat \ {0}
  BY DEF Cursor
<1> DEFINE Rank(at) == IF at.pos > n THEN 0 ELSE n + 1 - at.pos
           Bad == {k \in Nat : \E at \in Cursor \ Good : Rank(at) = k}
<1>3. Bad = {}
  <2>1. SUFFICES ASSUME Bad # {} PROVE FALSE
    OBVIOUS
  <2>2. PICK k \in Bad : \A j \in Bad : k <= j
    <3>1. Bad \subseteq Nat
      OBVIOUS
    <3> HIDE DEF Bad
    <3> QED
      BY <2>1, <3>1, Least
  <2>3. PICK at \in Cursor \ Good : Rank(at) = k
    BY <2>2
  <2>4. ASSUME NEW c \in Cursor, at.pos <= Len(data), at.pos < c.pos, c \notin Good
        PROVE  FALSE
    <3>1. PICK p \in Nat, q \in Nat : p = at.pos /\ q = c.pos
      BY <1>2
    <3>2. p <= n /\ p < q /\ k = n + 1 - p
      BY <1>1, <2>3, <2>4, <3>1
    <3>3. Rank(c) \in Nat /\ Rank(c) < k
      BY <3>1, <3>2
    <3>4. Rank(c) \in Bad
      BY <2>4, <3>3
    <3>5. k <= Rank(c)
      <4> HIDE DEF Bad, Rank
      <4> QED
        BY <2>2, <3>4
    <3> QED
      BY <3>2, <3>3, <3>5
  <2> HIDE DEF Bad, Rank
  <2>5. \A c \in Cursor : at.pos <= Len(data) /\ at.pos < c.pos => c \in Good
    BY <2>4
  <2>6. at \in Cursor /\ at \notin Good
    BY <2>3
  <2>7. at \in Good
    BY <2>5, <2>6
  <2> QED
    BY <2>6, <2>7
<1>4. ASSUME NEW at \in Cursor, at \notin Good PROVE FALSE
  <2>1. Rank(at) \in Nat
    BY <1>2
  <2>2. Rank(at) \in Bad
    BY <1>4, <2>1
  <2> HIDE DEF Bad, Rank
  <2> QED
    BY <1>3, <2>2
<1> QED
  BY <1>4

\* The loop of parse_inner_body, cursor by cursor.
ParseScan(data) ==
  CHOOSE scan : scan = [at \in Cursor |->
    IF at.pos > Len(data) THEN [options |-> data, payload |-> <<>>]
    ELSE IF data[at.pos] = MARKER THEN SplitAt(data, at.pos)
    ELSE LET delta == DeltaAt(data, at.pos) IN
      IF \/ delta = Malformed \/ at.number + delta.value >= U16
         \/ OptionEnd(data, at.pos, delta.next) = Malformed
      THEN Malformed
      ELSE scan[Behind(data, at, delta, delta.value)]]

ParseRefuses(data, at) ==
  LET delta == DeltaAt(data, at.pos)
  IN \/ delta = Malformed \/ at.number + delta.value >= U16
     \/ OptionEnd(data, at.pos, delta.next) = Malformed
ParseNext(data, at) == Behind(data, at, DeltaAt(data, at.pos), DeltaAt(data, at.pos).value)

\* parse_inner_body only moves forward,
LEMMA ParseBehind ==
  ASSUME NEW data \in Seq(Byte), NEW at \in Cursor, at.pos <= Len(data), ~ParseRefuses(data, at)
  PROVE  /\ ParseNext(data, at) \in Cursor
         /\ at.pos < ParseNext(data, at).pos /\ ParseNext(data, at).pos <= Len(data) + 1
         /\ data[at.pos] % 16 # 15
<1> DEFINE delta == DeltaAt(data, at.pos)
           end == OptionEnd(data, at.pos, delta.next)
<1>1. delta # Malformed /\ end # Malformed
  BY DEF ParseRefuses
<1>2. at.pos \in Nat \ {0} /\ at.number \in Nat
  BY DEF Cursor
<1>3. /\ delta \in [value : Nat, next : Nat]
      /\ end \in Nat \ {0} /\ at.pos < end /\ end <= Len(data) + 1
      /\ data[at.pos] % 16 # 15
  BY <1>1, <1>2, Advance
<1>4. ParseNext(data, at) = [pos |-> end, number |-> at.number + delta.value]
  BY DEF ParseNext, Behind
<1> HIDE DEF delta, end
<1>5. at.number + delta.value \in Nat
  BY <1>2, <1>3
<1> QED
  BY <1>3, <1>4, <1>5 DEF Cursor

\* so its loop is the function it is written as: each turn returns, or goes on
\* with the next option.
LEMMA ParseEquation ==
  ASSUME NEW data \in Seq(Byte)
  PROVE  /\ parse_inner_body(data) = ParseScan(data)[Start] /\ Start \in Cursor
         /\ \A at \in Cursor :
              /\ ParseScan(data)[at] =
                   IF at.pos > Len(data) THEN Whole(data)
                   ELSE IF data[at.pos] = MARKER THEN SplitAt(data, at.pos)
                   ELSE IF ParseRefuses(data, at) THEN Malformed
                   ELSE ParseScan(data)[ParseNext(data, at)]
              /\ ParseScan(data)[at] \in Results
<1> DEFINE Stop == {at \in Cursor : \/ at.pos > Len(data) \/ data[at.pos] = MARKER
                                    \/ ParseRefuses(data, at)}
           out == [at \in Cursor |-> IF at.pos > Len(data) THEN Whole(data)
                                     ELSE IF data[at.pos] = MARKER THEN SplitAt(data, at.pos)
                                     ELSE Malformed]
           next == [at \in Cursor |-> IF at \in Stop THEN at ELSE ParseNext(data, at)]
           comb == [at \in Cursor |-> [x \in Results |-> x]]
           rank == [at \in Cursor |-> IF at.pos > Len(data) THEN 0 ELSE Len(data) + 1 - at.pos]
<1>1. PICK n \in Nat : Len(data) = n
  BY LenProperties
<1>2. ASSUME NEW at \in Cursor PROVE at.pos \in Nat \ {0} /\ at.number \in Nat
  BY DEF Cursor
<1>3. Terminates(Cursor, Results, Stop, out, next, comb, rank)
  <2>1. out \in [Cursor -> Results]
    <3>1. ASSUME NEW at \in Cursor
          PROVE  (IF at.pos > Len(data) THEN Whole(data)
                  ELSE IF data[at.pos] = MARKER THEN SplitAt(data, at.pos) ELSE Malformed) \in Results
      <4>1. CASE at.pos > Len(data)
        <5>1. <<>> \in Seq(Byte)
          OBVIOUS
        <5>2. Whole(data) \in Results
          BY <5>1 DEF Whole, Results
        <5> QED
          BY <4>1, <5>2
      <4>2. CASE ~(at.pos > Len(data))
        <5>1. at.pos \in Nat \ {0} /\ at.pos <= Len(data)
          BY <1>1, <1>2, <4>2
        <5>2. SplitAt(data, at.pos) \in Results
          BY <5>1, SplitResult
        <5>3. Malformed \in Results
          BY DEF Results
        <5> QED
          BY <4>2, <5>2, <5>3
      <4> QED
        BY <4>1, <4>2
    <3> QED
      BY <3>1
  <2>2. ASSUME NEW at \in Cursor, at \notin Stop
        PROVE  ParseNext(data, at) \in Cursor /\ rank[ParseNext(data, at)] < rank[at]
    <3>1. at.pos <= Len(data) /\ ~ParseRefuses(data, at)
      BY <1>1, <1>2, <2>2
    <3>2. /\ ParseNext(data, at) \in Cursor
          /\ at.pos < ParseNext(data, at).pos /\ ParseNext(data, at).pos <= Len(data) + 1
      BY <3>1, ParseBehind
    <3>3. PICK p \in Nat, q \in Nat : p = at.pos /\ q = ParseNext(data, at).pos
      BY <1>2, <3>2
    <3>4. rank[at] = n + 1 - p /\ p < q /\ p <= n
      BY <1>1, <3>1, <3>2, <3>3
    <3>5. rank[ParseNext(data, at)] = IF q > n THEN 0 ELSE n + 1 - q
      BY <1>1, <3>2, <3>3
    <3> QED
      BY <3>2, <3>4, <3>5
  <2>3. rank \in [Cursor -> Nat]
    BY <1>1, <1>2
  <2>4. next \in [Cursor -> Cursor] /\ \A at \in Cursor : at \in Stop \/ rank[next[at]] < rank[at]
    <3> HIDE DEF Stop, rank
    <3> QED
      BY <2>2
  <2>5. comb \in [Cursor -> [Results -> Results]]
    OBVIOUS
  <2> HIDE DEF Stop, out, next, comb, rank
  <2> QED
    BY <2>1, <2>3, <2>4, <2>5 DEF Terminates
<1>4. PICK f \in [Cursor -> Results] :
        \A at \in Cursor : f[at] = IF at \in Stop THEN out[at] ELSE comb[at][f[next[at]]]
  <2> HIDE DEF Stop, out, next, comb, rank
  <2>1. Computes(Cursor, Results, Stop, out, next, comb) # {}
    BY <1>3, Recursion
  <2> QED
    BY <2>1 DEF Computes
<1>5. ASSUME NEW at \in Cursor
      PROVE  f[at] = IF at.pos > Len(data) THEN Whole(data)
                     ELSE IF data[at.pos] = MARKER THEN SplitAt(data, at.pos)
                     ELSE IF ParseRefuses(data, at) THEN Malformed
                     ELSE f[ParseNext(data, at)]
  <2>1. CASE at \in Stop
    BY <1>4, <2>1
  <2>2. CASE at \notin Stop
    <3>1. ~(at.pos > Len(data)) /\ data[at.pos] # MARKER /\ ~ParseRefuses(data, at)
      BY <2>2
    <3>2. at.pos <= Len(data)
      BY <1>1, <1>2, <3>1
    <3>3. ParseNext(data, at) \in Cursor
      BY <3>1, <3>2, ParseBehind
    <3>4. f[at] = f[ParseNext(data, at)]
      <4>1. next[at] = ParseNext(data, at)
        BY <2>2
      <4> HIDE DEF Stop, next
      <4>2. f[next[at]] \in Results
        BY <3>3, <4>1
      <4> QED
        BY <1>4, <2>2, <4>1, <4>2
    <3> QED
      BY <3>1, <3>4
  <2> QED
    BY <2>1, <2>2
<1>6. f = [at \in Cursor |->
    IF at.pos > Len(data) THEN [options |-> data, payload |-> <<>>]
    ELSE IF data[at.pos] = MARKER THEN SplitAt(data, at.pos)
    ELSE LET delta == DeltaAt(data, at.pos) IN
      IF \/ delta = Malformed \/ at.number + delta.value >= U16
         \/ OptionEnd(data, at.pos, delta.next) = Malformed
      THEN Malformed
      ELSE f[Behind(data, at, delta, delta.value)]]
  BY <1>5, Zenon DEF ParseRefuses, ParseNext, Whole
<1>7. ParseScan(data) = [at \in Cursor |->
    IF at.pos > Len(data) THEN [options |-> data, payload |-> <<>>]
    ELSE IF data[at.pos] = MARKER THEN SplitAt(data, at.pos)
    ELSE LET delta == DeltaAt(data, at.pos) IN
      IF \/ delta = Malformed \/ at.number + delta.value >= U16
         \/ OptionEnd(data, at.pos, delta.next) = Malformed
      THEN Malformed
      ELSE ParseScan(data)[Behind(data, at, delta, delta.value)]]
  BY <1>6, Zenon DEF ParseScan
<1>8. ASSUME NEW at \in Cursor
      PROVE  ParseScan(data)[at] =
               IF at.pos > Len(data) THEN Whole(data)
               ELSE IF data[at.pos] = MARKER THEN SplitAt(data, at.pos)
               ELSE IF ParseRefuses(data, at) THEN Malformed
               ELSE ParseScan(data)[ParseNext(data, at)]
  BY <1>7, Zenon DEF ParseRefuses, ParseNext, Whole
<1> DEFINE Good == {at \in Cursor : ParseScan(data)[at] \in Results}
<1>9. ASSUME NEW at \in Cursor,
             \A c \in Cursor : at.pos <= Len(data) /\ at.pos < c.pos => c \in Good
      PROVE  at \in Good
  <2>1. CASE at \in Stop
    <3>1. out[at] \in Results /\ ParseScan(data)[at] = out[at]
      BY <1>3, <1>8, <2>1 DEF Terminates
    <3> QED
      BY <3>1
  <2>2. CASE at \notin Stop
    <3>1. ~(at.pos > Len(data)) /\ data[at.pos] # MARKER /\ ~ParseRefuses(data, at)
      BY <2>2
    <3>2. at.pos <= Len(data)
      BY <1>1, <1>2, <3>1
    <3>3. ParseNext(data, at) \in Cursor /\ at.pos < ParseNext(data, at).pos
      BY <3>1, <3>2, ParseBehind
    <3>4. ParseNext(data, at) \in Good
      BY <1>9, <3>2, <3>3
    <3> QED
      BY <1>8, <3>1, <3>4
  <2> QED
    BY <2>1, <2>2
<1>10. \A at \in Cursor : ParseScan(data)[at] \in Results
  <2> HIDE DEF Good
  <2>1. \A at \in Cursor : at \in Good
    BY <1>9, CursorInduction
  <2> QED
    BY <2>1 DEF Good
<1>11. parse_inner_body(data) = ParseScan(data)[Start]
  BY Zenon DEF parse_inner_body, ParseScan
<1>12. Start \in Cursor
  BY DEF Start, Cursor
<1> QED
  BY <1>8, <1>10, <1>11, <1>12

\* The loop of find_payload_marker, cursor by cursor.
FindScan(data, checked) ==
  CHOOSE scan : scan = [at \in Cursor |->
    IF at.pos > Len(data) THEN 0
    ELSE IF data[at.pos] = MARKER THEN at.pos
    ELSE LET delta == DeltaAt(data, at.pos) IN
      IF data[at.pos] % 16 = 15 \/ delta = Malformed THEN Malformed
      ELSE IF delta.value >= U16 /\ checked THEN Panicked
      ELSE IF \/ at.number + (delta.value % U16) >= U16
              \/ OptionEnd(data, at.pos, delta.next) = Malformed
      THEN Malformed
      ELSE scan[Behind(data, at, delta, delta.value % U16)]]

FindRefuses(data, at) ==
  LET delta == DeltaAt(data, at.pos)
  IN \/ at.number + (delta.value % U16) >= U16
     \/ OptionEnd(data, at.pos, delta.next) = Malformed
Unread(data, at) == data[at.pos] % 16 = 15 \/ DeltaAt(data, at.pos) = Malformed
Overflows(data, at) == DeltaAt(data, at.pos).value >= U16
FindNext(data, at) ==
  Behind(data, at, DeltaAt(data, at.pos), DeltaAt(data, at.pos).value % U16)
FindEnds(data, at, checked) ==
  \/ at.pos > Len(data) \/ data[at.pos] = MARKER \/ Unread(data, at)
  \/ Overflows(data, at) /\ checked
  \/ FindRefuses(data, at)

\* find_payload_marker only moves forward,
LEMMA FindBehind ==
  ASSUME NEW data \in Seq(Byte), NEW at \in Cursor, at.pos <= Len(data),
         ~Unread(data, at), ~FindRefuses(data, at)
  PROVE  /\ FindNext(data, at) \in Cursor
         /\ at.pos < FindNext(data, at).pos /\ FindNext(data, at).pos <= Len(data) + 1
<1> DEFINE delta == DeltaAt(data, at.pos)
           end == OptionEnd(data, at.pos, delta.next)
<1>1. delta # Malformed /\ end # Malformed
  BY DEF FindRefuses, Unread
<1>2. at.pos \in Nat \ {0} /\ at.number \in Nat
  BY DEF Cursor
<1>3. /\ delta \in [value : Nat, next : Nat]
      /\ end \in Nat \ {0} /\ at.pos < end /\ end <= Len(data) + 1
  BY <1>1, <1>2, Advance
<1>4. FindNext(data, at) = [pos |-> end, number |-> at.number + (delta.value % U16)]
  BY DEF FindNext, Behind
<1> HIDE DEF delta, end
<1>5. at.number + (delta.value % U16) \in Nat
  <2>1. PICK v \in Nat : v = delta.value
    BY <1>3
  <2>2. v % 65536 \in Nat
    OBVIOUS
  <2> QED
    BY <1>2, <2>1, <2>2 DEF U16
<1> QED
  BY <1>3, <1>4, <1>5 DEF Cursor

\* so its loop, too, is the function it is written as.
LEMMA FindEquation ==
  ASSUME NEW data \in Seq(Byte), NEW checked \in BOOLEAN
  PROVE  /\ find_payload_marker(data, checked) = FindScan(data, checked)[Start]
         /\ \A at \in Cursor :
              FindScan(data, checked)[at] =
                IF at.pos > Len(data) THEN 0
                ELSE IF data[at.pos] = MARKER THEN at.pos
                ELSE IF Unread(data, at) THEN Malformed
                ELSE IF Overflows(data, at) /\ checked THEN Panicked
                ELSE IF FindRefuses(data, at) THEN Malformed
                ELSE FindScan(data, checked)[FindNext(data, at)]
<1> DEFINE Places == Nat \cup {Malformed, Panicked}
           Stop == {at \in Cursor : FindEnds(data, at, checked)}
           out == [at \in Cursor |-> IF at.pos > Len(data) THEN 0
                                     ELSE IF data[at.pos] = MARKER THEN at.pos
                                     ELSE IF Unread(data, at) THEN Malformed
                                     ELSE IF Overflows(data, at) /\ checked THEN Panicked
                                     ELSE Malformed]
           next == [at \in Cursor |-> IF at \in Stop THEN at ELSE FindNext(data, at)]
           comb == [at \in Cursor |-> [x \in Places |-> x]]
           rank == [at \in Cursor |-> IF at.pos > Len(data) THEN 0 ELSE Len(data) + 1 - at.pos]
<1>1. PICK n \in Nat : Len(data) = n
  BY LenProperties
<1>2. ASSUME NEW at \in Cursor PROVE at.pos \in Nat \ {0} /\ at.number \in Nat
  BY DEF Cursor
<1>3. Terminates(Cursor, Places, Stop, out, next, comb, rank)
  <2>1. out \in [Cursor -> Places]
    BY <1>2
  <2>2. ASSUME NEW at \in Cursor, at \notin Stop
        PROVE  FindNext(data, at) \in Cursor /\ rank[FindNext(data, at)] < rank[at]
    <3>0. ~(at.pos > Len(data)) /\ ~Unread(data, at) /\ ~FindRefuses(data, at)
      <4>1. ~FindEnds(data, at, checked)
        BY <2>2
      <4> QED
        BY <4>1, Zenon DEF FindEnds
    <3>1. at.pos <= Len(data) /\ ~Unread(data, at) /\ ~FindRefuses(data, at)
      BY <1>1, <1>2, <3>0
    <3>2. /\ FindNext(data, at) \in Cursor
          /\ at.pos < FindNext(data, at).pos /\ FindNext(data, at).pos <= Len(data) + 1
      BY <3>1, FindBehind
    <3>3. PICK p \in Nat, q \in Nat : p = at.pos /\ q = FindNext(data, at).pos
      BY <1>2, <3>2
    <3>4. rank[at] = n + 1 - p /\ p < q /\ p <= n
      BY <1>1, <3>1, <3>2, <3>3
    <3>5. rank[FindNext(data, at)] = IF q > n THEN 0 ELSE n + 1 - q
      BY <1>1, <3>2, <3>3
    <3> QED
      BY <3>2, <3>4, <3>5
  <2>3. rank \in [Cursor -> Nat]
    BY <1>1, <1>2
  <2>4. next \in [Cursor -> Cursor] /\ \A at \in Cursor : at \in Stop \/ rank[next[at]] < rank[at]
    <3> HIDE DEF Stop, rank
    <3> QED
      BY <2>2
  <2>5. comb \in [Cursor -> [Places -> Places]]
    OBVIOUS
  <2> HIDE DEF Stop, out, next, comb, rank, Places
  <2> QED
    BY <2>1, <2>3, <2>4, <2>5 DEF Terminates
<1>4. PICK f \in [Cursor -> Places] :
        \A at \in Cursor : f[at] = IF at \in Stop THEN out[at] ELSE comb[at][f[next[at]]]
  <2> HIDE DEF Stop, out, next, comb, rank, Places
  <2>1. Computes(Cursor, Places, Stop, out, next, comb) # {}
    BY <1>3, Recursion
  <2> QED
    BY <2>1 DEF Computes
<1>5. ASSUME NEW at \in Cursor
      PROVE  f[at] = IF at.pos > Len(data) THEN 0
                     ELSE IF data[at.pos] = MARKER THEN at.pos
                     ELSE IF Unread(data, at) THEN Malformed
                     ELSE IF Overflows(data, at) /\ checked THEN Panicked
                     ELSE IF FindRefuses(data, at) THEN Malformed
                     ELSE f[FindNext(data, at)]
  <2>1. CASE at \in Stop
    <3>1. FindEnds(data, at, checked) /\ f[at] = out[at]
      BY <1>4, <2>1
    <3> QED
      BY <3>1, Zenon DEF FindEnds
  <2>2. CASE at \notin Stop
    <3>1. /\ ~(at.pos > Len(data)) /\ data[at.pos] # MARKER /\ ~Unread(data, at)
          /\ ~(Overflows(data, at) /\ checked) /\ ~FindRefuses(data, at)
      <4>1. ~FindEnds(data, at, checked)
        BY <2>2
      <4> QED
        BY <4>1, Zenon DEF FindEnds
    <3>2. at.pos <= Len(data)
      BY <1>1, <1>2, <3>1
    <3>3. FindNext(data, at) \in Cursor
      BY <3>1, <3>2, FindBehind
    <3>4. f[at] = f[FindNext(data, at)]
      <4>1. next[at] = FindNext(data, at)
        BY <2>2
      <4> HIDE DEF Stop, next
      <4>2. f[next[at]] \in Places
        BY <3>3, <4>1
      <4> QED
        BY <1>4, <2>2, <4>1, <4>2
    <3> QED
      BY <3>1, <3>4
  <2> QED
    BY <2>1, <2>2
<1>6. f = [at \in Cursor |->
    IF at.pos > Len(data) THEN 0
    ELSE IF data[at.pos] = MARKER THEN at.pos
    ELSE LET delta == DeltaAt(data, at.pos) IN
      IF data[at.pos] % 16 = 15 \/ delta = Malformed THEN Malformed
      ELSE IF delta.value >= U16 /\ checked THEN Panicked
      ELSE IF \/ at.number + (delta.value % U16) >= U16
              \/ OptionEnd(data, at.pos, delta.next) = Malformed
      THEN Malformed
      ELSE f[Behind(data, at, delta, delta.value % U16)]]
  BY <1>5, Zenon DEF FindRefuses, FindNext, Unread, Overflows
<1>7. FindScan(data, checked) = [at \in Cursor |->
    IF at.pos > Len(data) THEN 0
    ELSE IF data[at.pos] = MARKER THEN at.pos
    ELSE LET delta == DeltaAt(data, at.pos) IN
      IF data[at.pos] % 16 = 15 \/ delta = Malformed THEN Malformed
      ELSE IF delta.value >= U16 /\ checked THEN Panicked
      ELSE IF \/ at.number + (delta.value % U16) >= U16
              \/ OptionEnd(data, at.pos, delta.next) = Malformed
      THEN Malformed
      ELSE FindScan(data, checked)[Behind(data, at, delta, delta.value % U16)]]
  BY <1>6, Zenon DEF FindScan
<1>8. ASSUME NEW at \in Cursor
      PROVE  FindScan(data, checked)[at] =
               IF at.pos > Len(data) THEN 0
               ELSE IF data[at.pos] = MARKER THEN at.pos
               ELSE IF Unread(data, at) THEN Malformed
               ELSE IF Overflows(data, at) /\ checked THEN Panicked
               ELSE IF FindRefuses(data, at) THEN Malformed
               ELSE FindScan(data, checked)[FindNext(data, at)]
  BY <1>7, Zenon DEF FindRefuses, FindNext, Unread, Overflows
<1>9. find_payload_marker(data, checked) = FindScan(data, checked)[Start]
  BY Zenon DEF find_payload_marker, FindScan
<1> QED
  BY <1>8, <1>9

-----------------------------------------------------------------------------
\* take_apart, the marker given.
Apart(data, marker) ==
  CASE marker \in {Malformed, Panicked} -> marker
    [] marker = 0 -> Whole(data)
    [] OTHER -> SplitAt(data, marker)

\* take_apart uses nothing but the marker it has found.
LEMMA TakeApart ==
  ASSUME NEW data, NEW checked
  PROVE  take_apart(data, checked) = Apart(data, find_payload_marker(data, checked))
BY Zenon DEF take_apart, Apart, Whole

\* Parser and splitter go the same way, unless a delta exceeds 16 bits.
LEMMA SameWay ==
  ASSUME NEW data \in Seq(Byte), NEW at \in Cursor, at.pos <= Len(data),
         ~Unread(data, at), ~Overflows(data, at)
  PROVE  /\ FindRefuses(data, at) <=> ParseRefuses(data, at)
         /\ FindNext(data, at) = ParseNext(data, at)
<1> DEFINE delta == DeltaAt(data, at.pos)
<1>1. at.pos \in Nat \ {0} /\ at.number \in Nat
  BY DEF Cursor
<1>2. delta \in [value : Nat, next : Nat] /\ delta # Malformed
  BY <1>1, Advance DEF Unread
<1>3. delta.value % U16 = delta.value
  <2>1. PICK v \in Nat : v = delta.value
    BY <1>2
  <2>2. ~(v >= 65536)
    BY <2>1 DEF Overflows, U16
  <2>3. v % 65536 = v
    BY <2>2
  <2> QED
    BY <2>1, <2>3 DEF U16
<1> QED
  BY <1>2, <1>3, Zenon DEF FindRefuses, ParseRefuses, FindNext, ParseNext

Agree(data, at) ==
  LET checked == FindScan(data, TRUE)[at]
      parsed == ParseScan(data)[at]
  IN IF checked = Panicked THEN parsed = Malformed
     ELSE Apart(data, checked) = parsed /\ FindScan(data, FALSE)[at] = checked

\* From every option the two loops agree.
LEMMA LoopsAgree ==
  ASSUME NEW data \in Seq(Byte), NEW at \in Cursor
  PROVE  Agree(data, at)
<1> DEFINE Good == {c \in Cursor : Agree(data, c)}
<1>1. ASSUME NEW c \in Cursor,
             \A d \in Cursor : c.pos <= Len(data) /\ c.pos < d.pos => d \in Good
      PROVE  Agree(data, c)
  <2> DEFINE checked == FindScan(data, TRUE)[c]
             wrapped == FindScan(data, FALSE)[c]
             parsed == ParseScan(data)[c]
  <2>0. PICK n \in Nat, p \in Nat \ {0} : Len(data) = n /\ c.pos = p /\ c.number \in Nat
    BY LenProperties DEF Cursor
  <2>1. /\ checked = IF c.pos > Len(data) THEN 0
                     ELSE IF data[c.pos] = MARKER THEN c.pos
                     ELSE IF Unread(data, c) THEN Malformed
                     ELSE IF Overflows(data, c) THEN Panicked
                     ELSE IF FindRefuses(data, c) THEN Malformed
                     ELSE FindScan(data, TRUE)[FindNext(data, c)]
        /\ wrapped = IF c.pos > Len(data) THEN 0
                     ELSE IF data[c.pos] = MARKER THEN c.pos
                     ELSE IF Unread(data, c) THEN Malformed
                     ELSE IF FindRefuses(data, c) THEN Malformed
                     ELSE FindScan(data, FALSE)[FindNext(data, c)]
        /\ parsed = IF c.pos > Len(data) THEN Whole(data)
                    ELSE IF data[c.pos] = MARKER THEN SplitAt(data, c.pos)
                    ELSE IF ParseRefuses(data, c) THEN Malformed
                    ELSE ParseScan(data)[ParseNext(data, c)]
    BY FindEquation, ParseEquation
  <2>2. Malformed # Panicked /\ 0 \notin {Malformed, Panicked} /\ p \notin {Malformed, Panicked}
    BY FailureAssumption
  <2>3. Agree(data, c) = IF checked = Panicked THEN parsed = Malformed
                         ELSE Apart(data, checked) = parsed /\ wrapped = checked
    BY DEF Agree
  <2> HIDE DEF checked, wrapped, parsed
  <2>4. CASE c.pos > Len(data)
    <3>1. checked = 0 /\ wrapped = 0 /\ parsed = Whole(data)
      BY <2>1, <2>4
    <3> QED
      BY <2>2, <2>3, <3>1 DEF Apart
  <2>5. CASE ~(c.pos > Len(data)) /\ data[c.pos] = MARKER
    <3>1. checked = p /\ wrapped = p /\ parsed = SplitAt(data, p)
      BY <2>0, <2>1, <2>5
    <3> QED
      BY <2>2, <2>3, <3>1 DEF Apart
  <2>6. CASE ~(c.pos > Len(data)) /\ data[c.pos] # MARKER /\ Unread(data, c)
    <3>1. c.pos <= Len(data)
      BY <2>0, <2>6
    <3>2. ParseRefuses(data, c)
      <4>1. SUFFICES ASSUME ~ParseRefuses(data, c) PROVE FALSE
        OBVIOUS
      <4>2. data[c.pos] % 16 # 15
        BY <3>1, <4>1, ParseBehind
      <4>3. DeltaAt(data, c.pos) # Malformed
        BY <4>1 DEF ParseRefuses
      <4> QED
        BY <2>6, <4>2, <4>3 DEF Unread
    <3>3. checked = Malformed /\ wrapped = Malformed /\ parsed = Malformed
      BY <2>1, <2>6, <3>2
    <3> QED
      BY <2>2, <2>3, <3>3 DEF Apart
  <2>7. CASE /\ ~(c.pos > Len(data)) /\ data[c.pos] # MARKER /\ ~Unread(data, c)
             /\ Overflows(data, c)
    <3>1. ParseRefuses(data, c)
      <4>1. c.pos <= Len(data) /\ c.pos \in Nat \ {0}
        BY <2>0, <2>7
      <4>2. DeltaAt(data, c.pos) \in [value : Nat, next : Nat]
        BY <2>7, <4>1, Advance DEF Unread
      <4>3. PICK v \in Nat, m \in Nat : v = DeltaAt(data, c.pos).value /\ m = c.number
        BY <2>0, <4>2
      <4>4. v >= 65536
        BY <2>7, <4>3 DEF Overflows, U16
      <4>5. m + v >= 65536
        BY <4>4
      <4> QED
        BY <4>3, <4>5 DEF ParseRefuses, U16
    <3>2. checked = Panicked /\ parsed = Malformed
      BY <2>1, <2>7, <3>1
    <3> QED
      BY <2>3, <3>2
  <2>8. CASE /\ ~(c.pos > Len(data)) /\ data[c.pos] # MARKER /\ ~Unread(data, c)
             /\ ~Overflows(data, c)
    <3>1. c.pos <= Len(data)
      BY <2>0, <2>8
    <3>2. /\ FindRefuses(data, c) <=> ParseRefuses(data, c)
          /\ FindNext(data, c) = ParseNext(data, c)
      BY <2>8, <3>1, SameWay
    <3>3. CASE ParseRefuses(data, c)
      <4>1. checked = Malformed /\ wrapped = Malformed /\ parsed = Malformed
        BY <2>1, <2>8, <3>2, <3>3
      <4> QED
        BY <2>2, <2>3, <4>1 DEF Apart
    <3>4. CASE ~ParseRefuses(data, c)
      <4> DEFINE d == ParseNext(data, c)
      <4>1. d \in Cursor /\ c.pos < d.pos
        BY <3>1, <3>4, ParseBehind
      <4>2. Agree(data, d)
        BY <1>1, <3>1, <4>1
      <4>3. /\ checked = FindScan(data, TRUE)[d] /\ wrapped = FindScan(data, FALSE)[d]
            /\ parsed = ParseScan(data)[d]
        BY <2>1, <2>8, <3>2, <3>4
      <4> QED
        BY <2>3, <4>2, <4>3 DEF Agree
    <3> QED
      BY <3>3, <3>4
  <2> QED
    BY <2>4, <2>5, <2>6, <2>7, <2>8
<1>2. \A c \in Cursor : c \in Good
  <2>1. \A c \in Cursor :
          (\A d \in Cursor : c.pos <= Len(data) /\ c.pos < d.pos => d \in Good) => c \in Good
    BY <1>1
  <2> HIDE DEF Good
  <2> QED
    BY <2>1, CursorInduction
<1> QED
  BY <1>2

\* An option that is read says the same whatever follows it.
Begins(data, start) ==
  /\ data \in Seq(Byte) /\ start \in Seq(Byte) /\ Len(start) <= Len(data)
  /\ \A i \in 1..Len(start) : data[i] = start[i]

\* A nibble that was read in the front of a string is read the same in the whole,
LEMMA PrefixRead ==
  ASSUME NEW data, NEW start, Begins(data, start), NEW pos \in Nat \ {0}, NEW nibble \in 0..15,
         decode_nibble(start, pos, nibble) # Malformed
  PROVE  decode_nibble(data, pos, nibble) = decode_nibble(start, pos, nibble)
<1>1. PICK n \in Nat, m \in Nat : Len(data) = n /\ Len(start) = m /\ m <= n
  BY LenProperties DEF Begins
<1>2. \A i \in 1..m : data[i] = start[i]
  BY <1>1 DEF Begins
<1>3. CASE nibble <= 12
  BY <1>3 DEF decode_nibble
<1>4. CASE nibble = 13
  <2>1. pos <= m
    BY <1>1, <1>4 DEF decode_nibble
  <2>2. data[pos] = start[pos] /\ pos <= n
    BY <1>1, <1>2, <2>1
  <2> QED
    BY <1>1, <1>4, <2>1, <2>2 DEF decode_nibble
<1>5. CASE nibble = 14
  <2>1. pos + 1 <= m
    BY <1>1, <1>5 DEF decode_nibble
  <2>2. data[pos] = start[pos] /\ data[pos + 1] = start[pos + 1] /\ pos + 1 <= n
    BY <1>1, <1>2, <2>1
  <2> QED
    BY <1>1, <1>5, <2>1, <2>2 DEF decode_nibble
<1>6. CASE nibble = 15
  BY <1>6 DEF decode_nibble
<1> QED
  BY <1>3, <1>4, <1>5, <1>6

\* and so is an option.
LEMMA PrefixStep ==
  ASSUME NEW data, NEW start, Begins(data, start), NEW at \in Cursor, at.pos <= Len(start),
         ~ParseRefuses(start, at)
  PROVE  /\ data[at.pos] = start[at.pos] /\ at.pos <= Len(data)
         /\ ~ParseRefuses(data, at) /\ ParseNext(data, at) = ParseNext(start, at)
<1>1. PICK n \in Nat, m \in Nat, p \in Nat \ {0} :
        Len(data) = n /\ Len(start) = m /\ m <= n /\ p = at.pos /\ p <= m
  BY LenProperties DEF Begins, Cursor
<1>2. data[p] = start[p] /\ start[p] \div 16 \in 0..15 /\ start[p] % 16 \in 0..15
  <2>1. p \in 1..m
    BY <1>1
  <2>2. data[p] = start[p] /\ start[p] \in Byte
    BY <1>1, <2>1, ElementOfSeq DEF Begins
  <2>3. PICK b \in 0..255 : b = start[p]
    BY <2>2 DEF Byte
  <2>4. b \div 16 \in 0..15 /\ b % 16 \in 0..15
    OBVIOUS
  <2> QED
    BY <2>2, <2>3, <2>4
<1> DEFINE delta == DeltaAt(start, p)
           end == OptionEnd(start, p, delta.next)
           length == decode_nibble(start, delta.next, start[p] % 16)
<1>3. delta # Malformed /\ end # Malformed
  BY <1>1 DEF ParseRefuses
<1>4. DeltaAt(data, p) = delta
  <2>1. p + 1 \in Nat \ {0}
    OBVIOUS
  <2>2. DeltaAt(data, p) = decode_nibble(data, p + 1, start[p] \div 16)
    BY <1>2 DEF DeltaAt
  <2>3. delta = decode_nibble(start, p + 1, start[p] \div 16)
    BY DEF DeltaAt
  <2> QED
    BY <1>2, <1>3, <2>1, <2>2, <2>3, PrefixRead
<1>5. /\ delta \in [value : Nat, next : Nat] /\ delta.next \in Nat \ {0}
  <2>1. start \in Seq(Byte)
    BY DEF Begins
  <2>2. delta \in [value : Nat, next : Nat]
    BY <1>1, <1>3, <2>1, Advance
  <2>3. delta.next >= p + 1
    <3>1. p + 1 \in Nat \ {0}
      OBVIOUS
    <3> QED
      BY <1>2, <1>3, <2>1, <3>1, NibbleRead DEF DeltaAt
  <2> QED
    BY <2>2, <2>3
<1>6. OptionEnd(data, p, delta.next) = end
  <2>1. length # Malformed /\ end = length.next + length.value
        /\ ~(length.next + length.value > m + 1)
    BY <1>1, <1>3 DEF OptionEnd
  <2>2. decode_nibble(data, delta.next, data[p] % 16) = length
    BY <1>2, <1>5, <2>1, PrefixRead
  <2>3. length \in [value : Nat, next : Nat]
    <3>1. start \in Seq(Byte)
      BY DEF Begins
    <3> QED
      BY <1>2, <1>5, <2>1, <3>1, NibbleRead
  <2> HIDE DEF length, delta, end
  <2>4. ~(length.next + length.value > n + 1)
    <3>1. PICK a \in Nat, v \in Nat : a = length.next /\ v = length.value
      BY <2>3
    <3>2. ~(a + v > n + 1)
      BY <1>1, <2>1, <3>1
    <3> QED
      BY <3>1, <3>2
  <2> QED
    BY <1>1, <2>1, <2>2, <2>4 DEF OptionEnd
<1>7. ParseRefuses(data, at) <=> ParseRefuses(start, at)
  BY <1>1, <1>4, <1>6, Zenon DEF ParseRefuses
<1>8. ParseNext(data, at) = ParseNext(start, at)
  BY <1>1, <1>4, <1>6, Zenon DEF ParseNext, Behind
<1>9. p <= n
  BY <1>1
<1> QED
  BY <1>1, <1>2, <1>7, <1>8, <1>9

\* Where parse_inner_body goes on, find_payload_marker does.
LEMMA GoesOn ==
  ASSUME NEW data \in Seq(Byte), NEW at \in Cursor, at.pos <= Len(data), ~ParseRefuses(data, at)
  PROVE  /\ ~Unread(data, at) /\ ~Overflows(data, at) /\ ~FindRefuses(data, at)
         /\ FindNext(data, at) = ParseNext(data, at)
<1> DEFINE delta == DeltaAt(data, at.pos)
<1>1. data[at.pos] % 16 # 15 /\ delta # Malformed
  BY ParseBehind DEF ParseRefuses
<1>2. ~Unread(data, at)
  BY <1>1 DEF Unread
<1>3. ~Overflows(data, at)
  <2>1. at.pos \in Nat \ {0} /\ at.number \in Nat
    BY DEF Cursor
  <2>2. delta \in [value : Nat, next : Nat]
    BY <1>1, <2>1, Advance
  <2>3. PICK v \in Nat, m \in Nat : v = delta.value /\ m = at.number
    BY <2>1, <2>2
  <2>4. ~(m + v >= 65536)
    BY <2>3 DEF ParseRefuses, U16
  <2>5. ~(v >= 65536)
    BY <2>4
  <2> QED
    BY <2>3, <2>5 DEF Overflows, U16
<1> QED
  BY <1>2, <1>3, SameWay

\* A body that is cut is not the whole.
LEMMA CutIsLess ==
  ASSUME NEW data \in Seq(Byte), NEW pos \in Nat \ {0}, pos <= Len(data)
  PROVE  SplitAt(data, pos) # Whole(data) /\ Malformed # Whole(data)
<1>1. PICK n \in Nat : Len(data) = n
  BY LenProperties
<1>2. Malformed # Whole(data)
  <2>1. data \in Seq(Nat) /\ <<>> \in Seq(Nat)
    <3>1. Byte \subseteq Nat
      BY DEF Byte
    <3>2. \A s : s \in Seq(Byte) => s \in Seq(Nat)
      BY <3>1, SeqMonotonic
    <3>3. <<>> \in Seq(Nat)
      OBVIOUS
    <3> QED
      BY <3>2, <3>3
  <2>2. Whole(data) \in [options : Seq(Nat), payload : Seq(Nat)]
    BY <2>1 DEF Whole
  <2> QED
    BY <2>2, FailureAssumption
<1>3. Len(SubSeq(data, 1, pos - 1)) = pos - 1
  <2>1. \A i \in 1..(pos - 1) : data[i] \in Byte
    <3>1. \A i \in 1..n : data[i] \in Byte
      BY <1>1, ElementOfSeq
    <3> QED
      BY <1>1, <3>1
  <2>2. Len(SubSeq(data, 1, pos - 1)) = IF 1 <= pos - 1 THEN (pos - 1) - 1 + 1 ELSE 0
    BY <2>1, SubSeqProperties
  <2> QED
    BY <2>2
<1>4. SubSeq(data, 1, pos - 1) # data
  <2>1. pos - 1 # n
    BY <1>1
  <2> QED
    BY <1>1, <1>3, <2>1
<1> QED
  BY <1>2, <1>4 DEF SplitAt, Whole

\* The splitter finds the end of what the parser takes for options.
LEMMA EndFound ==
  ASSUME NEW data, NEW start, Begins(data, start), NEW checked \in BOOLEAN,
         Len(start) < Len(data) => data[Len(start) + 1] = MARKER,
         NEW at \in Cursor, at.pos <= Len(start) + 1, ParseScan(start)[at] = Whole(start)
  PROVE  FindScan(data, checked)[at] = IF Len(start) < Len(data) THEN Len(start) + 1 ELSE 0
<1> DEFINE Found == IF Len(start) < Len(data) THEN Len(start) + 1 ELSE 0
           Good == {c \in Cursor : c.pos <= Len(start) + 1 /\ ParseScan(start)[c] = Whole(start)
                                    => FindScan(data, checked)[c] = Found}
<1>0. data \in Seq(Byte) /\ start \in Seq(Byte)
  BY DEF Begins
<1>1. ASSUME NEW c \in Cursor, c.pos <= Len(start) + 1, ParseScan(start)[c] = Whole(start),
             \A d \in Cursor : c.pos <= Len(start) /\ c.pos < d.pos => d \in Good
      PROVE  FindScan(data, checked)[c] = Found
  <2>1. PICK n \in Nat, m \in Nat, p \in Nat \ {0} :
          Len(data) = n /\ Len(start) = m /\ m <= n /\ p = c.pos /\ p <= m + 1
    BY <1>1, LenProperties DEF Begins, Cursor
  <2>2. FindScan(data, checked)[c] =
          IF c.pos > Len(data) THEN 0
          ELSE IF data[c.pos] = MARKER THEN c.pos
          ELSE IF Unread(data, c) THEN Malformed
          ELSE IF Overflows(data, c) /\ checked THEN Panicked
          ELSE IF FindRefuses(data, c) THEN Malformed
          ELSE FindScan(data, checked)[FindNext(data, c)]
    BY <1>0, FindEquation
  <2>3. ParseScan(start)[c] =
          IF c.pos > Len(start) THEN Whole(start)
          ELSE IF start[c.pos] = MARKER THEN SplitAt(start, c.pos)
          ELSE IF ParseRefuses(start, c) THEN Malformed
          ELSE ParseScan(start)[ParseNext(start, c)]
    BY <1>0, ParseEquation
  <2>4. CASE p > m
    <3>1. p = m + 1
      BY <2>1, <2>4
    <3>2. CASE m < n
      <4>1. ~(p > n) /\ data[p] = MARKER
        BY <2>1, <3>1, <3>2
      <4> QED
        BY <2>1, <2>2, <3>1, <3>2, <4>1
    <3>3. CASE ~(m < n)
      <4>1. p > n
        BY <2>1, <3>1, <3>3
      <4> QED
        BY <2>1, <2>2, <3>3, <4>1
    <3> QED
      BY <3>2, <3>3
  <2>5. CASE ~(p > m)
    <3>1. p <= m /\ ~(c.pos > Len(start)) /\ c.pos <= Len(start) /\ c.pos \in Nat \ {0}
      BY <2>1, <2>5
    <3>2. start[c.pos] # MARKER /\ ~ParseRefuses(start, c)
      BY <1>0, <1>1, <2>3, <3>1, CutIsLess
    <3>3. /\ data[c.pos] = start[c.pos] /\ c.pos <= Len(data)
          /\ ~ParseRefuses(data, c) /\ ParseNext(data, c) = ParseNext(start, c)
      BY <3>1, <3>2, PrefixStep
    <3>4. /\ ~Unread(data, c) /\ ~Overflows(data, c) /\ ~FindRefuses(data, c)
          /\ FindNext(data, c) = ParseNext(start, c)
      BY <1>0, <3>3, GoesOn
    <3> DEFINE d == ParseNext(start, c)
    <3>5. d \in Cursor /\ c.pos < d.pos /\ d.pos <= Len(start) + 1
      BY <1>0, <3>1, <3>2, ParseBehind
    <3>6. ParseScan(start)[d] = Whole(start)
      BY <1>1, <2>3, <3>1, <3>2
    <3>7. FindScan(data, checked)[d] = Found
      BY <1>1, <3>1, <3>5, <3>6
    <3>8. ~(c.pos > Len(data))
      BY <2>1, <3>3
    <3> HIDE DEF d, Found
    <3> QED
      BY <2>2, <3>2, <3>3, <3>4, <3>7, <3>8 DEF d
  <2> QED
    BY <2>4, <2>5
<1>2. \A c \in Cursor : c \in Good
  <2>1. \A c \in Cursor :
          (\A d \in Cursor : c.pos <= Len(start) /\ c.pos < d.pos => d \in Good) => c \in Good
    BY <1>1
  <2> HIDE DEF Good
  <2> QED
    BY <1>0, <2>1, CursorInduction
<1> QED
  BY <1>2

\* Where the parts of a body are.
LEMMA Parts ==
  ASSUME NEW a \in Seq(Byte), NEW b \in Seq(Byte)
  PROVE  /\ Cat(a, b) \in Seq(Byte) /\ Len(Cat(a, b)) = Len(a) + Len(b)
         /\ \A i \in 1..Len(a) : Cat(a, b)[i] = a[i]
         /\ \A i \in 1..Len(b) : Cat(a, b)[Len(a) + i] = b[i]
<1>1. PICK m \in Nat, n \in Nat : Len(a) = m /\ Len(b) = n
  BY LenProperties
<1>2. /\ a \o b \in Seq(Byte) /\ Len(a \o b) = m + n
      /\ \A i \in 1..(m + n) : (a \o b)[i] = IF i <= m THEN a[i] ELSE b[i - m]
  BY <1>1, ConcatProperties
<1>3. ASSUME NEW i \in 1..m PROVE (a \o b)[i] = a[i]
  <2>1. i \in 1..(m + n) /\ i <= m
    OBVIOUS
  <2> QED
    BY <1>2, <2>1
<1>4. ASSUME NEW i \in 1..n PROVE (a \o b)[m + i] = b[i]
  <2>1. m + i \in 1..(m + n) /\ ~(m + i <= m) /\ (m + i) - m = i
    OBVIOUS
  <2> QED
    BY <1>2, <2>1
<1> QED
  BY <1>1, <1>2, <1>3, <1>4 DEF Cat

\* Where each byte of a joined string comes from.
LEMMA CatSize ==
  ASSUME NEW m \in Nat, NEW n \in Nat, NEW a \in Exactly(m), NEW b \in Exactly(n)
  PROVE  /\ Cat(a, b) \in Seq(Byte) /\ Len(Cat(a, b)) = m + n
         /\ \A i \in 1..m : Cat(a, b)[i] = a[i]
         /\ \A i \in 1..n : Cat(a, b)[m + i] = b[i]
<1>1. a \in Seq(Byte) /\ b \in Seq(Byte) /\ Len(a) = m /\ Len(b) = n
  BY ExactSize
<1> QED
  BY <1>1, Parts

\* The first part of a joined string is its front,
LEMMA CatAtFront ==
  ASSUME NEW a \in Seq(Byte), NEW b \in Seq(Byte)
  PROVE  Begins(Cat(a, b), a)
<1>1. PICK m \in Nat, n \in Nat : Len(a) = m /\ Len(b) = n
  BY LenProperties
<1>2. m <= m + n
  OBVIOUS
<1> QED
  BY <1>1, <1>2, Parts DEF Begins

\* and comes back when the string is cut behind it.
LEMMA FrontPart ==
  ASSUME NEW a \in Seq(Byte), NEW b \in Seq(Byte)
  PROVE  SubSeq(Cat(a, b), 1, Len(a)) = a
<1>1. PICK m \in Nat, n \in Nat : Len(a) = m /\ Len(b) = n
  BY LenProperties
<1> DEFINE s == Cat(a, b)
<1>2. /\ s \in Seq(Byte) /\ Len(s) = m + n /\ \A i \in 1..m : s[i] = a[i]
  BY <1>1, Parts
<1> HIDE DEF s
<1>3. \A i \in 1..m : s[i] \in Byte
  <2>1. \A i \in 1..m : a[i] \in Byte
    BY <1>1, ElementOfSeq
  <2> QED
    BY <1>2, <2>1
<1>4. /\ SubSeq(s, 1, m) \in Seq(Byte) /\ Len(SubSeq(s, 1, m)) = IF 1 <= m THEN m - 1 + 1 ELSE 0
      /\ \A i \in 1..(m - 1 + 1) : SubSeq(s, 1, m)[i] = s[1 + i - 1]
  BY <1>3, SubSeqProperties
<1>5. Len(SubSeq(s, 1, m)) = m
  BY <1>4
<1>6. ASSUME NEW i \in 1..m PROVE SubSeq(s, 1, m)[i] = a[i]
  <2>1. i \in 1..(m - 1 + 1) /\ 1 + i - 1 = i
    OBVIOUS
  <2> QED
    BY <1>2, <1>4, <2>1
<1>7. SubSeq(s, 1, m) = a
  BY <1>1, <1>4, <1>5, <1>6, SeqEqual
<1> QED
  BY <1>1, <1>7 DEF s

\* A body is cut where it was joined.
LEMMA BodyCut ==
  ASSUME NEW options \in Seq(Byte), NEW payload \in Seq(Byte), payload # <<>>
  PROVE  LET data == Body(options, payload)
         IN /\ Begins(data, options) /\ Len(options) < Len(data)
            /\ data[Len(options) + 1] = MARKER
            /\ SplitAt(data, Len(options) + 1) = [options |-> options, payload |-> payload]
<1> DEFINE data == Body(options, payload)
           front == Cat(options, One(MARKER))
           back == Cat(One(MARKER), payload)
<1>1. PICK m \in Nat, n \in Nat : Len(options) = m /\ Len(payload) = n
  BY LenProperties
<1>2. n >= 1
  BY <1>1, EmptySeq
<1>3. MARKER \in Byte
  BY DEF MARKER, Byte
<1>4. One(MARKER) \in Seq(Byte) /\ Len(One(MARKER)) = 1 /\ One(MARKER)[1] = MARKER
  <2>1. <<MARKER>> \in Seq(Byte) /\ Len(<<MARKER>>) = 1 /\ <<MARKER>>[1] = MARKER
    BY <1>3
  <2> QED
    BY <2>1 DEF One
<1>5. data = Cat(front, payload) /\ data = Cat(options, back)
  <2>1. data = Cat(front, payload)
    BY DEF Body, Cat, One
  <2> QED
    BY <1>4, <2>1, CatRegroup
<1> DEFINE h == One(MARKER)
<1>6. options \in Exactly(m) /\ payload \in Exactly(n) /\ h \in Exactly(1)
  BY <1>1, <1>4 DEF Exactly
<1>7. /\ front \in Seq(Byte) /\ Len(front) = m + 1 /\ back \in Seq(Byte)
      /\ front[m + 1] = MARKER
  <2> HIDE DEF h
  <2>1. 1 \in 1..1 /\ 1 \in Nat
    OBVIOUS
  <2>2. /\ Cat(options, h) \in Seq(Byte) /\ Len(Cat(options, h)) = m + 1
        /\ \A i \in 1..1 : Cat(options, h)[m + i] = h[i]
    BY <1>6, <2>1, CatSize
  <2>3. Cat(options, h)[m + 1] = h[1]
    BY <2>1, <2>2
  <2>4. Cat(h, payload) \in Seq(Byte)
    BY <1>6, <2>1, CatSize
  <2> QED
    BY <1>4, <2>2, <2>3, <2>4 DEF h
<1> HIDE DEF data, front, back, h
<1>8. /\ data \in Seq(Byte) /\ Len(data) = m + 1 + n
      /\ \A i \in 1..(m + 1) : data[i] = front[i]
  <2>1. PICK k \in Nat : k = m + 1
    OBVIOUS
  <2>2. front \in Exactly(k)
    BY <1>7, <2>1 DEF Exactly
  <2>3. /\ Cat(front, payload) \in Seq(Byte) /\ Len(Cat(front, payload)) = k + n
        /\ \A i \in 1..k : Cat(front, payload)[i] = front[i]
    BY <1>6, <2>2, CatSize
  <2> QED
    BY <1>5, <2>1, <2>3
<1>9. Begins(data, options)
  BY <1>5, <1>7, CatAtFront
<1>10. data[m + 1] = MARKER
  <2>1. m + 1 \in 1..(m + 1)
    OBVIOUS
  <2> QED
    BY <1>7, <1>8, <2>1
<1>11. SubSeq(data, 1, m) = options
  BY <1>1, <1>5, <1>7, FrontPart
<1>12. SubSeq(data, m + 2, m + 1 + n) = payload
  <2>1. PICK k \in Nat : k = m + 1
    OBVIOUS
  <2>2. front \in Exactly(k) /\ payload \in Exactly(n)
    BY <1>1, <1>7, <2>1 DEF Exactly
  <2>3. SubSeq(data, k + 1, k + n) = payload
    BY <1>5, <2>2, SliceEnd
  <2>4. k + 1 = m + 2 /\ k + n = m + 1 + n
    BY <2>1
  <2> QED
    BY <2>3, <2>4
<1>13. SplitAt(data, m + 1) = [options |-> options, payload |-> payload]
  <2>1. PICK k \in Nat : k = m + 1 /\ k # m + 1 + n /\ k - 1 = m /\ k + 1 = m + 2
    BY <1>2
  <2>2. k # Len(data)
    BY <1>8, <2>1
  <2>3. SubSeq(data, 1, k - 1) = options
    BY <1>11, <2>1
  <2>4. SubSeq(data, k + 1, Len(data)) = payload
    BY <1>8, <1>12, <2>1
  <2>5. SplitAt(data, k) = [options |-> options, payload |-> payload]
    BY <2>2, <2>3, <2>4, Zenon DEF SplitAt
  <2> QED
    BY <2>1, <2>5
<1>14. m < m + 1 + n
  OBVIOUS
<1> QED
  BY <1>1, <1>8, <1>9, <1>10, <1>13, <1>14 DEF data

\* What preflight_protect_response lets through comes out as it went in.
\* (protect_response, unprotect_request, find_payload_marker)
THEOREM BodiesAlwaysSplit == Spec => []BodySplit
<1>1. ASSUME Inputs, codec = "body", OnlyOptions(first), NEW checked \in BOOLEAN
      PROVE  take_apart(Body(first, second), checked) = [options |-> first, payload |-> second]
  <2> DEFINE data == Body(first, second)
  <2>1. first \in Seq(Byte) /\ second \in Seq(Byte)
    BY <1>1 DEF Inputs, ByteStrings
  <2>2. ParseScan(first)[Start] = Whole(first) /\ Start \in Cursor
    BY <1>1, <2>1, ParseEquation DEF OnlyOptions, Whole
  <2>3. Start.pos <= Len(first) + 1
    <3>1. PICK m \in Nat : Len(first) = m
      BY <2>1, LenProperties
    <3>2. 1 <= m + 1
      OBVIOUS
    <3> QED
      BY <3>1, <3>2 DEF Start
  <2>4. CASE second = <<>>
    <3>1. data = first
      BY <2>4 DEF Body
    <3>2. Begins(first, first) /\ ~(Len(first) < Len(first))
      <4>1. PICK m \in Nat : Len(first) = m
        BY <2>1, LenProperties
      <4> QED
        BY <2>1, <4>1 DEF Begins
    <3>3. FindScan(first, checked)[Start] = 0
      BY <2>2, <2>3, <3>2, EndFound
    <3>4. take_apart(first, checked) = Apart(first, 0)
      BY <2>1, <3>3, TakeApart, FindEquation
    <3>5. 0 \notin {Malformed, Panicked}
      BY FailureAssumption
    <3>6. take_apart(first, checked) = Whole(first)
      BY <3>4, <3>5 DEF Apart
    <3> QED
      BY <2>4, <3>1, <3>6 DEF Whole
  <2>5. CASE second # <<>>
    <3>1. /\ Begins(data, first) /\ Len(first) < Len(data)
          /\ data[Len(first) + 1] = MARKER
          /\ SplitAt(data, Len(first) + 1) = [options |-> first, payload |-> second]
      BY <2>1, <2>5, BodyCut
    <3> HIDE DEF data
    <3>2. FindScan(data, checked)[Start] = Len(first) + 1
      BY <2>2, <2>3, <3>1, EndFound
    <3>3. take_apart(data, checked) = Apart(data, Len(first) + 1)
      BY <3>1, <3>2, TakeApart, FindEquation DEF Begins
    <3>4. PICK p \in Nat : p = Len(first) + 1 /\ p # 0
      <4>1. PICK m \in Nat : Len(first) = m
        BY <2>1, LenProperties
      <4> QED
        BY <4>1
    <3>5. p \notin {Malformed, Panicked}
      BY FailureAssumption
    <3>6. Apart(data, p) = SplitAt(data, p)
      BY <3>4, <3>5 DEF Apart
    <3> QED
      BY <3>1, <3>3, <3>4, <3>6 DEF data
  <2> QED
    BY <2>4, <2>5
<1>2. Inputs => BodySplit
  BY <1>1 DEF BodySplit
<1> QED
  BY <1>2, InputsHold, PTL

\* What two extension bytes can say.
Extended == 0..(269 + U16 - 1)

\* They are numbers.
LEMMA ExtendedNumbers == \A v \in Extended : v \in Nat /\ v < 65805
  BY DEF Extended, U16

\* A value below 13 is the nibble itself,
LEMMA ExtensionNone ==
  ASSUME NEW v \in Nat, v < 13
  PROVE  Nibble(v) = v /\ Extension(v) = <<>>
BY DEF Extension, Nibble

\* one of 13 to 268 takes a byte,
LEMMA ExtensionOne ==
  ASSUME NEW v \in 13..268
  PROVE  Nibble(v) = 13 /\ Extension(v) = <<v - 13>>
BY DEF Extension, Nibble

Long(v) == v \in Nat /\ v >= 269

\* a longer one takes two.
LEMMA ExtensionTwo ==
  ASSUME NEW v, Long(v)
  PROVE  Nibble(v) = 14 /\ Extension(v) = <<(v - 269) \div 256, (v - 269) % 256>>
<1>1. ~(v < 13) /\ v \notin 13..268 /\ ~(v < 269)
  BY DEF Long
<1> QED
  BY <1>1, Zenon DEF Extension, Nibble

\* In every case the extension is at most two bytes, and the nibble is not 15.
LEMMA ExtensionBytes ==
  ASSUME NEW v \in Extended
  PROVE  /\ Extension(v) \in Seq(Byte) /\ \E e \in 0..2 : Len(Extension(v)) = e
         /\ Nibble(v) \in 0..14
<1>1. v \in Nat /\ v < 65805
  BY ExtendedNumbers
<1>2. CASE v < 13
  BY <1>1, <1>2 DEF Extension, Nibble
<1>3. CASE v \in 13..268
  <2>1. v - 13 \in Byte
    BY <1>3 DEF Byte
  <2>2. Extension(v) = <<v - 13>> /\ Nibble(v) = 13
    BY <1>3 DEF Extension, Nibble
  <2> QED
    BY <2>1, <2>2
<1>4. CASE v >= 269
  <2>1. (v - 269) \div 256 \in 0..255 /\ (v - 269) % 256 \in 0..255
    BY <1>1, <1>4
  <2>2. ~(v < 13) /\ v \notin 13..268 /\ ~(v < 269)
    BY <1>1, <1>4
  <2>3. Extension(v) = <<(v - 269) \div 256, (v - 269) % 256>> /\ Nibble(v) = 14
    BY <2>2 DEF Extension, Nibble
  <2> QED
    BY <2>1, <2>3 DEF Byte
<1> QED
  BY <1>1, <1>2, <1>3, <1>4

\* A delta or a length is read as it was written.
Extends(data, pos, v, e) ==
  /\ Len(Extension(v)) = e /\ pos + e <= Len(data) + 1
  /\ \A i \in 1..e : data[pos + i - 1] = Extension(v)[i]

\* decode_nibble reads back the value that was written.
LEMMA ExtensionRead ==
  ASSUME NEW v \in Extended, NEW data \in Seq(Byte), NEW pos \in Nat \ {0},
         NEW e \in 0..2, Extends(data, pos, v, e)
  PROVE  decode_nibble(data, pos, Nibble(v)) = [value |-> v, next |-> pos + e]
<1>0. PICK n \in Nat : Len(data) = n
  BY LenProperties
<1>9. pos + e <= n + 1 /\ Len(Extension(v)) = e
  BY <1>0 DEF Extends
<1>8. \A i \in 1..e : data[pos + i - 1] = Extension(v)[i]
  BY DEF Extends
<1>1. v \in Nat /\ v < 65805
  BY ExtendedNumbers
<1>2. CASE v < 13
  <2>1. Nibble(v) = v /\ Extension(v) = <<>> /\ v <= 12
    BY <1>1, <1>2, ExtensionNone
  <2>2. e = 0
    BY <1>9, <2>1
  <2>3. pos + e = pos
    BY <2>2
  <2> QED
    BY <2>1, <2>3 DEF decode_nibble
<1>3. CASE v \in 13..268
  <2>1. Extension(v) = <<v - 13>> /\ Nibble(v) = 13
    BY <1>3, ExtensionOne, Zenon
  <2>2. e = 1
    BY <1>9, <2>1
  <2>3. data[pos] = v - 13
    <3>1. 1 \in 1..e /\ pos + 1 - 1 = pos
      BY <2>2
    <3>2. <<v - 13>>[1] = v - 13
      OBVIOUS
    <3> QED
      BY <1>8, <2>1, <3>1, <3>2
  <2>4. pos <= n /\ 13 + (v - 13) = v
    BY <1>1, <1>9, <2>2
  <2> QED
    BY <1>0, <2>1, <2>2, <2>3, <2>4 DEF decode_nibble
<1>4. CASE v >= 269
  <2>1. PICK a \in Nat, b \in Nat : /\ a = (v - 269) \div 256 /\ b = (v - 269) % 256
                                    /\ 269 + 256 * a + b = v
    BY <1>1, <1>4
  <2>2. ~(v < 13) /\ v \notin 13..268 /\ ~(v < 269)
    BY <1>1, <1>4
  <2>3. Extension(v) = <<a, b>> /\ Nibble(v) = 14
    <3>1. Extension(v) = <<(v - 269) \div 256, (v - 269) % 256>> /\ Nibble(v) = 14
      <4>1. Long(v)
        BY <1>1, <1>4 DEF Long
      <4> QED
        BY <4>1, ExtensionTwo, Zenon
    <3>2. a = (v - 269) \div 256 /\ b = (v - 269) % 256
      BY <2>1
    <3> QED
      BY <3>1, <3>2, Zenon
  <2>4. e = 2
    BY <1>9, <2>3
  <2>5. data[pos] = a /\ data[pos + 1] = b
    <3>1. 1 \in 1..e /\ 2 \in 1..e /\ pos + 1 - 1 = pos /\ pos + 2 - 1 = pos + 1
      BY <2>4
    <3>2. <<a, b>>[1] = a /\ <<a, b>>[2] = b
      OBVIOUS
    <3> QED
      BY <1>8, <2>3, <3>1, <3>2
  <2>6. pos + 1 <= n
    BY <1>9, <2>4
  <2> QED
    BY <1>0, <2>1, <2>3, <2>4, <2>5, <2>6 DEF decode_nibble
<1> QED
  BY <1>1, <1>2, <1>3, <1>4

\* The parts of an option are where its reader looks for them.
LEMMA OptionParts ==
  ASSUME NEW delta \in Extended, NEW length \in Extended
  PROVE  \E e \in 0..2, f \in 0..2, k \in Nat :
           LET o == CoapOption(delta, length)
           IN /\ Len(Extension(delta)) = e /\ Len(Extension(length)) = f
              /\ o \in Seq(Byte) /\ Len(o) = k /\ k = 1 + e + f + length
              /\ o[1] = 16 * Nibble(delta) + Nibble(length)
              /\ \A i \in 1..e : o[1 + i] = Extension(delta)[i]
              /\ \A i \in 1..f : o[1 + e + i] = Extension(length)[i]
<1> DEFINE b == 16 * Nibble(delta) + Nibble(length)
           x == Extension(delta)
           y == Extension(length)
           z == [i \in 1..length |-> MARKER]
           o == CoapOption(delta, length)
<1>1. PICK e \in 0..2 : Len(x) = e
  BY ExtensionBytes
<1>2. PICK f \in 0..2 : Len(y) = f
  BY ExtensionBytes
<1>3. b \in Byte
  <2>1. PICK u \in 0..14, w \in 0..14 : u = Nibble(delta) /\ w = Nibble(length)
    BY ExtensionBytes
  <2>2. 16 * u + w \in 0..255
    OBVIOUS
  <2> QED
    BY <2>1, <2>2 DEF Byte
<1>4. length \in Nat
  BY ExtendedNumbers
<1>5. z \in Seq(Byte) /\ Len(z) = length
  <2>1. MARKER \in Byte
    BY DEF MARKER, Byte
  <2> QED
    BY <1>4, <2>1
<1>6. x \in Seq(Byte) /\ y \in Seq(Byte)
  BY ExtensionBytes
<1>7. o = Cat(Cat(Cat(One(b), x), y), z)
  BY DEF CoapOption, Cat, One
<1> HIDE DEF b, x, y, z, o
<1>8. One(b) \in Exactly(1) /\ One(b)[1] = b
  <2>1. <<b>> \in Seq(Byte) /\ Len(<<b>>) = 1 /\ <<b>>[1] = b
    BY <1>3
  <2> QED
    BY <2>1 DEF One, Exactly
<1>9. x \in Exactly(e) /\ y \in Exactly(f) /\ z \in Exactly(length)
  BY <1>1, <1>2, <1>5, <1>6 DEF Exactly
<1>10. PICK g \in Nat, h \in Nat, k \in Nat : g = 1 + e /\ h = 1 + e + f /\ k = 1 + e + f + length
  BY <1>4
<1> DEFINE p == Cat(One(b), x)
           q == Cat(p, y)
<1>11. /\ p \in Exactly(g) /\ \A i \in 1..1 : p[i] = One(b)[i]
       /\ \A i \in 1..e : p[1 + i] = x[i]
  <2>1. 1 \in Nat /\ e \in Nat
    OBVIOUS
  <2>2. /\ p \in Seq(Byte) /\ Len(p) = 1 + e
        /\ \A i \in 1..1 : p[i] = One(b)[i]
        /\ \A i \in 1..e : p[1 + i] = x[i]
    <3>1. One(b) \in Exactly(1) /\ x \in Exactly(e)
      BY <1>8, <1>9
    <3> QED
      BY <2>1, <3>1, CatSize, Zenon
  <2> QED
    BY <1>10, <2>2 DEF Exactly
<1> HIDE DEF p
<1>12. /\ q \in Exactly(h) /\ \A i \in 1..g : q[i] = p[i]
       /\ \A i \in 1..f : q[g + i] = y[i]
  <2>1. f \in Nat
    OBVIOUS
  <2>2. /\ q \in Seq(Byte) /\ Len(q) = g + f
        /\ \A i \in 1..g : q[i] = p[i]
        /\ \A i \in 1..f : q[g + i] = y[i]
    BY <1>9, <1>11, <2>1, CatSize
  <2>3. g + f = h
    BY <1>10
  <2> QED
    BY <2>2, <2>3 DEF Exactly
<1> HIDE DEF q
<1>13. o \in Seq(Byte) /\ Len(o) = k /\ \A i \in 1..h : o[i] = q[i]
  <2>1. o = Cat(q, z)
    BY <1>7 DEF q, p
  <2>2. /\ Cat(q, z) \in Seq(Byte) /\ Len(Cat(q, z)) = h + length
        /\ \A i \in 1..h : Cat(q, z)[i] = q[i]
    BY <1>4, <1>9, <1>12, CatSize
  <2> QED
    BY <1>10, <2>1, <2>2
<1>14. o[1] = b
  <2>1. 1 \in 1..1 /\ 1 \in 1..g /\ 1 \in 1..h
    BY <1>10
  <2> QED
    BY <1>8, <1>11, <1>12, <1>13, <2>1
<1>15. ASSUME NEW i \in 1..e PROVE o[1 + i] = x[i]
  <2>1. 1 + i \in 1..g /\ 1 + i \in 1..h
    BY <1>10
  <2> QED
    BY <1>11, <1>12, <1>13, <2>1
<1>16. ASSUME NEW i \in 1..f PROVE o[1 + e + i] = y[i]
  <2>1. g + i \in 1..h /\ 1 + e + i = g + i
    BY <1>10
  <2> QED
    BY <1>12, <1>13, <2>1
<1> QED
  BY <1>1, <1>2, <1>10, <1>13, <1>14, <1>15, <1>16 DEF b, x, y, o

\* Past one option of the application, its delta counted; unless that exceeds
\* the numbers there are.
Within(data, m, part, k) ==
  /\ Len(part) = k /\ m + k <= Len(data)
  /\ \A i \in 1..k : data[m + i] = part[i]

\* A turn of parse_inner_body over an option as CoapOption writes it: the parser
\* is behind the option, at its number, or refuses a number beyond u16.
LEMMA OptionStep ==
  ASSUME NEW data \in Seq(Byte), NEW m \in Nat, NEW number \in Nat,
         NEW delta \in Extended, NEW length \in Extended,
         NEW k \in Nat, Within(data, m, CoapOption(delta, length), k)
  PROVE  ParseScan(data)[[pos |-> m + 1, number |-> number]] =
           IF number + delta < U16
           THEN ParseScan(data)[[pos |-> m + k + 1, number |-> number + delta]]
           ELSE Malformed
<1> DEFINE o == CoapOption(delta, length)
<1>1. PICK e \in 0..2, f \in 0..2, j \in Nat :
        /\ Len(Extension(delta)) = e /\ Len(Extension(length)) = f
        /\ o \in Seq(Byte) /\ Len(o) = j /\ j = 1 + e + f + length
        /\ o[1] = 16 * Nibble(delta) + Nibble(length)
        /\ \A i \in 1..e : o[1 + i] = Extension(delta)[i]
        /\ \A i \in 1..f : o[1 + e + i] = Extension(length)[i]
  BY OptionParts
<1> HIDE DEF o
<1>2a. PICK n \in Nat : Len(data) = n
  BY LenProperties
<1>2b. Len(o) = k /\ m + k <= n /\ \A i \in 1..k : data[m + i] = o[i]
  <2>1. Len(o) = k /\ m + k <= Len(data) /\ \A i \in 1..k : data[m + i] = o[i]
    BY Zenon DEF Within, o
  <2> QED
    BY <1>2a, <2>1
<1>2c. delta \in Nat /\ length \in Nat
  BY ExtendedNumbers
<1>2d. j = k
  BY <1>1, <1>2b
<1>2e. PICK l \in Nat, b \in Nat :
         l = length /\ k = 1 + e + f + l /\ m + k <= n /\ b = k - 1 - e - f
  BY <1>1, <1>2b, <1>2c, <1>2d
<1>2. \A i \in 1..k : data[m + i] = o[i]
  BY <1>2b
<1> DEFINE p == m + 1
           at == [pos |-> p, number |-> number]
<1>3. p \in Nat \ {0} /\ p <= n
  BY <1>2e
<1>4. PICK u \in 0..14, w \in 0..14 : u = Nibble(delta) /\ w = Nibble(length)
  BY ExtensionBytes
<1>5. data[p] \div 16 = u /\ data[p] % 16 = w /\ data[p] # MARKER
  <2>1. 1 \in 1..k
    BY <1>2e
  <2>2. data[p] = 16 * u + w
    BY <1>1, <1>2, <1>4, <2>1
  <2>3. (16 * u + w) \div 16 = u /\ (16 * u + w) % 16 = w /\ 16 * u + w < 255
    OBVIOUS
  <2> QED
    BY <2>2, <2>3 DEF MARKER
<1>6. DeltaAt(data, p) = [value |-> delta, next |-> p + 1 + e]
  <2>1. PICK q \in Nat \ {0} : q = m + 2 /\ q = p + 1 /\ q + e <= n + 1
    BY <1>2e
  <2>2. ASSUME NEW i \in 1..e PROVE data[q + i - 1] = Extension(delta)[i]
    <3>1. PICK c \in 1..k : c = 1 + i /\ q + i - 1 = m + c
      BY <1>2e, <2>1
    <3>2. data[m + c] = o[c]
      BY <1>2
    <3>3. o[1 + i] = Extension(delta)[i]
      BY <1>1
    <3> QED
      BY <3>1, <3>2, <3>3
  <2>3. Extends(data, q, delta, e)
    BY <1>1, <1>2a, <2>1, <2>2 DEF Extends
  <2>4. decode_nibble(data, q, Nibble(delta)) = [value |-> delta, next |-> q + e]
    BY <2>3, ExtensionRead
  <2> QED
    BY <1>4, <1>5, <2>1, <2>4 DEF DeltaAt
<1>7. decode_nibble(data, p + 1 + e, data[p] % 16) = [value |-> length, next |-> p + 1 + e + f]
  <2>1. PICK q \in Nat \ {0} : q = m + 2 + e /\ q = p + 1 + e /\ q + f <= n + 1
    BY <1>2e
  <2>2. ASSUME NEW i \in 1..f PROVE data[q + i - 1] = Extension(length)[i]
    <3>1. PICK c \in 1..k : c = 1 + e + i /\ q + i - 1 = m + c
      BY <1>2e, <2>1
    <3>2. data[m + c] = o[c]
      BY <1>2
    <3>3. o[1 + e + i] = Extension(length)[i]
      BY <1>1
    <3> QED
      BY <3>1, <3>2, <3>3
  <2>3. Extends(data, q, length, f)
    BY <1>1, <1>2a, <2>1, <2>2 DEF Extends
  <2>4. decode_nibble(data, q, Nibble(length)) = [value |-> length, next |-> q + f]
    BY <2>3, ExtensionRead
  <2> QED
    BY <1>4, <1>5, <2>1, <2>4
<1>8. OptionEnd(data, p, p + 1 + e) = m + k + 1
  <2>1. PICK x \in Nat, y \in Nat :
          x = p + 1 + e /\ y = p + 1 + e + f /\ y + l = m + k + 1 /\ ~(y + l > n + 1)
    BY <1>2e
  <2>2. decode_nibble(data, x, data[p] % 16) = [value |-> length, next |-> y]
    BY <1>7, <2>1
  <2> DEFINE r == [value |-> length, next |-> y]
  <2>3. r # Malformed /\ r.next = y /\ r.value = l
    <3>1. r \in [value : Nat, next : Nat]
      BY <1>2c
    <3> QED
      BY <1>2e, <3>1, FailureAssumption
  <2> HIDE DEF r
  <2>4. decode_nibble(data, x, data[p] % 16) = r
    BY <2>2 DEF r
  <2>5. ~(r = Malformed \/ r.next + r.value > Len(data) + 1)
    BY <1>2a, <2>1, <2>3
  <2>6. OptionEnd(data, p, x) = r.next + r.value
    BY <2>4, <2>5, Zenon DEF OptionEnd
  <2> QED
    BY <2>1, <2>3, <2>6
<1>9. /\ DeltaAt(data, p) # Malformed /\ DeltaAt(data, p).value = delta
      /\ OptionEnd(data, p, DeltaAt(data, p).next) = m + k + 1 /\ m + k + 1 # Malformed
  <2>1. [value |-> delta, next |-> p + 1 + e] \in [value : Nat, next : Nat]
    BY <1>2c, <1>2e
  <2>2. m + k + 1 \in Nat
    OBVIOUS
  <2> QED
    BY <1>6, <1>8, <2>1, <2>2, FailureAssumption
<1>10. at \in Cursor /\ at.pos = p /\ at.number = number
  BY <1>3 DEF Cursor
<1>11. ~(p > n)
  BY <1>3
<1> HIDE DEF p
<1>12. ParseRefuses(data, at) <=> ~(number + delta < U16)
  <2>1. PICK s \in Nat : s = number + delta
    BY <1>2c
  <2>2. s >= U16 <=> ~(s < U16)
    BY DEF U16
  <2> QED
    BY <1>9, <1>10, <2>1, <2>2 DEF ParseRefuses
<1>13. ParseNext(data, at) = [pos |-> m + k + 1, number |-> number + delta]
  BY <1>9, <1>10 DEF ParseNext, Behind
<1> HIDE DEF at
<1>14. ParseScan(data)[at] = IF number + delta < U16 THEN ParseScan(data)[ParseNext(data, at)]
                             ELSE Malformed
  <2>1. ParseScan(data)[at] = IF ParseRefuses(data, at) THEN Malformed
                              ELSE ParseScan(data)[ParseNext(data, at)]
    <3>1. ~(at.pos > Len(data)) /\ data[at.pos] # MARKER
      BY <1>2a, <1>5, <1>10, <1>11
    <3> QED
      BY <1>10, <3>1, ParseEquation
  <2> QED
    BY <1>12, <2>1
<1> QED
  BY <1>13, <1>14 DEF at, p

-----------------------------------------------------------------------------
\* What the parser makes of the options put together so far, whatever is put
\* behind them: it arrives at their end with the number of the last one, or has
\* stopped at one whose number is too large.
OptionsRead ==
  codec = "options" =>
    /\ first \in Seq(Byte) /\ second \in Seq(Nat)
    /\ \A tail \in Seq(Byte) :
         ParseScan(Cat(first, tail))[Start] =
           IF OptionNumber < U16
           THEN ParseScan(Cat(first, tail))[[pos |-> Len(first) + 1, number |-> OptionNumber]]
           ELSE Malformed

\* The number of the last option of a body is a number.
LEMMA NumberTyped ==
  ASSUME second \in Seq(Nat)
  PROVE  OptionNumber \in Nat
<1>1. CASE second = <<>>
  BY <1>1 DEF OptionNumber
<1>2. CASE second # <<>>
  <2>1. PICK n \in Nat : Len(second) = n
    BY LenProperties
  <2>2. n \in 1..n
    BY <1>2, <2>1, EmptySeq
  <2>3. second[n] \in Nat
    BY <2>1, <2>2, ElementOfSeq
  <2> QED
    BY <1>2, <2>1, <2>3 DEF OptionNumber
<1> QED
  BY <1>1, <1>2

\* It holds of the empty body,
LEMMA InitOptions == Init => OptionsRead
<1> SUFFICES ASSUME Init PROVE OptionsRead
  OBVIOUS
<1>1. first = <<>> /\ second = <<>> /\ <<>> \in Seq(Byte) /\ <<>> \in Seq(Nat) /\ Len(<<>>) = 0
  BY DEF Init
<1>2. OptionNumber = 0 /\ 0 < U16
  BY <1>1 DEF OptionNumber, U16
<1>3. [pos |-> Len(first) + 1, number |-> OptionNumber] = Start
  <2>1. Len(first) + 1 = 1
    BY <1>1
  <2> QED
    BY <1>2, <2>1 DEF Start
<1> QED
  BY <1>1, <1>2, <1>3 DEF OptionsRead

\* each option that is put behind keeps it,
LEMMA NextOptions == OptionsRead /\ [Next]_vars => OptionsRead'
<1> SUFFICES ASSUME OptionsRead, [Next]_vars, codec' = "options" PROVE OptionsRead'
  BY DEF OptionsRead
<1>1. CASE UNCHANGED vars
  BY <1>1 DEF vars, OptionsRead, OptionNumber
<1>2. ASSUME NEW delta \in Deltas, NEW length \in Lengths, AddOption(delta, length)
      PROVE  OptionsRead'
  <2> DEFINE o == CoapOption(delta, length)
             number == OptionNumber
  <2>1. /\ codec = "options" /\ first' = Cat(first, o) /\ second' = Append(second, number + delta)
    BY <1>2 DEF AddOption, Cat
  <2>2. first \in Seq(Byte) /\ second \in Seq(Nat) /\ number \in Nat
    BY <2>1, NumberTyped DEF OptionsRead
  <2>3. delta \in Extended /\ length \in Extended /\ delta \in Nat
    <3>1. Deltas \subseteq Extended /\ Lengths \subseteq Extended
      BY InputAssumption DEF Extended
    <3>2. Extended \subseteq Nat
      BY ExtendedNumbers
    <3> QED
      BY <3>1, <3>2
  <2>4. PICK k \in Nat : o \in Seq(Byte) /\ Len(o) = k
    BY <2>3, OptionParts
  <2>5. PICK m \in Nat : Len(first) = m
    BY <2>2, LenProperties
  <2> HIDE DEF number
  <2>6. second' \in Seq(Nat) /\ OptionNumber' = number + delta
    <3>1. number + delta \in Nat
      BY <2>2, <2>3
    <3>2. PICK s \in Seq(Nat), d \in Nat : s = second /\ d = number + delta
      BY <2>2, <3>1
    <3>3. PICK l \in Nat : Len(s) = l
      BY LenProperties
    <3>4. /\ Append(s, d) \in Seq(Nat) /\ Append(s, d) # <<>> /\ Len(Append(s, d)) = l + 1
          /\ Append(s, d)[l + 1] = d
      BY <3>3, AppendProperties
    <3>5. second' = Append(s, d)
      BY <2>1, <3>2
    <3> QED
      BY <3>2, <3>4, <3>5 DEF OptionNumber
  <2> HIDE DEF o
  <2>7. first' \in Seq(Byte) /\ Len(first') = m + k
    BY <2>1, <2>2, <2>4, <2>5, Parts
  <2>8. ASSUME NEW tail \in Seq(Byte)
        PROVE  ParseScan(Cat(first', tail))[Start] =
                 IF number + delta < U16
                 THEN ParseScan(Cat(first', tail))[[pos |-> m + k + 1, number |-> number + delta]]
                 ELSE Malformed
    <3> DEFINE rest == Cat(o, tail)
               data == Cat(first, rest)
    <3>1. rest \in Seq(Byte) /\ Cat(first', tail) = data
      BY <2>1, <2>2, <2>4, CatBytes, CatRegroup
    <3>2. PICK t \in Nat : Len(tail) = t
      BY LenProperties
    <3>3. Len(rest) = k + t /\ \A i \in 1..k : rest[i] = o[i]
      BY <2>4, <3>2, Parts
    <3> HIDE DEF rest
    <3>4. /\ data \in Seq(Byte) /\ Len(data) = m + (k + t)
          /\ \A i \in 1..(k + t) : data[m + i] = rest[i]
      <4>1. PICK r \in Nat : r = k + t
        BY <3>2
      <4>2. first \in Exactly(m) /\ rest \in Exactly(r)
        BY <2>2, <2>5, <3>1, <3>3, <4>1 DEF Exactly
      <4>3. /\ Cat(first, rest) \in Seq(Byte) /\ Len(Cat(first, rest)) = m + r
            /\ \A i \in 1..r : Cat(first, rest)[m + i] = rest[i]
        BY <4>2, CatSize
      <4> QED
        BY <4>1, <4>3
    <3>5. ParseScan(data)[Start] =
            IF number < U16 THEN ParseScan(data)[[pos |-> m + 1, number |-> number]] ELSE Malformed
      BY <2>1, <2>5, <3>1 DEF OptionsRead, number
    <3> HIDE DEF data
    <3>6. ASSUME NEW i \in 1..k PROVE data[m + i] = o[i]
      <4>1. i \in 1..(k + t)
        BY <3>2
      <4> QED
        BY <3>3, <3>4, <4>1
    <3>7. CASE number < U16
      <4>1. Within(data, m, o, k)
        <5>1. m + k <= m + (k + t)
          BY <3>2
        <5> QED
          BY <2>4, <3>4, <3>6, <5>1 DEF Within
      <4>2. ParseScan(data)[[pos |-> m + 1, number |-> number]] =
              IF number + delta < U16
              THEN ParseScan(data)[[pos |-> m + k + 1, number |-> number + delta]]
              ELSE Malformed
        BY <2>2, <2>3, <3>4, <4>1, OptionStep DEF o
      <4> QED
        BY <3>1, <3>5, <3>7, <4>2
    <3>8. CASE ~(number < U16)
      <4>1. ~(number + delta < U16)
        BY <2>2, <2>3, <3>8 DEF U16
      <4> QED
        BY <3>1, <3>5, <3>8, <4>1
    <3> QED
      BY <3>7, <3>8
  <2>9. Len(first') + 1 = m + k + 1
    BY <2>7
  <2> QED
    BY <2>6, <2>7, <2>8, <2>9 DEF OptionsRead
<1>3. ASSUME NEW p, AddParameter(p) PROVE FALSE
  BY <1>3 DEF AddParameter
<1>4. ASSUME NEW s, AddSuite(s) PROVE FALSE
  BY <1>4 DEF AddSuite
<1>5. ASSUME NEW b, Extend(b) PROVE FALSE
  BY <1>5, InputAssumption DEF Extend
<1>6. ASSUME NEW b, Follow(b) PROVE FALSE
  BY <1>6 DEF Follow
<1>7. ASSUME NEW n, Pad(n) PROVE FALSE
  BY <1>7 DEF Pad
<1> QED
  BY <1>1, <1>2, <1>3, <1>4, <1>5, <1>6, <1>7 DEF Next

\* and it is in every state.
LEMMA OptionsReadHold == Spec => []OptionsRead
  BY InitOptions, NextOptions, PTL DEF Spec

\* Two parsers, one written for what is sent and one for what has been
\* decrypted, understand every body alike; and options are understood if and
\* only if the number of the last is one.
\* (parse_inner_body, find_payload_marker)
THEOREM BodyParsersAlwaysAgree == Spec => []BodyParsersAgree
<1>1. ASSUME Inputs, codec = "body"
      PROVE  LET parsed == parse_inner_body(first)
                 checked == take_apart(first, TRUE)
             IN /\ checked \in {parsed, Panicked}
                /\ checked = Panicked => parsed = Malformed
                /\ take_apart(first, FALSE) = parsed \/ checked = Panicked
  <2> DEFINE parsed == parse_inner_body(first)
             checked == take_apart(first, TRUE)
             c == FindScan(first, TRUE)[Start]
  <2>1. first \in Seq(Byte)
    BY <1>1 DEF Inputs, ByteStrings
  <2>2. parsed = ParseScan(first)[Start] /\ Start \in Cursor /\ parsed \in Results
    BY <2>1, ParseEquation
  <2>3. checked = Apart(first, c) /\ take_apart(first, FALSE) = Apart(first, FindScan(first, FALSE)[Start])
    BY <2>1, TakeApart, FindEquation
  <2>4. IF c = Panicked THEN parsed = Malformed
        ELSE Apart(first, c) = parsed /\ FindScan(first, FALSE)[Start] = c
    BY <2>1, <2>2, LoopsAgree DEF Agree
  <2>5. parsed # Panicked
    <3>1. Panicked \notin Results
      <4>1. Panicked # Malformed /\ Panicked \notin [options : Seq(Nat), payload : Seq(Nat)]
        BY FailureAssumption
      <4>2. \A s : s \in Seq(Byte) => s \in Seq(Nat)
        <5>1. Byte \subseteq Nat
          BY DEF Byte
        <5> QED
          BY <5>1, SeqMonotonic
      <4>3. \A r \in [options : Seq(Byte), payload : Seq(Byte)] :
              r \in [options : Seq(Nat), payload : Seq(Nat)]
        BY <4>2
      <4> QED
        BY <4>1, <4>3 DEF Results
    <3> QED
      BY <2>2, <3>1
  <2> HIDE DEF parsed, checked, c
  <2>6. c = Panicked => checked = Panicked
    <3>1. Apart(first, Panicked) = Panicked
      BY FailureAssumption DEF Apart
    <3> QED
      BY <2>3, <3>1
  <2> QED
    BY <2>3, <2>4, <2>5, <2>6 DEF parsed, checked
<1>2. ASSUME OptionsRead, codec = "options"
      PROVE  parse_inner_body(first) =
               IF OptionNumber < U16 THEN [options |-> first, payload |-> <<>>] ELSE Malformed
  <2>1. first \in Seq(Byte) /\ OptionNumber \in Nat
    BY <1>2, NumberTyped DEF OptionsRead
  <2>2. Cat(first, <<>>) = first /\ <<>> \in Seq(Byte)
    <3>1. first \o <<>> = first
      BY <2>1, ConcatEmptySeq
    <3> QED
      BY <3>1 DEF Cat
  <2> DEFINE at == [pos |-> Len(first) + 1, number |-> OptionNumber]
  <2>3. ParseScan(first)[Start] = IF OptionNumber < U16 THEN ParseScan(first)[at] ELSE Malformed
    BY <1>2, <2>2 DEF OptionsRead
  <2>4. at \in Cursor /\ at.pos > Len(first)
    <3>1. PICK m \in Nat : Len(first) = m
      BY <2>1, LenProperties
    <3>2. m + 1 \in Nat \ {0} /\ m + 1 > m
      OBVIOUS
    <3> QED
      BY <2>1, <3>1, <3>2 DEF Cursor
  <2> HIDE DEF at
  <2>5. ParseScan(first)[at] = Whole(first)
    BY <2>1, <2>4, ParseEquation
  <2>6. parse_inner_body(first) = ParseScan(first)[Start]
    BY <2>1, ParseEquation
  <2> QED
    BY <2>3, <2>5, <2>6 DEF Whole
<1>3. Inputs /\ OptionsRead => BodyParsersAgree
  BY <1>1, <1>2, Zenon DEF BodyParsersAgree
<1> QED
  BY <1>3, InputsHold, OptionsReadHold, PTL

-----------------------------------------------------------------------------
\* CBOR items: a parser that reads k bytes reads the same from any string that
\* begins with these k.

SameUpTo(data, other, k) ==
  k <= Len(data) /\ k <= Len(other) /\ \A i \in 1..k : other[i] = data[i]

\* Strings that agree for k bytes agree for fewer,
LEMMA SameLess ==
  ASSUME NEW data \in Seq(Byte), NEW other \in Seq(Byte), NEW k \in Nat, NEW j \in Nat, j <= k,
         SameUpTo(data, other, k)
  PROVE  SameUpTo(data, other, j)
<1>1. Len(data) \in Nat /\ Len(other) \in Nat
  BY LenProperties
<1>2. j <= Len(data) /\ j <= Len(other)
  BY <1>1 DEF SameUpTo
<1>3. \A i \in 1..j : i \in 1..k
  OBVIOUS
<1> QED
  BY <1>2, <1>3 DEF SameUpTo

\* What is behind the first n bytes.
LEMMA RestIs ==
  ASSUME NEW data \in Seq(Byte), NEW n \in Nat
  PROVE  /\ From(data, n) \in Seq(Byte)
         /\ Len(From(data, n)) = IF n <= Len(data) THEN Len(data) - n ELSE 0
         /\ \A i \in 1..Len(From(data, n)) : From(data, n)[i] = data[n + i]
<1> DEFINE s == From(data, n)
<1>1. PICK l \in Nat : Len(data) = l
  BY LenProperties
<1>2. \A i \in (n + 1)..l : data[i] \in Byte
  BY <1>1, ElementOfSeq
<1>3. s = SubSeq(data, n + 1, l)
  BY <1>1 DEF From
<1>4. /\ s \in Seq(Byte)
      /\ Len(s) = IF n + 1 <= l THEN l - (n + 1) + 1 ELSE 0
      /\ \A i \in 1..(l - (n + 1) + 1) : s[i] = data[(n + 1) + i - 1]
  BY <1>2, <1>3, SubSeqProperties
<1> HIDE DEF s
<1>5. Len(s) = IF n <= l THEN l - n ELSE 0
  BY <1>4
<1>6. ASSUME NEW i \in 1..Len(s) PROVE s[i] = data[n + i]
  <2>1. i \in 1..(l - (n + 1) + 1) /\ (n + 1) + i - 1 = n + i
    BY <1>5
  <2> QED
    BY <1>4, <2>1
<1> QED
  BY <1>1, <1>4, <1>5, <1>6 DEF s

\* agree behind any of them,
LEMMA SameRest ==
  ASSUME NEW data \in Seq(Byte), NEW other \in Seq(Byte), NEW n \in Nat, NEW k \in Nat,
         SameUpTo(data, other, n + k)
  PROVE  SameUpTo(From(data, n), From(other, n), k)
<1> DEFINE s == From(data, n)
           t == From(other, n)
<1>1. PICK l \in Nat, m \in Nat : Len(data) = l /\ Len(other) = m
  BY LenProperties
<1>2. n + k <= l /\ n + k <= m
  BY <1>1 DEF SameUpTo
<1>3. /\ Len(s) = l - n /\ Len(t) = m - n
      /\ \A i \in 1..Len(s) : s[i] = data[n + i]
      /\ \A i \in 1..Len(t) : t[i] = other[n + i]
  <2>1. n <= l /\ n <= m
    BY <1>2
  <2>2. Len(s) = l - n /\ \A i \in 1..Len(s) : s[i] = data[n + i]
    BY <1>1, <2>1, RestIs
  <2>3. Len(t) = m - n /\ \A i \in 1..Len(t) : t[i] = other[n + i]
    BY <1>1, <2>1, RestIs
  <2> QED
    BY <2>2, <2>3
<1> HIDE DEF s, t
<1>4. k <= Len(s) /\ k <= Len(t)
  BY <1>2, <1>3
<1>5. ASSUME NEW i \in 1..k PROVE t[i] = s[i]
  <2>1. i \in 1..Len(s) /\ i \in 1..Len(t) /\ n + i \in 1..(n + k)
    BY <1>2, <1>3
  <2> QED
    BY <1>3, <2>1 DEF SameUpTo
<1> QED
  BY <1>4, <1>5 DEF SameUpTo, s, t

\* and have the same parts.
LEMMA SamePart ==
  ASSUME NEW data \in Seq(Byte), NEW other \in Seq(Byte), NEW m \in Nat \ {0}, NEW n \in Nat,
         SameUpTo(data, other, n)
  PROVE  /\ SubSeq(data, m, n) = SubSeq(other, m, n) /\ SubSeq(data, m, n) \in Seq(Byte)
         /\ Len(SubSeq(data, m, n)) = IF m <= n THEN n - m + 1 ELSE 0
<1> DEFINE s == SubSeq(data, m, n)
           t == SubSeq(other, m, n)
<1>1. Len(data) \in Nat /\ Len(other) \in Nat
  BY LenProperties
<1>2. \A i \in m..n : data[i] \in Byte /\ other[i] \in Byte /\ other[i] = data[i]
  <2>1. \A i \in m..n : i \in 1..n /\ i \in 1..Len(data) /\ i \in 1..Len(other)
    BY <1>1 DEF SameUpTo
  <2> QED
    BY <2>1, ElementOfSeq DEF SameUpTo
<1>3. /\ s \in Seq(Byte) /\ Len(s) = IF m <= n THEN n - m + 1 ELSE 0
      /\ \A i \in 1..(n - m + 1) : s[i] = data[m + i - 1]
  BY <1>2, SubSeqProperties
<1>4. /\ t \in Seq(Byte) /\ Len(t) = IF m <= n THEN n - m + 1 ELSE 0
      /\ \A i \in 1..(n - m + 1) : t[i] = other[m + i - 1]
  BY <1>2, SubSeqProperties
<1> HIDE DEF s, t
<1>5. ASSUME NEW i \in 1..Len(s) PROVE s[i] = t[i]
  <2>1. i \in 1..(n - m + 1) /\ m + i - 1 \in m..n
    BY <1>3
  <2> QED
    BY <1>2, <1>3, <1>4, <2>1
<1>6. s = t
  BY <1>3, <1>4, <1>5, SeqEqual
<1> QED
  BY <1>3, <1>6 DEF s, t

\* A head that is there.
Heading(data, h) ==
  /\ h.major \in 0..7 /\ h.argument \in Nat
  /\ h.width \in 1..3 /\ h.width <= Len(data)

\* Every byte is below 256.
LEMMA ByteAt ==
  ASSUME NEW data \in Seq(Byte), NEW l \in Nat, Len(data) = l, NEW i \in 1..l
  PROVE  data[i] \in 0..255
<1>1. data[i] \in Byte
  BY ElementOfSeq
<1> QED
  BY <1>1 DEF Byte

\* The cases of HeadOf.
Head1(data) == [major |-> data[1] \div 32, width |-> 1, argument |-> data[1] % 32, minimal |-> TRUE]
Head2(data) == [major |-> data[1] \div 32, width |-> 2, argument |-> data[2],
                minimal |-> data[2] >= 24]
Head3(data) == [major |-> data[1] \div 32, width |-> 3, argument |-> 256 * data[2] + data[3],
                minimal |-> data[2] > 0]
TooShort(data, w) == w = 0 \/ w > Len(data)

\* HeadOf, one width at a time.
LEMMA HeadForms ==
  ASSUME NEW data, NEW w
  PROVE  /\ TooShort(data, w) => HeadOf(data, w) = NoHead
         /\ ~TooShort(data, w) /\ w = 1 => HeadOf(data, w) = Head1(data)
         /\ ~TooShort(data, w) /\ w = 2 => HeadOf(data, w) = Head2(data)
         /\ ~TooShort(data, w) /\ w = 3 => HeadOf(data, w) = Head3(data)
<1>1. HeadOf(data, w) = IF TooShort(data, w) THEN NoHead
                        ELSE CASE w = 1 -> Head1(data)
                               [] w = 2 -> Head2(data)
                               [] OTHER -> Head3(data)
  BY Zenon DEF HeadOf, TooShort, Head1, Head2, Head3
<1>2. ASSUME ~TooShort(data, w), w = 1 PROVE HeadOf(data, w) = Head1(data)
  <2>1. w # 2
    BY <1>2
  <2> QED
    BY <1>1, <1>2, <2>1, Zenon
<1>3. ASSUME ~TooShort(data, w), w = 2 PROVE HeadOf(data, w) = Head2(data)
  <2>1. w # 1
    BY <1>3
  <2> QED
    BY <1>1, <1>3, <2>1, Zenon
<1>4. ASSUME ~TooShort(data, w), w = 3 PROVE HeadOf(data, w) = Head3(data)
  <2>1. w # 1 /\ w # 2
    BY <1>4
  <2> QED
    BY <1>1, <1>4, <2>1, Zenon
<1> QED
  BY <1>1, <1>2, <1>3, <1>4

\* A first byte promises a head, which is there if its bytes are.
LEMMA HeadCases ==
  ASSUME NEW data \in Seq(Byte), NEW w, w = HeadWidth(data[1] % 32), data # <<>>
  PROVE  \/ CborHead(data) = NoHead
         \/ /\ w \in 1..3 /\ ~TooShort(data, w) /\ CborHead(data) = HeadOf(data, w)
            /\ Heading(data, CborHead(data)) /\ CborHead(data).width = w
<1>1. PICK l \in Nat : Len(data) = l /\ l >= 1
  BY LenProperties, EmptySeq
<1>2. CborHead(data) = HeadOf(data, w)
  BY DEF CborHead
<1>3. w \in 0..3
  BY DEF HeadWidth
<1>4. CASE TooShort(data, w)
  BY <1>2, <1>4, HeadForms
<1>5. CASE ~TooShort(data, w)
  <2>1. w \in 1..3 /\ w <= l
    BY <1>1, <1>3, <1>5 DEF TooShort
  <2>2. PICK a \in 0..255 : data[1] = a
    <3>1. 1 \in 1..l
      BY <1>1
    <3> QED
      BY <1>1, <3>1, ByteAt
  <2>3. PICK q \in 0..7, r \in Nat : data[1] \div 32 = q /\ data[1] % 32 = r
    <3>1. a \div 32 \in 0..7 /\ a % 32 \in Nat
      OBVIOUS
    <3> QED
      BY <2>2, <3>1
  <2>4. CASE w = 1
    <3>1. CborHead(data) = Head1(data)
      BY <1>2, <1>5, <2>4, HeadForms
    <3>2. /\ CborHead(data).major = q /\ CborHead(data).width = w
          /\ CborHead(data).argument = r
      BY <2>3, <2>4, <3>1 DEF Head1
    <3> QED
      BY <1>1, <1>2, <1>5, <2>1, <3>2 DEF Heading
  <2>5. CASE w = 2
    <3>1. PICK b \in 0..255 : data[2] = b
      <4>1. 2 \in 1..l
        BY <2>1, <2>5
      <4> QED
        BY <1>1, <4>1, ByteAt
    <3>2. CborHead(data) = Head2(data)
      BY <1>2, <1>5, <2>5, HeadForms
    <3>3. /\ CborHead(data).major = q /\ CborHead(data).width = w
          /\ CborHead(data).argument = b
      BY <2>3, <2>5, <3>1, <3>2 DEF Head2
    <3> QED
      BY <1>1, <1>2, <1>5, <2>1, <3>3 DEF Heading
  <2>6. CASE w = 3
    <3>1. PICK b \in 0..255, c \in 0..255 : data[2] = b /\ data[3] = c
      <4>1. 2 \in 1..l /\ 3 \in 1..l
        BY <2>1, <2>6
      <4> QED
        BY <1>1, <4>1, ByteAt
    <3>2. CborHead(data) = Head3(data)
      BY <1>2, <1>5, <2>6, HeadForms
    <3>3. PICK n \in Nat : 256 * data[2] + data[3] = n
      BY <3>1
    <3>4. /\ CborHead(data).major = q /\ CborHead(data).width = w
          /\ CborHead(data).argument = n
      BY <2>3, <2>6, <3>2, <3>3 DEF Head3
    <3> QED
      BY <1>1, <1>2, <1>5, <2>1, <3>4, SMTT(30) DEF Heading
  <2> QED
    BY <2>1, <2>4, <2>5, <2>6
<1> QED
  BY <1>4, <1>5

\* A head that was read is in the string, and its argument fits its width.
LEMMA HeadThere ==
  ASSUME NEW data \in Seq(Byte), CborHead(data) # NoHead
  PROVE  \E w \in 1..3 :
           /\ data # <<>> /\ w = HeadWidth(data[1] % 32) /\ ~TooShort(data, w)
           /\ CborHead(data) = HeadOf(data, w)
           /\ Heading(data, CborHead(data)) /\ CborHead(data).width = w
<1>1. data # <<>>
  BY DEF CborHead
<1> QED
  BY <1>1, HeadCases

\* A head is read from its own bytes,
LEMMA HeadLocal ==
  ASSUME NEW data \in Seq(Byte), NEW other \in Seq(Byte), CborHead(data) # NoHead,
         SameUpTo(data, other, CborHead(data).width)
  PROVE  CborHead(other) = CborHead(data)
<1>1. PICK w \in 1..3 :
        /\ data # <<>> /\ w = HeadWidth(data[1] % 32) /\ ~TooShort(data, w)
        /\ CborHead(data) = HeadOf(data, w) /\ CborHead(data).width = w
  BY HeadThere
<1>2. PICK l \in Nat, m \in Nat : Len(data) = l /\ Len(other) = m
  BY LenProperties
<1>3. w <= l /\ w <= m /\ \A i \in 1..w : other[i] = data[i]
  BY <1>1, <1>2 DEF SameUpTo
<1>4. other # <<>> /\ other[1] = data[1]
  BY <1>1, <1>2, <1>3, EmptySeq
<1>5. CborHead(other) = HeadOf(other, w)
  BY <1>1, <1>4 DEF CborHead
<1>6. ~TooShort(other, w)
  BY <1>1, <1>2, <1>3 DEF TooShort
<1>7. CASE w = 1
  <2>1. Head1(other) = Head1(data)
    BY <1>4 DEF Head1
  <2> QED
    BY <1>1, <1>5, <1>6, <1>7, <2>1, HeadForms
<1>8. CASE w = 2
  <2>1. other[2] = data[2]
    BY <1>3, <1>8
  <2>2. Head2(other) = Head2(data)
    BY <1>4, <2>1 DEF Head2
  <2> QED
    BY <1>1, <1>5, <1>6, <1>8, <2>2, HeadForms
<1>9. CASE w = 3
  <2>1. other[2] = data[2] /\ other[3] = data[3]
    BY <1>3, <1>9
  <2>2. Head3(other) = Head3(data)
    BY <1>4, <2>1 DEF Head3
  <2> QED
    BY <1>1, <1>5, <1>6, <1>9, <2>2, HeadForms
<1> QED
  BY <1>7, <1>8, <1>9

\* an integer from its head,
LEMMA IntLocal ==
  ASSUME NEW data \in Seq(Byte), NEW other \in Seq(Byte), NEW r, r = try_parse_cbor_int(data),
         r # Unreadable
  PROVE  /\ r \in Reading(Int) /\ r.consumed \in 1..3 /\ r.consumed <= Len(data)
         /\ SameUpTo(data, other, r.consumed) => try_parse_cbor_int(other) = r
<1> DEFINE h == CborHead(data)
<1>1. r = IntOf(h)
  BY DEF try_parse_cbor_int
<1>2. h # NoHead
  BY <1>1 DEF IntOf, NoHead, Map, Uint, Negative
<1>3. Heading(data, h)
  BY <1>2, HeadThere
<1>4. /\ h.width \in 1..3 /\ h.width <= Len(data)
      /\ h.argument \in Nat
  BY <1>3 DEF Heading
<1> HIDE DEF h
<1>5. r = [value |-> IF h.major = Uint THEN h.argument ELSE -1 - h.argument, consumed |-> h.width]
  BY <1>1 DEF IntOf
<1>6. r \in Reading(Int) /\ r.consumed = h.width
  BY <1>4, <1>5 DEF Reading
<1>7. ASSUME SameUpTo(data, other, r.consumed) PROVE try_parse_cbor_int(other) = r
  <2>1. CborHead(other) = h
    BY <1>2, <1>6, <1>7, HeadLocal DEF h
  <2> QED
    BY <1>1, <2>1 DEF try_parse_cbor_int
<1> QED
  BY <1>4, <1>6, <1>7

\* skip_int_value reads a head and no more.
LEMMA SkipIntLocal ==
  ASSUME NEW data \in Seq(Byte), NEW other \in Seq(Byte), NEW k, k = skip_int_value(data), k # 0
  PROVE  /\ k \in 1..3 /\ k <= Len(data)
         /\ SameUpTo(data, other, k) => skip_int_value(other) = k
<1> DEFINE h == CborHead(data)
<1>1. k = IntWidth(h)
  BY DEF skip_int_value
<1>2. h # NoHead
  BY <1>1 DEF IntWidth, NoHead, Map, Uint, Negative
<1>3. k = h.width
  BY <1>1 DEF IntWidth
<1>4. h.width \in 1..3 /\ h.width <= Len(data)
  BY <1>2, HeadThere DEF Heading
<1>5. ASSUME SameUpTo(data, other, k) PROVE skip_int_value(other) = k
  <2>1. CborHead(other) = h
    BY <1>2, <1>3, <1>5, HeadLocal DEF h
  <2> QED
    BY <1>1, <2>1 DEF skip_int_value
<1> QED
  BY <1>3, <1>4, <1>5

\* a byte string from its head and its bytes,
LEMMA BstrLocal ==
  ASSUME NEW data \in Seq(Byte), NEW other \in Seq(Byte), NEW r, r = parse_bstr(data),
         r # Unreadable
  PROVE  /\ r \in Reading(Kids) /\ r.consumed >= 1 /\ r.consumed <= Len(data)
         /\ CborHead(data) # NoHead /\ CborHead(data).width <= r.consumed
         /\ CborHead(data).width \in 1..3
         /\ SameUpTo(data, other, r.consumed) => parse_bstr(other) = r
<1> DEFINE h == CborHead(data)
<1>1. r = BstrOf(data, h)
  BY DEF parse_bstr
<1>2. h # NoHead
  BY <1>1 DEF BstrOf, NoHead, Map, Bstr
<1>3. Heading(data, h)
  BY <1>2, HeadThere
<1> HIDE DEF h
<1>4. PICK w \in 1..3, n \in Nat, k \in Nat : w = h.width /\ n = h.argument /\ k = w + n
  BY <1>3 DEF Heading
<1>5. /\ h.major = Bstr /\ Len(data) >= k
      /\ r = [value |-> SubSeq(data, w + 1, k), consumed |-> k]
  BY <1>1, <1>4 DEF BstrOf
<1>6. Len(data) \in Nat
  BY LenProperties
<1>7. SubSeq(data, w + 1, k) \in Seq(Byte)
  <2>1. SameUpTo(data, data, k)
    BY <1>5, <1>6 DEF SameUpTo
  <2> QED
    BY <2>1, SamePart
<1>8. r \in Reading(Kids) /\ r.consumed = k
  BY <1>5, <1>7 DEF Reading, Kids
<1>9. ASSUME SameUpTo(data, other, r.consumed) PROVE parse_bstr(other) = r
  <2>1. SameUpTo(data, other, k) /\ SameUpTo(data, other, w)
    BY <1>4, <1>8, <1>9, SameLess
  <2>2. CborHead(other) = h
    BY <1>2, <1>4, <2>1, HeadLocal DEF h
  <2>3. SubSeq(other, w + 1, k) = SubSeq(data, w + 1, k) /\ k <= Len(other)
    BY <2>1, SamePart DEF SameUpTo
  <2>4. Len(other) \in Nat
    BY LenProperties
  <2> QED
    BY <1>4, <1>5, <2>2, <2>3, <2>4 DEF parse_bstr, BstrOf
<1>10. k >= 1 /\ w <= k
  BY <1>4
<1>11. k <= Len(data)
  <2>1. PICK l \in Nat : Len(data) = l
    BY <1>6
  <2> QED
    BY <1>5, <2>1
<1> QED
  BY <1>2, <1>4, <1>8, <1>9, <1>10, <1>11 DEF h

\* parse_canonical_bstr reads its own bytes.
LEMMA CanonicalLocal ==
  ASSUME NEW data \in Seq(Byte), NEW other \in Seq(Byte), NEW r, r = parse_canonical_bstr(data),
         r # Unreadable
  PROVE  /\ r \in Reading(Kids) /\ r.consumed >= 1 /\ r.consumed <= Len(data)
         /\ SameUpTo(data, other, r.consumed) => parse_canonical_bstr(other) = r
<1>1. r = parse_bstr(data) /\ CborHead(data).minimal
  BY DEF parse_canonical_bstr, CanonicalBstrOf, parse_bstr
<1>2. /\ r \in Reading(Kids) /\ r.consumed >= 1 /\ r.consumed <= Len(data)
      /\ CborHead(data) # NoHead /\ CborHead(data).width <= r.consumed
      /\ CborHead(data).width \in 1..3
      /\ SameUpTo(data, other, r.consumed) => parse_bstr(other) = r
  BY <1>1, BstrLocal
<1>3. ASSUME SameUpTo(data, other, r.consumed) PROVE parse_canonical_bstr(other) = r
  <2>1. r.consumed \in Nat
    BY <1>2 DEF Reading
  <2>2. SameUpTo(data, other, CborHead(data).width)
    BY <1>2, <1>3, <2>1, SameLess
  <2>3. CborHead(other) = CborHead(data)
    BY <1>2, <2>2, HeadLocal
  <2> QED
    BY <1>1, <1>2, <1>3, <2>3 DEF parse_canonical_bstr, CanonicalBstrOf, parse_bstr
<1> QED
  BY <1>2, <1>3

\* The item at an offset that holds no others.
LEMMA ItemEndIs ==
  ASSUME NEW data \in Seq(Byte), NEW start \in Nat, NEW h, h = CborHead(From(data, start)),
         NEW e, e = ItemEnd(data, start, h), e # 0
  PROVE  /\ h # NoHead /\ e \in Nat /\ h.width \in 1..3
         /\ start + h.width <= e /\ e <= Len(data)
<1>1. PICK l \in Nat : Len(data) = l
  BY LenProperties
<1>2. h # NoHead
  <2>1. ~(NoHead.width > 0) /\ NoHead.width \notin {1, 2}
    BY DEF NoHead
  <2> QED
    BY <2>1 DEF ItemEnd
<1>3. Heading(From(data, start), h)
  BY <1>2, RestIs, HeadThere
<1>4. PICK w \in 1..3, n \in Nat : h.width = w /\ h.argument = n
  BY <1>3 DEF Heading
<1>5. start + w <= l
  <2>1. w <= Len(From(data, start))
    BY <1>3, <1>4 DEF Heading
  <2>2. Len(From(data, start)) = IF start <= l THEN l - start ELSE 0
    BY <1>1, RestIs
  <2> QED
    BY <2>1, <2>2
<1>6. CASE h.width > 0 /\ h.major \in {Uint, Negative}
  <2>1. ~(h.major \in {Bstr, Text})
    BY <1>6 DEF Uint, Negative, Bstr, Text
  <2>2. e = start + w
    BY <1>4, <1>6, <2>1 DEF ItemEnd
  <2> QED
    BY <1>1, <1>2, <1>4, <1>5, <2>2
<1>7. CASE ~(h.width > 0 /\ h.major \in {Uint, Negative})
  <2>1. start + w + n <= l /\ e = start + w + n
    BY <1>1, <1>4, <1>7 DEF ItemEnd
  <2> QED
    BY <1>1, <1>2, <1>4, <1>5, <2>1
<1> QED
  BY <1>6, <1>7

\* A step of skip_cbor_value goes forward,
LEMMA SkipForward ==
  ASSUME NEW data \in Seq(Byte), NEW at \in ToSkip, at.items # 0, NEW next,
         next = SkipItem(data, at), next.offset # 0
  PROVE  next \in ToSkip /\ at.offset < next.offset /\ next.offset <= Len(data)
<1> DEFINE h == CborHead(From(data, at.offset))
<1>1. PICK m \in Nat, start \in Nat : at = [items |-> m, offset |-> start] /\ m >= 1
  BY DEF ToSkip
<1>2. PICK l \in Nat : Len(data) = l
  BY LenProperties
<1>3. next = AfterItem(data, at, h)
  BY DEF SkipItem
<1> HIDE DEF h
<1>4. CASE h.major = Array /\ h.width \in {1, 2}
  <2>1. next = [items |-> m - 1 + h.argument, offset |-> start + h.width]
    BY <1>1, <1>3, <1>4 DEF AfterItem
  <2>2. h # NoHead
    BY <1>4 DEF NoHead, Map, Array
  <2>3. Heading(From(data, start), h)
    BY <1>1, <2>2, RestIs, HeadThere DEF h
  <2>4. PICK w \in 1..3, n \in Nat : h.width = w /\ h.argument = n /\ w <= Len(From(data, start))
    BY <2>3 DEF Heading
  <2>5. Len(From(data, start)) = IF start <= l THEN l - start ELSE 0
    BY <1>2, RestIs
  <2>6. start + w <= l
    BY <2>4, <2>5
  <2> QED
    BY <1>1, <1>2, <2>1, <2>4, <2>6 DEF ToSkip
<1>5. CASE ~(h.major = Array /\ h.width \in {1, 2})
  <2>1. next = [items |-> m - 1, offset |-> ItemEnd(data, start, h)]
    BY <1>1, <1>3, <1>5 DEF AfterItem
  <2>2. PICK e \in Nat, w \in 1..3 : e = ItemEnd(data, start, h) /\ start + w <= e /\ e <= l
    BY <1>1, <1>2, <2>1, ItemEndIs DEF h
  <2> QED
    BY <1>1, <1>2, <2>1, <2>2 DEF ToSkip
<1> QED
  BY <1>4, <1>5

\* and reads nothing behind where it arrives.
LEMMA SkipSame ==
  ASSUME NEW data \in Seq(Byte), NEW other \in Seq(Byte), NEW at \in ToSkip, at.items # 0,
         SkipItem(data, at).offset # 0, SameUpTo(data, other, SkipItem(data, at).offset)
  PROVE  SkipItem(other, at) = SkipItem(data, at)
<1> DEFINE next == SkipItem(data, at)
           h == CborHead(From(data, at.offset))
           start == at.offset
<1>1. next \in ToSkip /\ start < next.offset /\ next.offset <= Len(data)
  BY SkipForward
<1>2. start \in Nat /\ next.offset \in Nat /\ at.items \in Nat
  BY <1>1 DEF ToSkip
<1>3. next = AfterItem(data, at, h) /\ SkipItem(other, at) = AfterItem(other, at, CborHead(From(other, start)))
  BY DEF SkipItem
<1>4. h # NoHead /\ h.width \in 1..3 /\ start + h.width <= next.offset
  <2>1. CASE h.major = Array /\ h.width \in {1, 2}
    <3>1. h # NoHead
      BY <2>1 DEF NoHead, Map, Array
    <3> HIDE DEF h
    <3>2. next.offset = start + h.width
      BY <1>3, <2>1 DEF AfterItem
    <3> QED
      BY <1>2, <2>1, <3>1, <3>2
  <2>2. CASE ~(h.major = Array /\ h.width \in {1, 2})
    <3>1. next.offset = ItemEnd(data, start, h)
      BY <1>3, <2>2 DEF AfterItem
    <3> QED
      BY <1>2, <3>1, ItemEndIs
  <2> QED
    BY <2>1, <2>2
<1> HIDE DEF next
<1>5. CborHead(From(other, start)) = h
  <2>1. PICK w \in Nat : w = h.width
    BY <1>4
  <2>2. SameUpTo(data, other, start + w)
    BY <1>2, <1>4, <2>1, SameLess DEF next
  <2>3. SameUpTo(From(data, start), From(other, start), w)
    BY <1>2, <2>1, <2>2, SameRest
  <2> QED
    BY <1>2, <1>4, <2>1, <2>3, RestIs, HeadLocal
<1>6. next.offset <= Len(data) /\ next.offset <= Len(other)
  BY <1>1 DEF SameUpTo, next
<1>7. Len(data) \in Nat /\ Len(other) \in Nat
  BY LenProperties
<1> HIDE DEF h
<1>8. ASSUME h.major = Array /\ h.width \in {1, 2}
      PROVE  SkipItem(other, at) = next
  BY <1>3, <1>5, <1>8 DEF AfterItem
<1>9. ASSUME ~(h.major = Array /\ h.width \in {1, 2})
      PROVE  SkipItem(other, at) = next
  <2>1. next.offset = ItemEnd(data, start, h) /\ next.offset # 0
    BY <1>3, <1>9 DEF AfterItem, next
  <2>2. ItemEnd(other, start, h) = ItemEnd(data, start, h)
    <3>1. CASE h.width > 0 /\ h.major \in {Uint, Negative}
      <4>1. ~(h.major \in {Bstr, Text})
        BY <3>1 DEF Uint, Negative, Bstr, Text
      <4> QED
        BY <3>1, <4>1 DEF ItemEnd
    <3>2. CASE ~(h.width > 0 /\ h.major \in {Uint, Negative})
      <4>1. /\ h.width \in {1, 2} /\ h.major \in {Bstr, Text}
            /\ next.offset = start + h.width + h.argument
        BY <2>1, <3>2 DEF ItemEnd
      <4>2. start + h.width + h.argument <= Len(data) /\ start + h.width + h.argument <= Len(other)
        BY <1>6, <4>1
      <4> QED
        BY <3>2, <4>1, <4>2 DEF ItemEnd
    <3> QED
      BY <3>1, <3>2
  <2> QED
    BY <1>3, <1>5, <1>9, <2>2 DEF AfterItem
<1> QED
  BY <1>8, <1>9 DEF next

\* The calls of skip_cbor_value: each with what is left to skip.
SkipScan(data) ==
  CHOOSE past : past = [at \in ToSkip |->
    IF at.items = 0 THEN at.offset
    ELSE IF SkipItem(data, at).offset = 0 THEN 0
    ELSE past[SkipItem(data, at)]]
First == [items |-> 1, offset |-> 0]

\* skip_cbor_value is the function it is written as: the recursion ends, as every
\* item takes a byte or ends the skipping.
LEMMA SkipEquation ==
  ASSUME NEW data \in Seq(Byte)
  PROVE  /\ skip_cbor_value(data) = SkipScan(data)[First] /\ First \in ToSkip
         /\ \A at \in ToSkip :
              SkipScan(data)[at] = IF at.items = 0 THEN at.offset
                                   ELSE IF SkipItem(data, at).offset = 0 THEN 0
                                   ELSE SkipScan(data)[SkipItem(data, at)]
<1> DEFINE Stop == {at \in ToSkip : at.items = 0 \/ SkipItem(data, at).offset = 0}
           out == [at \in ToSkip |-> IF at.items = 0 THEN at.offset ELSE 0]
           next == [at \in ToSkip |-> IF at \in Stop THEN at ELSE SkipItem(data, at)]
           comb == [at \in ToSkip |-> [x \in Nat |-> x]]
           rank == [at \in ToSkip |-> IF at.offset > Len(data) THEN 0 ELSE Len(data) - at.offset]
<1>1. PICK n \in Nat : Len(data) = n
  BY LenProperties
<1>2. ASSUME NEW at \in ToSkip PROVE at.items \in Nat /\ at.offset \in Nat
  BY DEF ToSkip
<1>3. Terminates(ToSkip, Nat, Stop, out, next, comb, rank)
  <2>1. out \in [ToSkip -> Nat] /\ rank \in [ToSkip -> Nat]
    BY <1>1, <1>2
  <2>2. ASSUME NEW at \in ToSkip, at \notin Stop
        PROVE  SkipItem(data, at) \in ToSkip /\ rank[SkipItem(data, at)] < rank[at]
    <3>1. at.items # 0 /\ SkipItem(data, at).offset # 0
      BY <2>2
    <3>2. /\ SkipItem(data, at) \in ToSkip
          /\ at.offset < SkipItem(data, at).offset /\ SkipItem(data, at).offset <= Len(data)
      BY <3>1, SkipForward
    <3>3. PICK p \in Nat, q \in Nat : p = at.offset /\ q = SkipItem(data, at).offset
      BY <1>2, <3>2
    <3>4. p < q /\ q <= n
      BY <1>1, <3>2, <3>3
    <3>5. rank[at] = n - p
      BY <1>1, <3>3, <3>4
    <3>6. rank[SkipItem(data, at)] = n - q
      BY <1>1, <3>2, <3>3, <3>4
    <3> QED
      BY <3>2, <3>4, <3>5, <3>6
  <2>3. next \in [ToSkip -> ToSkip] /\ \A at \in ToSkip : at \in Stop \/ rank[next[at]] < rank[at]
    <3> HIDE DEF Stop, rank
    <3> QED
      BY <2>2
  <2>4. comb \in [ToSkip -> [Nat -> Nat]]
    OBVIOUS
  <2> HIDE DEF Stop, out, next, comb, rank
  <2> QED
    BY <2>1, <2>3, <2>4 DEF Terminates
<1>4. PICK f \in [ToSkip -> Nat] :
        \A at \in ToSkip : f[at] = IF at \in Stop THEN out[at] ELSE comb[at][f[next[at]]]
  <2> HIDE DEF Stop, out, next, comb, rank
  <2>1. Computes(ToSkip, Nat, Stop, out, next, comb) # {}
    BY <1>3, Recursion
  <2> QED
    BY <2>1 DEF Computes
<1>5. ASSUME NEW at \in ToSkip
      PROVE  f[at] = IF at.items = 0 THEN at.offset
                     ELSE IF SkipItem(data, at).offset = 0 THEN 0
                     ELSE f[SkipItem(data, at)]
  <2>1. CASE at \in Stop
    BY <1>4, <2>1
  <2>2. CASE at \notin Stop
    <3>1. at.items # 0 /\ SkipItem(data, at).offset # 0
      BY <2>2
    <3>2. SkipItem(data, at) \in ToSkip
      BY <3>1, SkipForward
    <3>3. next[at] = SkipItem(data, at)
      BY <2>2
    <3> HIDE DEF Stop, next
    <3>4. f[next[at]] \in Nat
      BY <3>2, <3>3
    <3>5. f[at] = f[SkipItem(data, at)]
      BY <1>4, <2>2, <3>3, <3>4
    <3> QED
      BY <3>1, <3>5
  <2> QED
    BY <2>1, <2>2
<1>6. f = [at \in ToSkip |->
    IF at.items = 0 THEN at.offset
    ELSE IF SkipItem(data, at).offset = 0 THEN 0
    ELSE f[SkipItem(data, at)]]
  BY <1>5, Zenon
<1>7. SkipScan(data) = [at \in ToSkip |->
    IF at.items = 0 THEN at.offset
    ELSE IF SkipItem(data, at).offset = 0 THEN 0
    ELSE SkipScan(data)[SkipItem(data, at)]]
  BY <1>6, Zenon DEF SkipScan
<1>8. skip_cbor_value(data) = SkipScan(data)[First]
  BY Zenon DEF skip_cbor_value, SkipScan, First
<1>9. First \in ToSkip
  BY DEF First, ToSkip
<1> QED
  BY <1>7, <1>8, <1>9, Zenon

\* What holds if it holds of all that are further on holds of all.
LEMMA SkipInduction ==
  ASSUME NEW data \in Seq(Byte), NEW Good,
         \A at \in ToSkip :
           (\A c \in ToSkip : at.offset < c.offset /\ c.offset <= Len(data) => c \in Good)
             => at \in Good
  PROVE  \A at \in ToSkip : at \in Good
<1>1. PICK n \in Nat : Len(data) = n
  BY LenProperties
<1>2. ASSUME NEW at \in ToSkip PROVE at.offset \in Nat
  BY DEF ToSkip
<1> DEFINE Rank(at) == IF at.offset > n THEN 0 ELSE n - at.offset
           Bad == {k \in Nat : \E at \in ToSkip \ Good : Rank(at) = k}
<1>3. Bad = {}
  <2>1. SUFFICES ASSUME Bad # {} PROVE FALSE
    OBVIOUS
  <2>2. PICK k \in Bad : \A j \in Bad : k <= j
    <3>1. Bad \subseteq Nat
      OBVIOUS
    <3> HIDE DEF Bad
    <3> QED
      BY <2>1, <3>1, Least
  <2>3. PICK at \in ToSkip \ Good : Rank(at) = k
    BY <2>2
  <2>4. ASSUME NEW c \in ToSkip, at.offset < c.offset, c.offset <= Len(data), c \notin Good
        PROVE  FALSE
    <3>1. PICK p \in Nat, q \in Nat : p = at.offset /\ q = c.offset
      BY <1>2
    <3>2. p < q /\ q <= n
      BY <1>1, <2>4, <3>1
    <3>3. k = n - p
      BY <2>3, <3>1, <3>2
    <3>4. Rank(c) = n - q
      BY <3>1, <3>2
    <3>5. Rank(c) \in Nat /\ Rank(c) < k
      BY <3>2, <3>3, <3>4
    <3>6. Rank(c) \in Bad
      BY <2>4, <3>5
    <3>7. k <= Rank(c)
      <4> HIDE DEF Bad, Rank
      <4> QED
        BY <2>2, <3>6
    <3> QED
      BY <3>2, <3>3, <3>5, <3>7
  <2> HIDE DEF Bad, Rank
  <2>5. \A c \in ToSkip : at.offset < c.offset /\ c.offset <= Len(data) => c \in Good
    BY <2>4
  <2>6. at \in ToSkip /\ at \notin Good
    BY <2>3
  <2> QED
    BY <2>5, <2>6
<1>4. ASSUME NEW at \in ToSkip, at \notin Good PROVE FALSE
  <2>1. Rank(at) \in Nat
    BY <1>1, <1>2
  <2>2. Rank(at) \in Bad
    BY <1>4, <2>1
  <2> HIDE DEF Bad, Rank
  <2> QED
    BY <1>3, <2>2
<1> QED
  BY <1>4

\* An item is skipped by its own bytes.
LEMMA SkipLocal ==
  ASSUME NEW data \in Seq(Byte), NEW other \in Seq(Byte), NEW k, k = skip_cbor_value(data),
         k # 0
  PROVE  /\ k \in Nat \ {0} /\ k <= Len(data)
         /\ SameUpTo(data, other, k) => skip_cbor_value(other) = k
<1> DEFINE Past(at) == SkipScan(data)[at]
           Right(at) == /\ Past(at) \in Nat /\ at.offset <= Past(at)
                        /\ at.items # 0 => at.offset < Past(at) /\ Past(at) <= Len(data)
                        /\ SameUpTo(data, other, Past(at)) => SkipScan(other)[at] = Past(at)
           Good == {at \in ToSkip : Past(at) # 0 => Right(at)}
<1>0. PICK n \in Nat : Len(data) = n
  BY LenProperties
<1>1. ASSUME NEW at \in ToSkip,
             \A c \in ToSkip : at.offset < c.offset /\ c.offset <= Len(data) => c \in Good
      PROVE  at \in Good
  <2>1. SUFFICES ASSUME Past(at) # 0 PROVE Right(at)
    OBVIOUS
  <2>2. at.items \in Nat /\ at.offset \in Nat
    BY DEF ToSkip
  <2>3. CASE at.items = 0
    <3>1. Past(at) = at.offset /\ SkipScan(other)[at] = at.offset
      BY <2>3, SkipEquation
    <3> QED
      BY <2>2, <2>3, <3>1
  <2>4. CASE at.items # 0
    <3> DEFINE next == SkipItem(data, at)
    <3>1. next.offset # 0 /\ Past(at) = Past(next)
      BY <2>1, <2>4, SkipEquation
    <3>2. next \in ToSkip /\ at.offset < next.offset /\ next.offset <= Len(data)
      BY <2>4, <3>1, SkipForward
    <3>3. Right(next)
      BY <1>1, <2>1, <3>1, <3>2
    <3>4. next.items \in Nat /\ next.offset \in Nat
      BY <3>2 DEF ToSkip
    <3>5. PICK q \in Nat, p \in Nat, o \in Nat : q = next.offset /\ p = Past(next) /\ o = at.offset
      BY <2>2, <3>3, <3>4
    <3>6. q <= p /\ o < q /\ q <= n
      BY <1>0, <3>2, <3>3, <3>5
    <3>7. p <= Len(data)
      <4>1. CASE next.items = 0
        <5>1. Past(next) = next.offset
          BY <3>2, <4>1, SkipEquation
        <5> QED
          BY <3>2, <3>5, <5>1
      <4>2. CASE next.items # 0
        BY <3>3, <3>5, <4>2
      <4> QED
        BY <4>1, <4>2
    <3>8. ASSUME SameUpTo(data, other, p) PROVE SkipScan(other)[at] = p
      <4>1. SameUpTo(data, other, q)
        BY <3>6, <3>8, SameLess
      <4>2. SkipItem(other, at) = next
        BY <2>4, <3>1, <3>5, <4>1, SkipSame
      <4>3. SkipScan(other)[next] = p
        BY <3>3, <3>5, <3>8
      <4> HIDE DEF next
      <4> QED
        BY <2>4, <3>1, <4>2, <4>3, SkipEquation
    <3>9. o < p /\ o <= p
      BY <3>6
    <3> HIDE DEF next
    <3>10. Past(at) = p /\ at.offset = o
      BY <3>1, <3>5
    <3> HIDE DEF Past
    <3> QED
      BY <3>5, <3>7, <3>8, <3>9, <3>10
  <2> QED
    BY <2>3, <2>4
<1>2. \A at \in ToSkip : at \in Good
  <2> HIDE DEF Good
  <2> QED
    BY <1>1, SkipInduction
<1>3. k = Past(First) /\ First \in ToSkip
  BY SkipEquation
<1>4. Right(First)
  BY <1>2, <1>3
<1>5. SkipScan(other)[First] = skip_cbor_value(other)
  BY SkipEquation
<1>6. First.items = 1 /\ First.offset = 0
  BY DEF First
<1>7. k \in Nat /\ k <= Len(data) /\ (SameUpTo(data, other, k) => skip_cbor_value(other) = k)
  BY <1>3, <1>4, <1>5, <1>6
<1> QED
  BY <1>7

\* A number has one spelling: what is an integer is skipped as one.
LEMMA IntSkipped ==
  ASSUME NEW data \in Seq(Byte), NEW r, r = try_parse_cbor_int(data), r # Unreadable
  PROVE  skip_cbor_value(data) = r.consumed
<1> DEFINE h == CborHead(data)
           next == SkipItem(data, First)
<1>1. r = IntOf(h) /\ r.consumed \in 1..3
  BY IntLocal DEF try_parse_cbor_int
<1>2. From(data, 0) = data
  <2>1. PICK l \in Nat : Len(data) = l
    BY LenProperties
  <2>2. From(data, 0) = SubSeq(data, 1, l)
    BY <2>1 DEF From
  <2>3. SubSeq(data, 1, l) = data
    BY <2>1, SubSeqFull
  <2> QED
    BY <2>2, <2>3
<1>3. First = [items |-> 1, offset |-> 0] /\ First.items = 1 /\ First.offset = 0
  BY DEF First
<1>4. next = AfterItem(data, First, h)
  BY <1>2, <1>3 DEF SkipItem
<1> HIDE DEF h, next
<1>5. h.major \in {Uint, Negative} /\ r.consumed = h.width
  BY <1>1 DEF IntOf
<1>6. h.major # Array /\ ~(h.major \in {Bstr, Text})
  BY <1>5 DEF Uint, Negative, Array, Bstr, Text
<1>7. next = [items |-> 1 - 1, offset |-> ItemEnd(data, 0, h)]
  BY <1>3, <1>4, <1>6 DEF AfterItem
<1>8. PICK w \in 1..3 : h.width = w
  BY <1>1, <1>5
<1>9. ItemEnd(data, 0, h) = w
  <2>1. h.width > 0
    BY <1>8
  <2>2. ItemEnd(data, 0, h) = 0 + w
    BY <1>5, <1>6, <1>8, <2>1 DEF ItemEnd
  <2> QED
    BY <2>2
<1>10. next \in ToSkip /\ next.items = 0 /\ next.offset = w
  BY <1>7, <1>9 DEF ToSkip
<1>11. SkipScan(data)[First] = SkipScan(data)[next] /\ SkipScan(data)[next] = w
  <2>1. First.items # 0 /\ next.offset # 0
    BY <1>3, <1>10
  <2> QED
    BY <1>10, <2>1, SkipEquation DEF next
<1> QED
  BY <1>5, <1>8, <1>11, SkipEquation

\* What is no integer does not become one by other bytes behind it.
LEMMA NoIntLocal ==
  ASSUME NEW data \in Seq(Byte), NEW other \in Seq(Byte), NEW k, k = skip_cbor_value(data),
         k # 0, SameUpTo(data, other, k), try_parse_cbor_int(data) = Unreadable
  PROVE  try_parse_cbor_int(other) = Unreadable
<1> DEFINE r == try_parse_cbor_int(other)
<1>1. k \in Nat /\ skip_cbor_value(other) = k
  BY SkipLocal
<1>2. SUFFICES ASSUME r # Unreadable PROVE FALSE
  OBVIOUS
<1>3. r.consumed = k
  BY <1>1, <1>2, IntSkipped
<1>4. SameUpTo(other, data, k)
  BY <1>1 DEF SameUpTo
<1>5. try_parse_cbor_int(data) = r
  BY <1>2, <1>3, <1>4, IntLocal
<1> QED
  BY <1>2, <1>5

-----------------------------------------------------------------------------
\* Loops over the items of an array or a map, which stop at what is unreadable.
Loop(f, V, start, step) ==
  /\ f \in [Nat -> V] /\ f[0] = start
  /\ \A n \in Nat : f[n + 1] = step[f[n]]
Advances(V, step, l) ==
  /\ step \in [V -> V] /\ step[Unreadable] = Unreadable
  /\ \A s \in V : s # Unreadable => s.offset \in Nat
  /\ \A s \in V : s # Unreadable /\ step[s] # Unreadable =>
                    s.offset <= step[s].offset /\ step[s].offset <= l

\* There is such a loop for every step,
LEMMA LoopExists ==
  ASSUME NEW V, NEW start \in V, NEW step \in [V -> V]
  PROVE  \E f : Loop(f, V, start, step)
<1> DEFINE Stop == {0}
           out == [i \in Nat |-> start]
           next == [i \in Nat |-> IF i = 0 THEN 0 ELSE i - 1]
           comb == [i \in Nat |-> step]
           rank == [i \in Nat |-> i]
<1>1. Terminates(Nat, V, Stop, out, next, comb, rank)
  <2>1. ASSUME NEW i \in Nat, i # 0 PROVE i - 1 \in Nat /\ i - 1 < i
    BY <2>1
  <2>2. next \in [Nat -> Nat] /\ \A i \in Nat : i \in Stop \/ rank[next[i]] < rank[i]
    BY <2>1
  <2> QED
    BY <2>2 DEF Terminates
<1>2. PICK f \in [Nat -> V] :
        \A i \in Nat : f[i] = IF i \in Stop THEN out[i] ELSE comb[i][f[next[i]]]
  <2> HIDE DEF Stop, out, next, comb, rank
  <2>1. Computes(Nat, V, Stop, out, next, comb) # {}
    BY <1>1, Recursion
  <2> QED
    BY <2>1 DEF Computes
<1>3. f[0] = start
  BY <1>2
<1>4. ASSUME NEW i \in Nat PROVE f[i + 1] = step[f[i]]
  <2>1. i + 1 \in Nat /\ i + 1 # 0 /\ (i + 1) - 1 = i
    OBVIOUS
  <2> QED
    BY <1>2, <2>1
<1> QED
  BY <1>3, <1>4 DEF Loop

\* A function that is defined like one is one.
LEMMA LoopIs ==
  ASSUME NEW V, NEW start \in V, NEW step \in [V -> V], NEW f, f = [i \in Nat |-> f[i]],
         f[0] = start, \A i \in Nat : i # 0 /\ f[i - 1] \in V => f[i] = step[f[i - 1]]
  PROVE  Loop(f, V, start, step)
<1> DEFINE Bad == {n \in Nat : f[n] \notin V}
<1>1. ASSUME Bad # {} PROVE FALSE
  <2>1. PICK n \in Bad : \A m \in Bad : n <= m
    <3>1. Bad \subseteq Nat
      OBVIOUS
    <3> HIDE DEF Bad
    <3> QED
      BY <1>1, <3>1, Least
  <2>2. n # 0 /\ n \in Nat
    BY <2>1
  <2>3. n - 1 \in Nat /\ ~(n <= n - 1)
    BY <2>2
  <2>4. n - 1 \notin Bad
    <3> HIDE DEF Bad
    <3> QED
      BY <2>1, <2>3
  <2>5. f[n - 1] \in V
    BY <2>3, <2>4
  <2>6. f[n] \in V
    BY <2>2, <2>5
  <2> QED
    BY <2>1, <2>6
<1>2. \A n \in Nat : f[n] \in V
  BY <1>1
<1>3. ASSUME NEW n \in Nat PROVE f[n + 1] = step[f[n]]
  <2>1. n + 1 \in Nat /\ n + 1 # 0 /\ (n + 1) - 1 = n
    OBVIOUS
  <2> QED
    BY <1>2, <2>1
<1>4. f \in [Nat -> V]
  BY <1>2
<1> QED
  BY <1>3, <1>4 DEF Loop

\* What a loop has read it has read going forward.
LEMMA LoopForward ==
  ASSUME NEW V, NEW start \in V, start # Unreadable, NEW step, NEW f, Loop(f, V, start, step),
         NEW l \in Nat, Advances(V, step, l), start.offset <= l
  PROVE  \A n \in Nat : f[n] # Unreadable => start.offset <= f[n].offset /\ f[n].offset <= l
<1> DEFINE Right(n) == f[n] # Unreadable => start.offset <= f[n].offset /\ f[n].offset <= l
           Bad == {n \in Nat : ~Right(n)}
<1>0. /\ f \in [Nat -> V] /\ f[0] = start
      /\ \A n \in Nat : f[n + 1] = step[f[n]]
  BY DEF Loop
<1>1. SUFFICES ASSUME Bad # {} PROVE FALSE
  OBVIOUS
<1>2. PICK n \in Bad : \A m \in Bad : n <= m
  <2>1. Bad \subseteq Nat
    OBVIOUS
  <2> HIDE DEF Bad
  <2> QED
    BY <1>1, <2>1, Least
<1>3. start.offset \in Nat
  BY DEF Advances
<1>4. n # 0
  BY <1>0, <1>2, <1>3
<1>5. PICK m \in Nat : n = m + 1
  <2>1. n \in Nat
    OBVIOUS
  <2>2. n - 1 \in Nat /\ n = (n - 1) + 1
    BY <1>4, <2>1
  <2> QED
    BY <2>2
<1>6. Right(m)
  <2>1. ~(n <= m)
    BY <1>5
  <2>2. m \notin Bad
    <3> HIDE DEF Bad
    <3> QED
      BY <1>2, <2>1
  <2> QED
    BY <2>2
<1>7. f[n] = step[f[m]] /\ f[n] # Unreadable
  BY <1>0, <1>2, <1>5
<1>8. f[m] # Unreadable /\ f[m] \in V /\ f[n] \in V
  BY <1>0, <1>7 DEF Advances
<1>9. f[m].offset <= f[n].offset /\ f[n].offset <= l /\ f[m].offset \in Nat /\ f[n].offset \in Nat
  BY <1>7, <1>8 DEF Advances
<1>10. start.offset <= f[m].offset
  BY <1>6, <1>8
<1>11. Right(n)
  BY <1>3, <1>9, <1>10
<1> QED
  BY <1>2, <1>11

\* Two loops read the same as long as their steps do.
LEMMA LoopLocal ==
  ASSUME NEW V, NEW start, NEW step, NEW other, NEW f, NEW g,
         Loop(f, V, start, step), Loop(g, V, start, other),
         NEW l \in Nat, Advances(V, step, l), NEW k \in Nat,
         \A s \in V : s # Unreadable /\ step[s] # Unreadable /\ step[s].offset <= k =>
                        other[s] = step[s],
         NEW n \in Nat, f[n] # Unreadable, f[n].offset <= k
  PROVE  g[n] = f[n]
<1> DEFINE Bad == {m \in Nat : f[m] # Unreadable /\ f[m].offset <= k /\ g[m] # f[m]}
<1>0. /\ f \in [Nat -> V] /\ f[0] = start /\ g[0] = start
      /\ \A m \in Nat : f[m + 1] = step[f[m]] /\ g[m + 1] = other[g[m]]
  BY DEF Loop
<1>1. SUFFICES ASSUME Bad # {} PROVE FALSE
  OBVIOUS
<1>2. PICK m \in Bad : \A j \in Bad : m <= j
  <2>1. Bad \subseteq Nat
    OBVIOUS
  <2> HIDE DEF Bad
  <2> QED
    BY <1>1, <2>1, Least
<1>3. m # 0
  BY <1>0, <1>2
<1>4. PICK j \in Nat : m = j + 1
  <2>1. m \in Nat
    OBVIOUS
  <2>2. m - 1 \in Nat /\ m = (m - 1) + 1
    BY <1>3, <2>1
  <2> QED
    BY <2>2
<1>5. f[m] = step[f[j]] /\ f[m] # Unreadable /\ f[m].offset <= k /\ g[m] = other[g[j]] /\ g[m] # f[m]
  BY <1>0, <1>2, <1>4
<1>6. f[j] # Unreadable /\ f[j] \in V /\ f[m] \in V
  BY <1>0, <1>5 DEF Advances
<1>7. f[j].offset <= f[m].offset /\ f[j].offset \in Nat /\ f[m].offset \in Nat
  BY <1>5, <1>6 DEF Advances
<1>8. f[j].offset <= k
  BY <1>5, <1>7
<1>9. j \notin Bad
  <2>1. ~(m <= j)
    BY <1>4
  <2> HIDE DEF Bad
  <2> QED
    BY <1>2, <2>1
<1>10. g[j] = f[j]
  BY <1>6, <1>8, <1>9
<1> QED
  BY <1>5, <1>6, <1>10

\* The array of an alg parameter.
AlgStates == AlgState \cup {Unreadable}
AlgStart == [offset |-> 1, seen |-> {}]
AlgStep(data) == [s \in AlgStates |-> AlgItem(data, s)]
AlgScan(data) ==
  CHOOSE read : read = [i \in Nat |-> IF i = 0 THEN [offset |-> 1, seen |-> {}]
                                      ELSE AlgItem(data, read[i - 1])]

\* A member of the array of an alg parameter is read from its own bytes,
LEMMA AlgItemLocal ==
  ASSUME NEW data \in Seq(Byte), NEW other \in Seq(Byte), NEW s \in AlgState,
         NEW next, next = AlgItem(data, s), next # Unreadable
  PROVE  /\ next \in AlgState /\ s.offset <= next.offset /\ next.offset <= Len(data)
         /\ SameUpTo(data, other, next.offset) => AlgItem(other, s) = next
<1> DEFINE rest == From(data, s.offset)
           there == From(other, s.offset)
           int == try_parse_cbor_int(rest)
           size == skip_cbor_value(rest)
<1>1. PICK o \in Nat, seen \in SUBSET Int : s = [offset |-> o, seen |-> seen]
  BY DEF AlgState
<1>2. s # Unreadable
  BY UnreadableAssumption
<1>3. PICK n \in Nat : Len(data) = n
  BY LenProperties
<1>4. rest \in Seq(Byte) /\ there \in Seq(Byte)
  BY <1>1, RestIs
<1>5. Len(rest) = IF o <= n THEN n - o ELSE 0
  BY <1>1, <1>3, RestIs
<1>6. next = AlgMember(s, int, size)
  BY <1>2 DEF AlgItem
<1>7. AlgItem(other, s) = AlgMember(s, try_parse_cbor_int(there), skip_cbor_value(there))
  BY <1>2 DEF AlgItem
<1> HIDE DEF rest, there
<1>8. CASE int # Unreadable
  <2>1. int \in Reading(Int) /\ int.consumed \in 1..3 /\ int.consumed <= Len(rest)
    BY <1>4, <1>8, IntLocal
  <2>2. PICK v \in Int, c \in 1..3 : int.value = v /\ int.consumed = c
    BY <2>1 DEF Reading
  <2>3. next = [offset |-> o + c, seen |-> seen \cup {v}]
    BY <1>1, <1>6, <1>8, <2>2 DEF AlgMember
  <2>4. next \in AlgState /\ next.offset = o + c
    BY <2>3 DEF AlgState
  <2>5. o + c <= n
    BY <1>5, <2>1, <2>2
  <2>6. ASSUME SameUpTo(data, other, next.offset) PROVE AlgItem(other, s) = next
    <3>1. SameUpTo(rest, there, c)
      BY <1>1, <2>4, <2>6, SameRest DEF rest, there
    <3>2. try_parse_cbor_int(there) = int
      BY <1>4, <1>8, <2>2, <3>1, IntLocal
    <3> HIDE DEF int
    <3> QED
      BY <1>6, <1>7, <1>8, <3>2 DEF AlgMember
  <2>7. o <= o + c
    OBVIOUS
  <2> QED
    BY <1>1, <1>3, <2>4, <2>5, <2>6, <2>7
<1>9. CASE int = Unreadable
  <2>1. size > 0
    BY <1>6, <1>9 DEF AlgMember
  <2>2. PICK c \in Nat \ {0} : size = c /\ c <= Len(rest)
    <3>1. size # 0
      BY <2>1
    <3> QED
      BY <1>4, <3>1, SkipLocal
  <2>3. next = [offset |-> o + c, seen |-> seen]
    <3>1. next = [s EXCEPT !.offset = @ + c]
      BY <1>6, <1>9, <2>1, <2>2 DEF AlgMember
    <3> QED
      BY <1>1, <3>1
  <2>4. next \in AlgState /\ next.offset = o + c
    BY <2>3 DEF AlgState
  <2>5. o + c <= n
    BY <1>5, <2>2
  <2>6. ASSUME SameUpTo(data, other, next.offset) PROVE AlgItem(other, s) = next
    <3>1. SameUpTo(rest, there, c)
      BY <1>1, <2>4, <2>6, SameRest DEF rest, there
    <3>2. skip_cbor_value(there) = size
      BY <1>4, <2>2, <3>1, SkipLocal
    <3>3. try_parse_cbor_int(there) = int
      BY <1>4, <1>9, <2>2, <3>1, NoIntLocal
    <3> HIDE DEF int, size
    <3> QED
      BY <1>6, <1>7, <3>2, <3>3
  <2>7. o <= o + c
    OBVIOUS
  <2> QED
    BY <1>1, <1>3, <2>4, <2>5, <2>6, <2>7
<1> QED
  BY <1>8, <1>9

\* so the array is read forward,
LEMMA AlgAdvances ==
  ASSUME NEW data \in Seq(Byte)
  PROVE  Advances(AlgStates, AlgStep(data), Len(data)) /\ AlgStep(data) \in [AlgStates -> AlgStates]
<1> DEFINE step == AlgStep(data)
<1>1. step[Unreadable] = Unreadable
  BY DEF AlgStep, AlgStates, AlgItem
<1>2. ASSUME NEW s \in AlgState, step[s] # Unreadable
      PROVE  step[s] \in AlgState /\ s.offset <= step[s].offset /\ step[s].offset <= Len(data)
  <2>1. step[s] = AlgItem(data, s)
    BY DEF AlgStep, AlgStates
  <2> HIDE DEF step
  <2> QED
    BY <1>2, <2>1, AlgItemLocal
<1>3. ASSUME NEW s \in AlgStates PROVE step[s] \in AlgStates
  BY <1>1, <1>2, <1>3 DEF AlgStates
<1>4. step = [s \in AlgStates |-> step[s]]
  BY DEF AlgStep
<1> HIDE DEF step
<1>5. step \in [AlgStates -> AlgStates]
  BY <1>3, <1>4
<1>6. \A s \in AlgStates : s # Unreadable => s \in AlgState /\ s.offset \in Nat
  BY DEF AlgStates, AlgState
<1> QED
  BY <1>1, <1>2, <1>5, <1>6 DEF Advances, step

\* by the loop AlgArray is written as;
LEMMA AlgLoop ==
  ASSUME NEW data \in Seq(Byte)
  PROVE  /\ Loop(AlgScan(data), AlgStates, AlgStart, AlgStep(data))
         /\ \A n : AlgArray(data, n) = AlgScan(data)[n]
<1> DEFINE V == AlgStates
           step == AlgStep(data)
<1>1. step \in [V -> V]
  BY AlgAdvances
<1>2. AlgStart \in V
  BY DEF AlgStart, AlgStates, AlgState
<1>3. \A s \in V : step[s] = AlgItem(data, s)
  BY DEF AlgStep
<1> HIDE DEF V, step
<1>4. PICK f : Loop(f, V, AlgStart, step)
  BY <1>1, <1>2, LoopExists
<1>5. ASSUME NEW i \in Nat
      PROVE  f[i] = IF i = 0 THEN AlgStart ELSE AlgItem(data, f[i - 1])
  <2>1. CASE i = 0
    BY <1>4, <2>1 DEF Loop
  <2>2. CASE i # 0
    <3>1. i - 1 \in Nat /\ (i - 1) + 1 = i
      BY <2>2
    <3>2. f[i - 1] \in V /\ f[i] = step[f[i - 1]]
      BY <1>4, <3>1 DEF Loop
    <3> QED
      BY <1>3, <2>2, <3>2
  <2> QED
    BY <2>1, <2>2
<1>5a. f = [i \in Nat |-> f[i]]
  BY <1>4 DEF Loop
<1>6. f = [i \in Nat |-> IF i = 0 THEN [offset |-> 1, seen |-> {}] ELSE AlgItem(data, f[i - 1])]
  BY <1>5, <1>5a, Zenon DEF AlgStart
<1> DEFINE g == AlgScan(data)
<1>7. g = [i \in Nat |-> IF i = 0 THEN [offset |-> 1, seen |-> {}] ELSE AlgItem(data, g[i - 1])]
  BY <1>6, Zenon DEF AlgScan
<1>8. \A n : AlgArray(data, n) = g[n]
  BY Zenon DEF AlgArray, AlgScan
<1> HIDE DEF g
<1>9. /\ g = [i \in Nat |-> g[i]] /\ g[0] = AlgStart
      /\ \A i \in Nat : i # 0 => g[i] = AlgItem(data, g[i - 1])
  BY <1>7, Zenon DEF AlgStart
<1>10. Loop(g, V, AlgStart, step)
  <2>1. \A i \in Nat : i # 0 /\ g[i - 1] \in V => g[i] = step[g[i - 1]]
    BY <1>3, <1>9
  <2> QED
    BY <1>1, <1>2, <1>9, <2>1, LoopIs
<1> QED
  BY <1>8, <1>10 DEF g, V, step

\* and the whole array is read from its own bytes.
LEMMA AlgArrayLocal ==
  ASSUME NEW data \in Seq(Byte), NEW other \in Seq(Byte), data # <<>>, NEW n \in Nat,
         NEW s, s = AlgArray(data, n), s # Unreadable
  PROVE  /\ s \in AlgState /\ 1 <= s.offset /\ s.offset <= Len(data)
         /\ SameUpTo(data, other, s.offset) => AlgArray(other, n) = s
<1> DEFINE f == AlgScan(data)
           g == AlgScan(other)
<1>1. Loop(f, AlgStates, AlgStart, AlgStep(data)) /\ s = f[n]
  BY AlgLoop
<1>2. Loop(g, AlgStates, AlgStart, AlgStep(other)) /\ AlgArray(other, n) = g[n]
  BY AlgLoop
<1>3. PICK l \in Nat : Len(data) = l /\ 1 <= l
  BY LenProperties, EmptySeq
<1>4. Advances(AlgStates, AlgStep(data), l)
  BY <1>3, AlgAdvances
<1>5. AlgStart \in AlgStates /\ AlgStart # Unreadable /\ AlgStart.offset = 1
  <2>1. AlgStart \in AlgState /\ AlgStart.offset = 1
    BY DEF AlgStart, AlgState
  <2> QED
    BY <2>1, UnreadableAssumption DEF AlgStates
<1> HIDE DEF f, g
<1>6. 1 <= s.offset /\ s.offset <= l
  BY <1>1, <1>3, <1>4, <1>5, LoopForward
<1>7. s \in AlgState
  BY <1>1 DEF Loop, AlgStates
<1>8. ASSUME SameUpTo(data, other, s.offset) PROVE g[n] = s
  <2>1. PICK k \in Nat : s.offset = k
    BY <1>7 DEF AlgState
  <2>2. ASSUME NEW t \in AlgStates, t # Unreadable, AlgStep(data)[t] # Unreadable,
               AlgStep(data)[t].offset <= k
        PROVE  AlgStep(other)[t] = AlgStep(data)[t]
    <3>1. AlgStep(data)[t] = AlgItem(data, t) /\ AlgStep(other)[t] = AlgItem(other, t)
      BY DEF AlgStep
    <3>2. t \in AlgState
      BY <2>2 DEF AlgStates
    <3>3. AlgItem(data, t) \in AlgState
      BY <2>2, <3>1, <3>2, AlgItemLocal
    <3>4. PICK j \in Nat : AlgItem(data, t).offset = j
      BY <3>3 DEF AlgState
    <3>5. SameUpTo(data, other, j)
      BY <1>8, <2>1, <2>2, <3>1, <3>4, SameLess
    <3> QED
      BY <2>2, <3>1, <3>2, <3>4, <3>5, AlgItemLocal
  <2> QED
    BY <1>1, <1>2, <1>4, <2>1, <2>2, LoopLocal
<1> QED
  BY <1>2, <1>3, <1>6, <1>7, <1>8

\* The value of an alg parameter.
LEMMA AlgValueLocal ==
  ASSUME NEW data \in Seq(Byte), NEW other \in Seq(Byte), NEW k, k = validate_alg_value(data),
         k # 0
  PROVE  /\ k \in Nat \ {0} /\ k <= Len(data)
         /\ SameUpTo(data, other, k) => validate_alg_value(other) = k
<1> DEFINE h == CborHead(data)
<1>1. k = AlgValue(data, h)
  BY DEF validate_alg_value
<1>2. PICK n \in Nat : Len(data) = n
  BY LenProperties
<1>3. h # NoHead
  BY <1>1 DEF AlgValue, NoHead, Map, Uint, Negative, Array
<1>4. Heading(data, h) /\ data # <<>>
  BY <1>3, HeadThere
<1>5. ASSUME NEW w \in Nat, SameUpTo(data, other, w), h.width <= w
      PROVE  CborHead(other) = h
  <2>1. h.width \in Nat
    BY <1>4 DEF Heading
  <2>2. SameUpTo(data, other, h.width)
    BY <1>5, <2>1, SameLess
  <2> QED
    BY <1>3, <2>2, HeadLocal
<1>6. PICK w \in 1..3, a \in Nat : h.width = w /\ h.argument = a /\ w <= n
  BY <1>2, <1>4 DEF Heading
<1> HIDE DEF h
<1>7. CASE h.major \in {Uint, Negative}
  <2>1. h.major # Array
    BY <1>7 DEF Uint, Negative, Array
  <2>2. k = w
    BY <1>1, <1>6, <1>7, <2>1 DEF AlgValue
  <2>3. ASSUME SameUpTo(data, other, k) PROVE validate_alg_value(other) = k
    <3>1. CborHead(other) = h
      BY <1>5, <1>6, <2>2, <2>3
    <3>2. validate_alg_value(other) = AlgValue(other, h)
      BY <3>1 DEF validate_alg_value
    <3> QED
      BY <1>6, <1>7, <2>1, <2>2, <3>2 DEF AlgValue
  <2> QED
    BY <1>2, <1>6, <2>2, <2>3
<1>8. CASE ~(h.major \in {Uint, Negative})
  <2> DEFINE s == AlgArray(data, a)
  <2>1. h.major = Array /\ w = 1 /\ k = ValueEnd(s)
    BY <1>1, <1>6, <1>8 DEF AlgValue
  <2> HIDE DEF s
  <2>2. s # Unreadable /\ k = s.offset
    BY <2>1 DEF ValueEnd
  <2>3. s \in AlgState /\ 1 <= s.offset /\ s.offset <= Len(data)
    BY <1>4, <2>2, AlgArrayLocal DEF s
  <2>4. k \in Nat \ {0} /\ 1 <= k
    <3>1. s.offset \in Nat
      BY <2>3 DEF AlgState
    <3> QED
      BY <2>2, <2>3, <3>1
  <2>5. ASSUME SameUpTo(data, other, k) PROVE validate_alg_value(other) = k
    <3>1. CborHead(other) = h
      BY <1>5, <1>6, <2>1, <2>4, <2>5
    <3>2. validate_alg_value(other) = AlgValue(other, h)
      BY <3>1 DEF validate_alg_value
    <3>3. AlgArray(other, a) = s
      BY <1>4, <2>2, <2>5, AlgArrayLocal DEF s
    <3> QED
      BY <1>6, <1>8, <2>1, <3>2, <3>3 DEF AlgValue
  <2> QED
    BY <2>2, <2>3, <2>4, <2>5
<1> QED
  BY <1>7, <1>8

-----------------------------------------------------------------------------
\* The values of an ID_CRED.

\* So is a thumbprint.
LEMMA X5tLocal ==
  ASSUME NEW data \in Seq(Byte), NEW other \in Seq(Byte), NEW r, r = parse_x5t_value(data),
         r # Unreadable
  PROVE  /\ r \in Reading(Thumbprints) /\ r.consumed # 0 /\ r.consumed <= Len(data)
         /\ SameUpTo(data, other, r.consumed) => parse_x5t_value(other) = r
<1> DEFINE rest == From(data, 1)
           alg == try_parse_cbor_int(rest)
           last == From(data, 1 + alg.consumed)
           hash == parse_bstr(last)
<1>1. PICK n \in Nat : Len(data) = n
  BY LenProperties
<1>2. data # <<>> /\ data[1] = 130 /\ r = ThumbprintAfter(data, alg)
  BY DEF parse_x5t_value
<1>3. rest \in Seq(Byte) /\ Len(rest) = IF 1 <= n THEN n - 1 ELSE 0
  BY <1>1, RestIs
<1> HIDE DEF rest
<1>4. alg # Unreadable /\ r = Thumbprint(alg, hash)
  BY <1>2 DEF ThumbprintAfter
<1>5. alg \in Reading(Int) /\ alg.consumed \in 1..3
  BY <1>3, <1>4, IntLocal
<1>6. PICK v \in Int, a \in 1..3 : alg.value = v /\ alg.consumed = a
  BY <1>5 DEF Reading
<1> HIDE DEF alg
<1>7. last \in Seq(Byte) /\ Len(last) = IF 1 + a <= n THEN n - (1 + a) ELSE 0
  <2>1. 1 + a \in Nat /\ last = From(data, 1 + a)
    BY <1>6
  <2> QED
    BY <1>1, <2>1, RestIs
<1> HIDE DEF last
<1>8. hash # Unreadable
  BY <1>4 DEF Thumbprint
<1>9. hash \in Reading(Kids) /\ hash.consumed >= 1 /\ hash.consumed <= Len(last)
  BY <1>7, <1>8, BstrLocal
<1>10. PICK x \in Seq(Byte), b \in Nat : hash.value = x /\ hash.consumed = b
  BY <1>9 DEF Reading, Kids
<1> HIDE DEF hash
<1>11. /\ ~(Len(hash.value) > ID_CRED_MAX_LEN)
       /\ r = [value |-> [algorithm |-> v, hash |-> x], consumed |-> 1 + a + b]
  BY <1>4, <1>6, <1>8, <1>10 DEF Thumbprint
<1>12. PICK k \in Nat \ {0} : k = 1 + a + b /\ k <= n
  BY <1>7, <1>9, <1>10
<1>13. r \in Reading(Thumbprints) /\ r.consumed = k
  BY <1>11, <1>12 DEF Reading, Thumbprints
<1>14. ASSUME SameUpTo(data, other, k) PROVE parse_x5t_value(other) = r
  <2>1. PICK m \in Nat : Len(other) = m
    BY LenProperties
  <2>2. k <= m /\ \A i \in 1..k : other[i] = data[i]
    BY <1>14, <2>1 DEF SameUpTo
  <2>3. 1 \in 1..k /\ 1 <= m
    BY <1>12, <2>2
  <2>4. other # <<>> /\ other[1] = 130
    BY <1>2, <2>1, <2>2, <2>3, EmptySeq
  <2>5. From(other, 1) \in Seq(Byte) /\ From(other, 1 + a) \in Seq(Byte)
    BY RestIs
  <2>6. try_parse_cbor_int(From(other, 1)) = alg
    <3>1. SameUpTo(data, other, 1 + a)
      BY <1>12, <1>14, SameLess
    <3>2. SameUpTo(rest, From(other, 1), a)
      BY <3>1, SameRest DEF rest
    <3> QED
      BY <1>3, <1>4, <1>6, <2>5, <3>2, IntLocal DEF alg
  <2>7. parse_bstr(From(other, 1 + a)) = hash
    <3>1. SameUpTo(data, other, (1 + a) + b)
      BY <1>12, <1>14
    <3>2. SameUpTo(last, From(other, 1 + a), b)
      <4>1. 1 + a \in Nat /\ last = From(data, 1 + a)
        BY <1>6 DEF last
      <4> QED
        BY <3>1, <4>1, SameRest
    <3> QED
      BY <1>7, <1>8, <1>10, <2>5, <3>2, BstrLocal DEF hash
  <2>8. parse_x5t_value(other) = ThumbprintAfter(other, alg)
    BY <2>4, <2>6 DEF parse_x5t_value
  <2>9. ThumbprintAfter(other, alg) = Thumbprint(alg, hash)
    BY <1>4, <1>6, <2>7 DEF ThumbprintAfter
  <2> QED
    BY <1>4, <2>8, <2>9
<1> QED
  BY <1>1, <1>12, <1>13, <1>14

Labels == Int \cup {Unreadable}

\* A parameter that is passed over moves the map on by its size;
LEMMA PassIs ==
  ASSUME NEW s \in MapState, NEW label \in Labels, NEW size \in Nat, size # 0
  PROVE  /\ Pass(s, label, size) \in MapState
         /\ Pass(s, label, size).offset = s.offset + size
<1>1. PICK o \in Nat, labels \in SUBSET Int, kid \in Kids \cup {Unreadable},
           x5t \in Thumbprints \cup {Unreadable} :
        s = [offset |-> o, labels |-> labels, kid |-> kid, x5t |-> x5t]
  BY DEF MapState
<1>2. PICK met \in SUBSET Int : met = IF label = Unreadable THEN labels ELSE labels \cup {label}
  <2>1. CASE label = Unreadable
    BY <2>1
  <2>2. CASE label # Unreadable
    <3>1. label \in Int
      BY <2>2 DEF Labels
    <3> QED
      BY <2>2, <3>1
  <2> QED
    BY <2>1, <2>2
<1>3. PICK q \in Nat : q = o + size
  OBVIOUS
<1>4. Pass(s, label, size) = [offset |-> q, labels |-> met, kid |-> kid, x5t |-> x5t]
  BY <1>1, <1>2, <1>3 DEF Pass
<1>5. [offset |-> q, labels |-> met, kid |-> kid, x5t |-> x5t] \in MapState
  BY DEF MapState
<1>6. Pass(s, label, size).offset = q /\ s.offset = o
  BY <1>1, <1>4
<1> QED
  BY <1>3, <1>4, <1>5, <1>6

\* so does a kid
LEMMA TakeKidIs ==
  ASSUME NEW s \in MapState, NEW kid, NEW next, next = TakeKid(s, kid), next # Unreadable,
         kid # Unreadable => kid \in Reading(Kids) /\ kid.consumed # 0
  PROVE  next \in MapState /\ next.offset = s.offset + kid.consumed
<1>1. kid # Unreadable /\ next = [Pass(s, 4, kid.consumed) EXCEPT !.kid = kid.value]
  BY DEF TakeKid
<1>2. PICK k \in Nat, v \in Kids : kid.consumed = k /\ kid.value = v /\ k # 0
  BY <1>1 DEF Reading
<1> DEFINE p == Pass(s, 4, k)
<1>3. p \in MapState /\ p.offset = s.offset + k
  BY <1>2, PassIs DEF Labels
<1> HIDE DEF p
<1>4. next = [p EXCEPT !.kid = v]
  BY <1>1, <1>2 DEF p
<1>5. next \in MapState /\ next.offset = p.offset
  BY <1>3, <1>4 DEF MapState
<1> QED
  BY <1>2, <1>3, <1>5

\* and a thumbprint.
LEMMA TakeX5tIs ==
  ASSUME NEW s \in MapState, NEW x5t, NEW next, next = TakeX5t(s, x5t), next # Unreadable,
         x5t # Unreadable => x5t \in Reading(Thumbprints) /\ x5t.consumed # 0
  PROVE  next \in MapState /\ next.offset = s.offset + x5t.consumed
<1>1. x5t # Unreadable /\ next = [Pass(s, 34, x5t.consumed) EXCEPT !.x5t = x5t.value]
  BY DEF TakeX5t
<1>2. PICK k \in Nat, v \in Thumbprints : x5t.consumed = k /\ x5t.value = v /\ k # 0
  BY <1>1 DEF Reading
<1> DEFINE p == Pass(s, 34, k)
<1>3. p \in MapState /\ p.offset = s.offset + k
  BY <1>2, PassIs DEF Labels
<1> HIDE DEF p
<1>4. next = [p EXCEPT !.x5t = v]
  BY <1>1, <1>2 DEF p
<1>5. next \in MapState /\ next.offset = p.offset
  BY <1>3, <1>4 DEF MapState
<1> QED
  BY <1>2, <1>3, <1>5

\* A value is read from its own bytes.
LEMMA IdCredValueLocal ==
  ASSUME NEW value \in Seq(Byte), NEW other \in Seq(Byte), NEW s \in MapState,
         NEW label \in Labels, NEW next, next = IdCredValue(value, s, label), next # Unreadable
  PROVE  \E size \in Nat \ {0} :
           /\ size <= Len(value) /\ next \in MapState /\ next.offset = s.offset + size
           /\ SameUpTo(value, other, size) => IdCredValue(other, s, label) = next
<1>1. ASSUME NEW size, next = Pass(s, label, size) PROVE size # 0
  BY <1>1 DEF Pass
<1>2. CASE label = 1
  <2> DEFINE size == skip_int_value(value)
  <2>1. next = Pass(s, label, size)
    BY <1>2 DEF IdCredValue
  <2>2. size # 0
    BY <1>1, <2>1
  <2>3. /\ size \in Nat \ {0} /\ size <= Len(value)
        /\ SameUpTo(value, other, size) => skip_int_value(other) = size
    BY <2>2, SkipIntLocal
  <2>4. IdCredValue(other, s, label) = Pass(s, label, skip_int_value(other))
    BY <1>2 DEF IdCredValue
  <2> HIDE DEF size
  <2>5. next \in MapState /\ next.offset = s.offset + size
    BY <2>1, <2>3, PassIs
  <2> QED
    BY <2>1, <2>3, <2>4, <2>5
<1>3. CASE label = 2
  <2> DEFINE size == validate_alg_value(value)
  <2>1. next = Pass(s, label, size)
    BY <1>3 DEF IdCredValue
  <2>2. size # 0
    BY <1>1, <2>1
  <2>3. /\ size \in Nat \ {0} /\ size <= Len(value)
        /\ SameUpTo(value, other, size) => validate_alg_value(other) = size
    BY <2>2, AlgValueLocal
  <2>4. IdCredValue(other, s, label) = Pass(s, label, validate_alg_value(other))
    BY <1>3 DEF IdCredValue
  <2> HIDE DEF size
  <2>5. next \in MapState /\ next.offset = s.offset + size
    BY <2>1, <2>3, PassIs
  <2> QED
    BY <2>1, <2>3, <2>4, <2>5
<1>4. CASE label = 4
  <2> DEFINE kid == parse_canonical_bstr(value)
  <2>1. next = TakeKid(s, kid)
    BY <1>4 DEF IdCredValue
  <2>2. kid # Unreadable
    BY <2>1 DEF TakeKid
  <2>3. /\ kid \in Reading(Kids) /\ kid.consumed >= 1 /\ kid.consumed <= Len(value)
        /\ SameUpTo(value, other, kid.consumed) => parse_canonical_bstr(other) = kid
    BY <2>2, CanonicalLocal
  <2>4. IdCredValue(other, s, label) = TakeKid(s, parse_canonical_bstr(other))
    BY <1>4 DEF IdCredValue
  <2> HIDE DEF kid
  <2>5. PICK size \in Nat \ {0} : kid.consumed = size
    BY <2>3 DEF Reading
  <2>6. next \in MapState /\ next.offset = s.offset + size
    BY <2>1, <2>3, <2>5, TakeKidIs
  <2> QED
    BY <2>1, <2>3, <2>4, <2>5, <2>6
<1>5. CASE label = 34
  <2> DEFINE x5t == parse_x5t_value(value)
  <2>1. next = TakeX5t(s, x5t)
    BY <1>5 DEF IdCredValue
  <2>2. x5t # Unreadable
    BY <2>1 DEF TakeX5t
  <2>3. /\ x5t \in Reading(Thumbprints) /\ x5t.consumed # 0 /\ x5t.consumed <= Len(value)
        /\ SameUpTo(value, other, x5t.consumed) => parse_x5t_value(other) = x5t
    BY <2>2, X5tLocal
  <2>4. IdCredValue(other, s, label) = TakeX5t(s, parse_x5t_value(other))
    BY <1>5 DEF IdCredValue
  <2> HIDE DEF x5t
  <2>5. PICK size \in Nat \ {0} : x5t.consumed = size
    BY <2>3 DEF Reading
  <2>6. next \in MapState /\ next.offset = s.offset + size
    BY <2>1, <2>3, <2>5, TakeX5tIs
  <2> QED
    BY <2>1, <2>3, <2>4, <2>5, <2>6
<1>6. CASE label # 1 /\ label # 2 /\ label # 4 /\ label # 34
  <2> DEFINE size == skip_cbor_value(value)
  <2>1. next = Pass(s, label, size)
    BY <1>6, Zenon DEF IdCredValue
  <2>2. size # 0
    BY <1>1, <2>1
  <2>3. /\ size \in Nat \ {0} /\ size <= Len(value)
        /\ SameUpTo(value, other, size) => skip_cbor_value(other) = size
    BY <2>2, SkipLocal
  <2>4. IdCredValue(other, s, label) = Pass(s, label, skip_cbor_value(other))
    BY <1>6, Zenon DEF IdCredValue
  <2> HIDE DEF size
  <2>5. next \in MapState /\ next.offset = s.offset + size
    BY <2>1, <2>3, PassIs
  <2> QED
    BY <2>1, <2>3, <2>4, <2>5
<1> QED
  BY <1>2, <1>3, <1>4, <1>5, <1>6

\* A key and its value.
LEMMA AfterKeyLocal ==
  ASSUME NEW data \in Seq(Byte), NEW other \in Seq(Byte), NEW s \in MapState,
         NEW label \in Labels, NEW size \in Nat,
         NEW next, next = AfterKey(data, s, label, size), next # Unreadable
  PROVE  /\ size # 0 /\ next \in MapState /\ s.offset + size <= next.offset
         /\ next.offset <= Len(data)
         /\ SameUpTo(data, other, next.offset) => AfterKey(other, s, label, size) = next
<1>1. PICK o \in Nat, labels \in SUBSET Int, kid \in Kids \cup {Unreadable},
           x5t \in Thumbprints \cup {Unreadable} :
        s = [offset |-> o, labels |-> labels, kid |-> kid, x5t |-> x5t]
  BY DEF MapState
<1>2. PICK n \in Nat : Len(data) = n
  BY LenProperties
<1>3. PICK p \in Nat : p = o + size
  OBVIOUS
<1>4. PICK t \in MapState : t = [s EXCEPT !.offset = @ + size] /\ t.offset = p
  <2>1. [s EXCEPT !.offset = @ + size] = [offset |-> p, labels |-> labels, kid |-> kid, x5t |-> x5t]
    BY <1>1, <1>3
  <2>2. [offset |-> p, labels |-> labels, kid |-> kid, x5t |-> x5t] \in MapState
    BY DEF MapState
  <2> QED
    BY <2>1, <2>2
<1>5. s.offset = o /\ s.offset + size = p
  BY <1>1, <1>3
<1> DEFINE value == From(data, p)
           there == From(other, p)
<1>6. /\ label \notin s.labels /\ size # 0
      /\ next = IdCredValue(value, t, label)
      /\ AfterKey(other, s, label, size) = IdCredValue(there, t, label)
  BY <1>4, <1>5 DEF AfterKey
<1>7. /\ value \in Seq(Byte) /\ there \in Seq(Byte)
      /\ Len(value) = IF p <= n THEN n - p ELSE 0
  BY <1>2, RestIs
<1> HIDE DEF value, there
<1>8. PICK c \in Nat \ {0} :
        /\ c <= Len(value) /\ next \in MapState /\ next.offset = p + c
        /\ SameUpTo(value, there, c) => IdCredValue(there, t, label) = next
  <2>1. \E c \in Nat \ {0} :
          /\ c <= Len(value) /\ next \in MapState /\ next.offset = t.offset + c
          /\ SameUpTo(value, there, c) => IdCredValue(there, t, label) = next
    BY <1>6, <1>7, IdCredValueLocal
  <2> QED
    BY <1>4, <2>1
<1>9. p + c <= n /\ p <= p + c
  BY <1>7, <1>8
<1>10. ASSUME SameUpTo(data, other, next.offset)
       PROVE  AfterKey(other, s, label, size) = next
  <2>1. SameUpTo(value, there, c)
    BY <1>8, <1>10, SameRest DEF value, there
  <2> QED
    BY <1>6, <1>8, <2>1
<1> QED
  BY <1>2, <1>5, <1>6, <1>8, <1>9, <1>10

\* A parameter, its key and its value, is read from its own bytes, whether the key
\* is an integer or any other item.
LEMMA PairLocal ==
  ASSUME NEW data \in Seq(Byte), NEW other \in Seq(Byte), NEW s \in MapState,
         NEW next, next = IdCredPair(data, s), next # Unreadable
  PROVE  /\ next \in MapState /\ s.offset <= next.offset /\ next.offset <= Len(data)
         /\ SameUpTo(data, other, next.offset) => IdCredPair(other, s) = next
<1> DEFINE rest == From(data, s.offset)
           there == From(other, s.offset)
           int == try_parse_cbor_int(rest)
           size == skip_cbor_value(rest)
<1>1. s # Unreadable
  BY UnreadableAssumption
<1>2. s.offset \in Nat
  BY DEF MapState
<1>3. rest \in Seq(Byte) /\ there \in Seq(Byte)
  BY <1>2, RestIs
<1>4. /\ next = IntKey(data, s, int)
      /\ IdCredPair(other, s) = IntKey(other, s, try_parse_cbor_int(there))
  BY <1>1 DEF IdCredPair
<1>5. ASSUME NEW c \in Nat, s.offset + c <= next.offset, next.offset \in Nat,
             SameUpTo(data, other, next.offset)
      PROVE  SameUpTo(rest, there, c)
  <2>1. SameUpTo(data, other, s.offset + c)
    BY <1>2, <1>5, SameLess
  <2> QED
    BY <1>2, <2>1, SameRest
<1>6. CASE int # Unreadable
  <2>1. int \in Reading(Int) /\ int.consumed \in 1..3
    BY <1>3, <1>6, IntLocal
  <2>2. PICK v \in Int, c \in 1..3 : int.value = v /\ int.consumed = c
    BY <2>1 DEF Reading
  <2>3. next = AfterKey(data, s, v, c)
    BY <1>4, <1>6, <2>2 DEF IntKey
  <2>4. v \in Labels /\ c \in Nat
    BY DEF Labels
  <2>5. /\ next \in MapState /\ s.offset + c <= next.offset /\ next.offset <= Len(data)
        /\ SameUpTo(data, other, next.offset) => AfterKey(other, s, v, c) = next
    BY <2>3, <2>4, AfterKeyLocal
  <2>6. next.offset \in Nat /\ s.offset <= next.offset
    <3>1. next.offset \in Nat
      BY <2>5 DEF MapState
    <3> QED
      BY <1>2, <2>5, <3>1
  <2>7. ASSUME SameUpTo(data, other, next.offset) PROVE IdCredPair(other, s) = next
    <3>1. SameUpTo(rest, there, c)
      BY <1>5, <2>4, <2>5, <2>6, <2>7
    <3> HIDE DEF rest, there
    <3>2. try_parse_cbor_int(there) = int
      BY <1>3, <1>6, <2>2, <3>1, IntLocal
    <3> HIDE DEF int
    <3> QED
      BY <1>4, <1>6, <2>2, <2>5, <2>7, <3>2 DEF IntKey
  <2> QED
    BY <2>5, <2>6, <2>7
<1>7. CASE int = Unreadable
  <2>1. next = AfterKey(data, s, Unreadable, size)
    BY <1>4, <1>7 DEF IntKey
  <2>2. size # 0
    BY <2>1 DEF AfterKey
  <2>3. PICK c \in Nat : size = c
    BY <1>3, <2>2, SkipLocal
  <2>4. Unreadable \in Labels
    BY DEF Labels
  <2>5. /\ next \in MapState /\ s.offset + c <= next.offset /\ next.offset <= Len(data)
        /\ SameUpTo(data, other, next.offset) => AfterKey(other, s, Unreadable, c) = next
    BY <2>1, <2>3, <2>4, AfterKeyLocal
  <2>6. next.offset \in Nat /\ s.offset <= next.offset
    <3>1. next.offset \in Nat
      BY <2>5 DEF MapState
    <3> QED
      BY <1>2, <2>5, <3>1
  <2>7. ASSUME SameUpTo(data, other, next.offset) PROVE IdCredPair(other, s) = next
    <3>1. SameUpTo(rest, there, c)
      BY <1>5, <2>5, <2>6, <2>7
    <3> HIDE DEF rest, there
    <3>2. skip_cbor_value(there) = c
      BY <1>3, <2>2, <2>3, <3>1, SkipLocal
    <3>3. try_parse_cbor_int(there) = Unreadable
      BY <1>3, <1>7, <2>2, <2>3, <3>1, NoIntLocal
    <3>4. IntKey(other, s, Unreadable) = AfterKey(other, s, Unreadable, skip_cbor_value(From(other, s.offset)))
      BY DEF IntKey
    <3>5. skip_cbor_value(From(other, s.offset)) = c
      BY <3>2 DEF there
    <3> QED
      BY <1>4, <2>5, <2>7, <3>3, <3>4, <3>5
  <2> QED
    BY <2>5, <2>6, <2>7
<1> QED
  BY <1>6, <1>7

\* The loop over a map.
MapStates == MapState \cup {Unreadable}
MapStep(data) == [s \in MapStates |-> IdCredPair(data, s)]
MapScan(data) ==
  CHOOSE read : read = [i \in Nat |-> IF i = 0 THEN NothingRead ELSE IdCredPair(data, read[i - 1])]

\* The loop begins behind the head.
LEMMA MapStart ==
  NothingRead \in MapState /\ NothingRead \in MapStates /\ NothingRead # Unreadable
    /\ NothingRead.offset = 1
<1>1. NothingRead \in MapState /\ NothingRead.offset = 1
  BY DEF NothingRead, MapState
<1> QED
  BY <1>1, UnreadableAssumption DEF MapStates

\* It reads forward,
LEMMA MapAdvances ==
  ASSUME NEW data \in Seq(Byte)
  PROVE  Advances(MapStates, MapStep(data), Len(data)) /\ MapStep(data) \in [MapStates -> MapStates]
<1> DEFINE step == MapStep(data)
<1>1. step[Unreadable] = Unreadable
  BY DEF MapStep, MapStates, IdCredPair
<1>2. ASSUME NEW s \in MapState, step[s] # Unreadable
      PROVE  step[s] \in MapState /\ s.offset <= step[s].offset /\ step[s].offset <= Len(data)
  <2>1. step[s] = IdCredPair(data, s)
    BY DEF MapStep, MapStates
  <2> HIDE DEF step
  <2> QED
    BY <1>2, <2>1, PairLocal
<1>3. ASSUME NEW s \in MapStates PROVE step[s] \in MapStates
  BY <1>1, <1>2, <1>3 DEF MapStates
<1>4. step = [s \in MapStates |-> step[s]]
  BY DEF MapStep
<1> HIDE DEF step
<1>5. step \in [MapStates -> MapStates]
  BY <1>3, <1>4
<1>6. \A s \in MapStates : s # Unreadable => s \in MapState /\ s.offset \in Nat
  BY DEF MapStates, MapState
<1> QED
  BY <1>1, <1>2, <1>5, <1>6 DEF Advances, step

\* is the one IdCredMap is written as,
LEMMA MapLoop ==
  ASSUME NEW data \in Seq(Byte)
  PROVE  /\ Loop(MapScan(data), MapStates, NothingRead, MapStep(data))
         /\ IdCredMap(data) = WholeMap(data, MapScan(data)[data[1] - 160])
<1> DEFINE V == MapStates
           step == MapStep(data)
<1>1. step \in [V -> V] /\ NothingRead \in V
  BY MapAdvances, MapStart
<1>2. \A s \in V : step[s] = IdCredPair(data, s)
  BY DEF MapStep
<1> HIDE DEF V, step
<1>3. PICK f : Loop(f, V, NothingRead, step)
  BY <1>1, LoopExists
<1>4. ASSUME NEW i \in Nat
      PROVE  f[i] = IF i = 0 THEN NothingRead ELSE IdCredPair(data, f[i - 1])
  <2>1. CASE i = 0
    BY <1>3, <2>1 DEF Loop
  <2>2. CASE i # 0
    <3>1. i - 1 \in Nat /\ (i - 1) + 1 = i
      BY <2>2
    <3>2. f[i - 1] \in V /\ f[i] = step[f[i - 1]]
      BY <1>3, <3>1 DEF Loop
    <3> QED
      BY <1>2, <2>2, <3>2
  <2> QED
    BY <2>1, <2>2
<1>5. f = [i \in Nat |-> f[i]]
  BY <1>3 DEF Loop
<1>6. f = [i \in Nat |-> IF i = 0 THEN NothingRead ELSE IdCredPair(data, f[i - 1])]
  BY <1>4, <1>5, Zenon
<1> DEFINE g == MapScan(data)
<1>7. g = [i \in Nat |-> IF i = 0 THEN NothingRead ELSE IdCredPair(data, g[i - 1])]
  BY <1>6, Zenon DEF MapScan
<1>8. IdCredMap(data) = WholeMap(data, g[data[1] - 160])
  BY Zenon DEF IdCredMap, MapScan
<1> HIDE DEF g
<1>9. /\ g = [i \in Nat |-> g[i]] /\ g[0] = NothingRead
      /\ \A i \in Nat : i # 0 => g[i] = IdCredPair(data, g[i - 1])
  BY <1>7, Zenon
<1>10. Loop(g, V, NothingRead, step)
  <2>1. \A i \in Nat : i # 0 /\ g[i - 1] \in V => g[i] = step[g[i - 1]]
    BY <1>2, <1>9
  <2> QED
    BY <1>1, <1>9, <2>1, LoopIs
<1> QED
  BY <1>8, <1>10 DEF g, V, step

\* and reads what it has read from these bytes alone.
LEMMA MapLocal ==
  ASSUME NEW data \in Seq(Byte), NEW other \in Seq(Byte), data # <<>>, NEW n \in Nat,
         NEW s, s = MapScan(data)[n], s # Unreadable
  PROVE  /\ s \in MapState /\ 1 <= s.offset /\ s.offset <= Len(data)
         /\ SameUpTo(data, other, s.offset) => MapScan(other)[n] = s
<1> DEFINE f == MapScan(data)
           g == MapScan(other)
<1>1. Loop(f, MapStates, NothingRead, MapStep(data)) /\ s = f[n]
  BY MapLoop
<1>2. Loop(g, MapStates, NothingRead, MapStep(other))
  BY MapLoop
<1>3. PICK l \in Nat : Len(data) = l /\ 1 <= l
  BY LenProperties, EmptySeq
<1>4. Advances(MapStates, MapStep(data), l)
  BY <1>3, MapAdvances
<1> HIDE DEF f, g
<1>5. 1 <= s.offset /\ s.offset <= l
  BY <1>1, <1>3, <1>4, MapStart, LoopForward
<1>6. s \in MapState
  BY <1>1 DEF Loop, MapStates
<1>7. ASSUME SameUpTo(data, other, s.offset) PROVE g[n] = s
  <2>1. PICK k \in Nat : s.offset = k
    BY <1>6 DEF MapState
  <2>2. ASSUME NEW t \in MapStates, t # Unreadable, MapStep(data)[t] # Unreadable,
               MapStep(data)[t].offset <= k
        PROVE  MapStep(other)[t] = MapStep(data)[t]
    <3>1. MapStep(data)[t] = IdCredPair(data, t) /\ MapStep(other)[t] = IdCredPair(other, t)
      BY DEF MapStep
    <3>2. t \in MapState
      BY <2>2 DEF MapStates
    <3>3. IdCredPair(data, t) \in MapState
      BY <2>2, <3>1, <3>2, PairLocal
    <3>4. PICK j \in Nat : IdCredPair(data, t).offset = j
      BY <3>3 DEF MapState
    <3>5. SameUpTo(data, other, j)
      BY <1>7, <2>1, <2>2, <3>1, <3>4, SameLess
    <3> QED
      BY <2>2, <3>1, <3>2, <3>4, <3>5, PairLocal
  <2> QED
    BY <1>1, <1>2, <1>4, <2>1, <2>2, LoopLocal
<1> QED
  BY <1>3, <1>5, <1>6, <1>7 DEF g

-----------------------------------------------------------------------------
\* ID_CREDs.

\* What opens a map is no integer and no byte string.
LEMMA MapHead ==
  ASSUME NEW data \in Seq(Byte), data # <<>>, data[1] \in 161..168
  PROVE  CborHead(data).major = Map
<1>1. data[1] \div 32 = 5
  <2>1. PICK a \in 161..168 : data[1] = a
    OBVIOUS
  <2>2. a \div 32 = 5
    OBVIOUS
  <2> QED
    BY <2>1, <2>2
<1>2. CASE CborHead(data) = NoHead
  BY <1>2 DEF NoHead
<1>3. CASE CborHead(data) # NoHead
  <2>1. PICK w \in 1..3 : ~TooShort(data, w) /\ CborHead(data) = HeadOf(data, w)
    BY <1>3, HeadThere
  <2>2. w = 1 \/ w = 2 \/ w = 3
    OBVIOUS
  <2>3. CborHead(data) = Head1(data) \/ CborHead(data) = Head2(data) \/ CborHead(data) = Head3(data)
    BY <2>1, <2>2, HeadForms
  <2> QED
    BY <1>1, <2>3 DEF Head1, Head2, Head3, Map
<1> QED
  BY <1>2, <1>3

\* The kinds of ID_CRED, by their heads.
SmallHead(h) == h.width \in {1, 2}
OpensMap(data) == data # <<>> /\ data[1] \in 161..(160 + ID_CRED_MAX_PARAMETERS)

\* An ID_CRED is of one kind: IdCredOf tries them in an order that does not matter.
LEMMA IdCredKinds ==
  ASSUME NEW data \in Seq(Byte), NEW h, h = CborHead(data)
  PROVE  /\ h.major \in {Uint, Negative} /\ SmallHead(h) =>
              parse_id_cred(data) = KidOnly(SubSeq(data, 1, h.width), h.width)
         /\ h.major = Bstr /\ SmallHead(h) => parse_id_cred(data) = KidOf(BstrOf(data, h))
         /\ OpensMap(data) => parse_id_cred(data) = IdCredMap(data)
         /\ parse_id_cred(data) # Unreadable =>
              \/ h.major \in {Uint, Negative} /\ SmallHead(h)
              \/ h.major = Bstr /\ SmallHead(h)
              \/ OpensMap(data)
<1>1. OpensMap(data) => h.major = Map
  <2>1. 160 + ID_CRED_MAX_PARAMETERS = 168
    BY DEF ID_CRED_MAX_PARAMETERS
  <2> QED
    BY <2>1, MapHead DEF OpensMap
<1>2. parse_id_cred(data) =
        CASE h.major \in {Uint, Negative} /\ SmallHead(h) ->
               KidOnly(SubSeq(data, 1, h.width), h.width)
          [] h.major = Bstr /\ SmallHead(h) -> KidOf(BstrOf(data, h))
          [] OpensMap(data) -> IdCredMap(data)
          [] OTHER -> Unreadable
  BY Zenon DEF parse_id_cred, IdCredOf, SmallHead, OpensMap
<1> HIDE DEF OpensMap
<1>3. ASSUME h.major \in {Uint, Negative} PROVE h.major # Bstr /\ ~OpensMap(data)
  BY <1>1, <1>3 DEF Uint, Negative, Bstr, Map
<1>4. ASSUME h.major = Bstr PROVE ~(h.major \in {Uint, Negative}) /\ ~OpensMap(data)
  BY <1>1, <1>4 DEF Uint, Negative, Bstr, Map
<1>5. ASSUME OpensMap(data) PROVE ~(h.major \in {Uint, Negative}) /\ h.major # Bstr
  BY <1>1, <1>5 DEF Uint, Negative, Bstr, Map
<1>6. h.major \in {Uint, Negative} /\ SmallHead(h) =>
        parse_id_cred(data) = KidOnly(SubSeq(data, 1, h.width), h.width)
  BY <1>2, <1>3, Zenon
<1>7. h.major = Bstr /\ SmallHead(h) => parse_id_cred(data) = KidOf(BstrOf(data, h))
  BY <1>2, <1>4, Zenon
<1>8. OpensMap(data) => parse_id_cred(data) = IdCredMap(data)
  BY <1>2, <1>5, Zenon
<1>9. \/ h.major \in {Uint, Negative} /\ SmallHead(h)
      \/ h.major = Bstr /\ SmallHead(h)
      \/ OpensMap(data)
      \/ parse_id_cred(data) = Unreadable
  BY <1>2, Zenon
<1> QED
  BY <1>6, <1>7, <1>8, <1>9

\* The map that stands for a kid.
KidMap(kid) == <<161, 4>> \o append_cbor_bstr(kid)

\* A compact spelling is understood as the map it stands for.
LEMMA KidOnlyIs ==
  ASSUME NEW kid, NEW consumed, NEW c, c = KidOnly(kid, consumed), c # Unreadable
  PROVE  /\ ~(Len(KidMap(kid)) > ID_CRED_MAX_LEN)
         /\ c = [encoded |-> KidMap(kid), kid |-> kid, x5t |-> Unreadable, consumed |-> consumed]
BY DEF KidOnly, KidMap

\* What is read of an ID_CRED are its own bytes; it is the map they are, or the
\* map that stands for a kid.
Described(data, c) ==
  \/ c.encoded = SubSeq(data, 1, c.consumed)
  \/ \E kid \in Kids :
       /\ ~(Len(KidMap(kid)) > ID_CRED_MAX_LEN)
       /\ c = [encoded |-> KidMap(kid), kid |-> kid, x5t |-> Unreadable, consumed |-> c.consumed]

\* parse_id_cred reads its own bytes, and what it returns is described by them.
LEMMA IdCredLocal ==
  ASSUME NEW data \in Seq(Byte), NEW other \in Seq(Byte), NEW c, c = parse_id_cred(data),
         c # Unreadable
  PROVE  /\ c.consumed \in Nat /\ c.consumed <= Len(data) /\ Described(data, c)
         /\ c = [encoded |-> c.encoded, kid |-> c.kid, x5t |-> c.x5t, consumed |-> c.consumed]
         /\ SameUpTo(data, other, c.consumed) => parse_id_cred(other) = c
<1> DEFINE h == CborHead(data)
<1>1. PICK n \in Nat : Len(data) = n
  BY LenProperties
<1>2. CASE h.major \in {Uint, Negative} /\ SmallHead(h)
  <2>1. h # NoHead
    BY <1>2 DEF NoHead, Map, Uint, Negative
  <2>2. Heading(data, h)
    BY <2>1, HeadThere
  <2>3. c = KidOnly(SubSeq(data, 1, h.width), h.width)
    BY <1>2, IdCredKinds
  <2> HIDE DEF h
  <2>4. PICK w \in 1..3 : h.width = w /\ w <= n
    BY <1>1, <2>2 DEF Heading
  <2> DEFINE kid == SubSeq(data, 1, w)
  <2>5. kid \in Kids
    <3>1. SameUpTo(data, data, w)
      BY <1>1, <2>4 DEF SameUpTo
    <3> QED
      BY <3>1, SamePart DEF Kids
  <2> HIDE DEF kid
  <2>6. /\ ~(Len(KidMap(kid)) > ID_CRED_MAX_LEN)
        /\ c = [encoded |-> KidMap(kid), kid |-> kid, x5t |-> Unreadable, consumed |-> w]
    BY <2>3, <2>4, KidOnlyIs DEF kid
  <2>7. c.consumed = w
    BY <2>6
  <2>8. Described(data, c)
    BY <2>5, <2>6, <2>7 DEF Described
  <2>9. c = [encoded |-> c.encoded, kid |-> c.kid, x5t |-> c.x5t, consumed |-> c.consumed]
    BY <2>6
  <2>10. ASSUME SameUpTo(data, other, w) PROVE parse_id_cred(other) = c
    <3>1. CborHead(other) = h
      BY <2>1, <2>4, <2>10, HeadLocal DEF h
    <3>2. SubSeq(other, 1, w) = SubSeq(data, 1, w)
      BY <2>10, SamePart
    <3>3. parse_id_cred(other) = KidOnly(SubSeq(other, 1, h.width), h.width)
      BY <1>2, <3>1, IdCredKinds
    <3> QED
      BY <2>3, <2>4, <3>2, <3>3
  <2> QED
    BY <1>1, <2>4, <2>7, <2>8, <2>9, <2>10
<1>3. CASE h.major = Bstr /\ SmallHead(h)
  <2> DEFINE r == BstrOf(data, h)
  <2>1. c = KidOf(r) /\ r = parse_bstr(data)
    BY <1>3, IdCredKinds DEF parse_bstr
  <2> HIDE DEF r
  <2>2. r # Unreadable /\ c = KidOnly(r.value, r.consumed)
    BY <2>1 DEF KidOf
  <2>3. /\ r \in Reading(Kids) /\ r.consumed <= Len(data)
        /\ h # NoHead /\ h.width <= r.consumed /\ h.width \in 1..3
        /\ SameUpTo(data, other, r.consumed) => parse_bstr(other) = r
    BY <2>1, <2>2, BstrLocal
  <2>4. PICK k \in Nat, kid \in Kids : r.consumed = k /\ r.value = kid
    BY <2>3 DEF Reading
  <2>5. /\ ~(Len(KidMap(kid)) > ID_CRED_MAX_LEN)
        /\ c = [encoded |-> KidMap(kid), kid |-> kid, x5t |-> Unreadable, consumed |-> k]
    BY <2>2, <2>4, KidOnlyIs
  <2>6. c.consumed = k
    BY <2>5
  <2>7. Described(data, c)
    BY <2>5, <2>6 DEF Described
  <2>8. c = [encoded |-> c.encoded, kid |-> c.kid, x5t |-> c.x5t, consumed |-> c.consumed]
    BY <2>5
  <2>9. ASSUME SameUpTo(data, other, k) PROVE parse_id_cred(other) = c
    <3>1. PICK w \in Nat : h.width = w /\ w <= k
      BY <2>3, <2>4
    <3>2. SameUpTo(data, other, w)
      BY <2>9, <3>1, SameLess
    <3>3. CborHead(other) = h
      BY <2>3, <3>1, <3>2, HeadLocal
    <3>4. parse_bstr(other) = r
      BY <2>3, <2>4, <2>9
    <3>5. parse_id_cred(other) = KidOf(parse_bstr(other))
      BY <1>3, <3>3, IdCredKinds DEF parse_bstr
    <3> QED
      BY <2>1, <3>4, <3>5
  <2> QED
    BY <2>3, <2>4, <2>6, <2>7, <2>8, <2>9
<1>4. CASE OpensMap(data)
  <2>1. PICK m \in Nat : data[1] - 160 = m
    <3>1. PICK a \in 161..168 : data[1] = a
      BY <1>4 DEF OpensMap, ID_CRED_MAX_PARAMETERS
    <3>2. a - 160 \in Nat
      OBVIOUS
    <3> QED
      BY <3>1, <3>2
  <2> DEFINE s == MapScan(data)[m]
  <2>2. c = WholeMap(data, s)
    BY <1>4, <2>1, IdCredKinds, MapLoop
  <2> HIDE DEF s
  <2>3. s # Unreadable /\ ~((s.kid = Unreadable) = (s.x5t = Unreadable) \/ s.offset > ID_CRED_MAX_LEN)
        /\ c = [encoded |-> SubSeq(data, 1, s.offset), kid |-> s.kid, x5t |-> s.x5t,
                consumed |-> s.offset]
    BY <2>2 DEF WholeMap
  <2>4. data # <<>>
    BY <1>4 DEF OpensMap
  <2>5. /\ s \in MapState /\ 1 <= s.offset /\ s.offset <= Len(data)
        /\ SameUpTo(data, other, s.offset) => MapScan(other)[m] = s
    BY <2>3, <2>4, MapLocal DEF s
  <2>6. PICK k \in Nat : s.offset = k /\ 1 <= k
    BY <2>5 DEF MapState
  <2>7. c.consumed = k /\ c.encoded = SubSeq(data, 1, k)
    BY <2>3, <2>6
  <2>8. Described(data, c)
    BY <2>7 DEF Described
  <2>9. c = [encoded |-> c.encoded, kid |-> c.kid, x5t |-> c.x5t, consumed |-> c.consumed]
    BY <2>3
  <2>10. ASSUME SameUpTo(data, other, k) PROVE parse_id_cred(other) = c
    <3>1. PICK l \in Nat : Len(other) = l
      BY LenProperties
    <3>2. 1 \in 1..k /\ k <= l /\ \A i \in 1..k : other[i] = data[i]
      BY <2>6, <2>10, <3>1 DEF SameUpTo
    <3>3. other # <<>> /\ other[1] = data[1]
      BY <2>6, <3>1, <3>2, EmptySeq
    <3>4. OpensMap(other)
      BY <1>4, <3>3 DEF OpensMap
    <3>5. parse_id_cred(other) = WholeMap(other, MapScan(other)[m])
      BY <2>1, <3>3, <3>4, IdCredKinds, MapLoop
    <3>6. MapScan(other)[m] = s
      BY <2>5, <2>6, <2>10
    <3>7. SubSeq(other, 1, k) = SubSeq(data, 1, k)
      BY <2>10, SamePart
    <3> QED
      BY <2>2, <2>3, <2>6, <3>5, <3>6, <3>7 DEF WholeMap
  <2> QED
    BY <2>5, <2>6, <2>7, <2>8, <2>9, <2>10
<1> QED
  BY <1>2, <1>3, <1>4, IdCredKinds

\* What is behind the first part.
LEMMA FromCat ==
  ASSUME NEW a \in Seq(Byte), NEW x \in Seq(Byte), NEW n \in Nat, Len(a) = n
  PROVE  From(Cat(a, x), n) = x
<1> DEFINE s == Cat(a, x)
           t == From(s, n)
<1>1. PICK m \in Nat : Len(x) = m
  BY LenProperties
<1>2. s \in Seq(Byte) /\ Len(s) = n + m /\ \A i \in 1..m : s[n + i] = x[i]
  BY <1>1, Parts
<1> HIDE DEF s
<1>3. /\ t \in Seq(Byte) /\ Len(t) = IF n <= n + m THEN (n + m) - n ELSE 0
      /\ \A i \in 1..Len(t) : t[i] = s[n + i]
  BY <1>2, RestIs
<1> HIDE DEF t
<1>4. Len(t) = m
  BY <1>3
<1>5. \A i \in 1..Len(t) : t[i] = x[i]
  BY <1>2, <1>3, <1>4
<1>6. t = x
  BY <1>1, <1>3, <1>4, <1>5, SeqEqual
<1> QED
  BY <1>6 DEF s, t

\* A head of one byte, or of two.
LEMMA ShortHead ==
  ASSUME NEW data \in Seq(Byte), data # <<>>, NEW a \in 0..255, data[1] = a, a % 32 < 24
  PROVE  CborHead(data) = [major |-> a \div 32, width |-> 1, argument |-> a % 32, minimal |-> TRUE]
<1>1. PICK l \in Nat : Len(data) = l /\ 1 <= l
  BY LenProperties, EmptySeq
<1>2. PICK r \in Nat : a % 32 = r /\ r < 24
  OBVIOUS
<1>3. r # 24 /\ r # 25
  BY <1>2
<1>4. HeadWidth(r) = 1
  BY <1>2, <1>3 DEF HeadWidth
<1>5. ~TooShort(data, 1)
  BY <1>1 DEF TooShort
<1>6. CborHead(data) = Head1(data)
  <2>1. CborHead(data) = HeadOf(data, 1)
    BY <1>2, <1>4 DEF CborHead
  <2> QED
    BY <1>5, <2>1, HeadForms
<1> QED
  BY <1>6 DEF Head1

\* The same of a head with a byte behind it.
LEMMA LongHead ==
  ASSUME NEW data \in Seq(Byte), NEW a \in 0..255, data[1] = a, a % 32 = 24,
         NEW l \in Nat, Len(data) = l, 2 <= l
  PROVE  CborHead(data) = [major |-> a \div 32, width |-> 2, argument |-> data[2],
                           minimal |-> data[2] >= 24]
<1>1. data # <<>>
  BY EmptySeq
<1>2. HeadWidth(24) = 2
  BY DEF HeadWidth
<1>3. ~TooShort(data, 2)
  BY DEF TooShort
<1>4. CborHead(data) = Head2(data)
  <2>1. CborHead(data) = HeadOf(data, 2)
    BY <1>1, <1>2 DEF CborHead
  <2>2. 2 # 1
    OBVIOUS
  <2> QED
    BY <1>3, <2>1, HeadForms
<1> QED
  BY <1>4 DEF Head2

\* A byte string of less than 256 bytes: its head and its bytes.
KidHead(n) == IF n <= 23 THEN One(64 + n) ELSE Cat(One(88), One(n))
IsKidHead(front, n) ==
  /\ front \in Seq(Byte) /\ Len(front) = IF n <= 23 THEN 1 ELSE 2
  /\ n <= 23 => front[1] = 64 + n
  /\ ~(n <= 23) => front[1] = 88 /\ front[2] = n

\* append_cbor_bstr puts such a head in front,
LEMMA KidHeadIs ==
  ASSUME NEW kid \in Kids, NEW n \in 0..255, Len(kid) = n
  PROVE  append_cbor_bstr(kid) = Cat(KidHead(n), kid) /\ IsKidHead(KidHead(n), n)
<1>1. CASE n <= 23
  <2>1. PICK b \in Byte : b = 64 + n
    <3>1. 64 + n \in 0..255
      BY <1>1
    <3> QED
      BY <3>1 DEF Byte
  <2>2. KidHead(n) = One(b)
    BY <1>1, <2>1 DEF KidHead
  <2>3. One(b) \in Seq(Byte) /\ Len(One(b)) = 1 /\ One(b)[1] = b
    BY DEF One
  <2>4. append_cbor_bstr(kid) = <<64 + n>> \o kid
    <3>1. ~(n \in 24..255)
      BY <1>1
    <3> QED
      BY <1>1, <3>1 DEF append_cbor_bstr
  <2>5. append_cbor_bstr(kid) = Cat(One(b), kid)
    BY <2>1, <2>4 DEF Cat, One
  <2> QED
    BY <1>1, <2>1, <2>2, <2>3, <2>5 DEF IsKidHead
<1>2. CASE ~(n <= 23)
  <2>1. n \in Byte /\ 88 \in Byte
    BY DEF Byte
  <2>2. KidHead(n) = <<88, n>>
    BY <1>2, <2>1, PairBytes DEF KidHead
  <2>3. <<88, n>> \in Seq(Byte) /\ Len(<<88, n>>) = 2 /\ <<88, n>>[1] = 88 /\ <<88, n>>[2] = n
    BY <2>1
  <2>4. append_cbor_bstr(kid) = <<88, n>> \o kid
    <3>1. n \in 24..255
      BY <1>2
    <3> QED
      BY <1>2, <3>1 DEF append_cbor_bstr
  <2>5. append_cbor_bstr(kid) = Cat(KidHead(n), kid)
    BY <2>2, <2>4 DEF Cat
  <2> HIDE DEF KidHead
  <2> QED
    BY <1>2, <2>2, <2>3, <2>5 DEF IsKidHead
<1> QED
  BY <1>1, <1>2

\* and parse_canonical_bstr reads the string back.
LEMMA KidRead ==
  ASSUME NEW kid \in Kids, NEW n \in 0..255, Len(kid) = n, NEW b, b = append_cbor_bstr(kid)
  PROVE  /\ b \in Seq(Byte) /\ n + 1 <= Len(b)
         /\ parse_canonical_bstr(b) = [value |-> kid, consumed |-> Len(b)]
<1> DEFINE front == KidHead(n)
           h == CborHead(b)
<1>0. kid \in Seq(Byte)
  BY DEF Kids
<1>1. /\ b = Cat(front, kid) /\ front \in Seq(Byte)
      /\ Len(front) = IF n <= 23 THEN 1 ELSE 2
      /\ n <= 23 => front[1] = 64 + n
      /\ ~(n <= 23) => front[1] = 88 /\ front[2] = n
  <2>1. b = Cat(front, kid) /\ IsKidHead(front, n)
    BY KidHeadIs
  <2> HIDE DEF front
  <2> QED
    BY <2>1 DEF IsKidHead
<1> HIDE DEF front
<1>2. PICK w \in 1..2 : Len(front) = w /\ w = IF n <= 23 THEN 1 ELSE 2
  BY <1>1
<1>3. /\ b \in Seq(Byte) /\ Len(b) = w + n
      /\ \A i \in 1..w : b[i] = front[i]
  <2>1. /\ Cat(front, kid) \in Seq(Byte) /\ Len(Cat(front, kid)) = Len(front) + Len(kid)
        /\ \A i \in 1..Len(front) : Cat(front, kid)[i] = front[i]
    BY <1>0, <1>1, Parts
  <2> QED
    BY <1>1, <1>2, <2>1
<1>4. b # <<>>
  BY <1>2, <1>3, EmptySeq
<1>5. b[1] = front[1]
  <2>1. 1 \in 1..w
    OBVIOUS
  <2> QED
    BY <1>3, <2>1
<1>6. h.major = Bstr /\ h.width = w /\ h.argument = n /\ h.minimal
  <2>1. CASE n <= 23
    <3>1. PICK a \in 64..87 : a = 64 + n
      BY <2>1
    <3>2. a % 32 = n /\ a \div 32 = 2 /\ a % 32 < 24
      BY <2>1, <3>1
    <3>3. h = [major |-> a \div 32, width |-> 1, argument |-> a % 32, minimal |-> TRUE]
      <4>1. a \in 0..255 /\ b[1] = a
        BY <1>1, <1>5, <2>1, <3>1
      <4> QED
        BY <1>3, <1>4, <3>2, <4>1, ShortHead
    <3> QED
      BY <1>2, <2>1, <3>2, <3>3 DEF Bstr
  <2>2. CASE ~(n <= 23)
    <3>1. 88 % 32 = 24 /\ 88 \div 32 = 2 /\ 88 \in 0..255
      OBVIOUS
    <3>2. b[1] = 88 /\ b[2] = n
      <4>1. 2 \in 1..w
        BY <1>2, <2>2
      <4> QED
        BY <1>1, <1>3, <1>5, <2>2, <4>1
    <3>3. PICK l \in Nat : Len(b) = l /\ 2 <= l
      BY <1>2, <1>3, <2>2
    <3>4. h = [major |-> 88 \div 32, width |-> 2, argument |-> b[2], minimal |-> b[2] >= 24]
      BY <1>3, <3>1, <3>2, <3>3, LongHead
    <3>5. n >= 24 /\ w = 2
      BY <1>2, <2>2
    <3>6. h.major = 2 /\ h.width = w /\ h.argument = n
      BY <3>1, <3>2, <3>4, <3>5
    <3>7. h.minimal = (b[2] >= 24)
      BY <3>4
    <3>8. h.minimal
      BY <3>2, <3>5, <3>7
    <3> QED
      BY <3>6, <3>8 DEF Bstr
  <2> QED
    BY <2>1, <2>2
<1> HIDE DEF h
<1>7. SubSeq(b, w + 1, w + n) = kid
  <2>1. SubSeq(b, w + 1, w + n) = From(b, w)
    BY <1>3 DEF From
  <2>2. From(Cat(front, kid), w) = kid
    <3>1. front \in Seq(Byte) /\ w \in Nat /\ Len(front) = w
      BY <1>1, <1>2
    <3> QED
      BY <1>0, <3>1, FromCat
  <2> QED
    BY <1>1, <2>1, <2>2
<1>8. BstrOf(b, h) = [value |-> kid, consumed |-> w + n]
  <2>1. Len(b) >= w + n
    BY <1>3
  <2> QED
    BY <1>6, <1>7, <2>1 DEF BstrOf
<1>9. parse_canonical_bstr(b) = BstrOf(b, h)
  BY <1>6 DEF parse_canonical_bstr, CanonicalBstrOf, h
<1>10. n + 1 <= w + n
  OBVIOUS
<1> QED
  BY <1>3, <1>8, <1>9, <1>10

\* The map that stands for a kid is read as a map with that kid.
LEMMA KidMapRead ==
  ASSUME NEW kid \in Kids, ~(Len(KidMap(kid)) > ID_CRED_MAX_LEN)
  PROVE  parse_id_cred(KidMap(kid)) =
           [encoded |-> KidMap(kid), kid |-> kid, x5t |-> Unreadable, consumed |-> Len(KidMap(kid))]
<1> DEFINE b == append_cbor_bstr(kid)
           front == <<161, 4>>
           data == KidMap(kid)
<1>1. PICK n \in Nat : Len(kid) = n
  BY LenProperties DEF Kids
<1>2. front \in Seq(Byte) /\ Len(front) = 2 /\ front[1] = 161 /\ front[2] = 4
  BY DEF Byte
<1>3. data = Cat(front, b)
  BY DEF KidMap, Cat
<1> HIDE DEF front, data
<1>4. n \in 0..255
  <2>1. CASE n <= 255
    BY <2>1
  <2>2. CASE ~(n <= 255)
    <3> DEFINE long == <<89, n \div 256, n % 256>>
    <3>1. n \notin 24..255 /\ ~(n <= 23)
      BY <2>2
    <3>2. b = long \o kid
      BY <1>1, <3>1 DEF append_cbor_bstr
    <3>3. long \in Seq(Nat) /\ kid \in Seq(Nat)
      <4>1. n \div 256 \in Nat /\ n % 256 \in Nat
        OBVIOUS
      <4>2. kid \in Seq(Nat)
        <5>1. kid \in Seq(Byte)
          BY DEF Kids
        <5>2. \A i \in 1..Len(kid) : kid[i] \in Byte
          BY <5>1, ElementOfSeq
        <5>3. Byte \subseteq Nat
          BY DEF Byte
        <5>4. \A i \in 1..Len(kid) : kid[i] \in Nat
          BY <5>2, <5>3
        <5> QED
          BY <5>1, <5>4, SeqDef
      <4> QED
        BY <4>1, <4>2
    <3>4. Len(long) = 3
      OBVIOUS
    <3> HIDE DEF long
    <3>5. b \in Seq(Nat) /\ Len(b) = 3 + n
      <4>1. long \o kid \in Seq(Nat) /\ Len(long \o kid) = Len(long) + Len(kid)
        BY <3>3, ConcatProperties
      <4> QED
        BY <1>1, <3>2, <3>4, <4>1
    <3>6. front \in Seq(Nat) /\ Len(front) = 2
      BY DEF front
    <3> HIDE DEF b
    <3>7. Len(data) = 2 + (3 + n)
      <4>1. Len(front \o b) = Len(front) + Len(b)
        BY <3>5, <3>6, ConcatProperties
      <4> QED
        BY <1>3, <3>5, <3>6, <4>1 DEF Cat
    <3> QED
      BY <2>2, <3>7 DEF ID_CRED_MAX_LEN, data
  <2> QED
    BY <2>1, <2>2
<1>5. /\ b \in Seq(Byte) /\ n + 1 <= Len(b)
      /\ parse_canonical_bstr(b) = [value |-> kid, consumed |-> Len(b)]
  BY <1>1, <1>4, KidRead
<1>6. PICK m \in Nat : Len(b) = m /\ n + 1 <= m
  BY <1>5, LenProperties
<1> HIDE DEF b
<1>7. /\ data \in Seq(Byte) /\ Len(data) = 2 + m
      /\ data[1] = 161 /\ data[2] = 4
  <2>1. /\ Cat(front, b) \in Seq(Byte) /\ Len(Cat(front, b)) = Len(front) + Len(b)
        /\ \A i \in 1..Len(front) : Cat(front, b)[i] = front[i]
    <3>1. front \in Seq(Byte)
      BY <1>2
    <3>2. b \in Seq(Byte)
      BY <1>5
    <3> QED
      BY <3>1, <3>2, Parts
  <2>2. 1 \in 1..2 /\ 2 \in 1..2
    OBVIOUS
  <2> QED
    BY <1>2, <1>3, <1>6, <2>1, <2>2
<1>8. 2 + m <= 64
  BY <1>7 DEF ID_CRED_MAX_LEN, data
<1>9. From(data, 2) = b
  <2>1. front \in Seq(Byte) /\ Len(front) = 2
    BY <1>2
  <2>2. b \in Seq(Byte)
    BY <1>5
  <2>3. From(Cat(front, b), 2) = b
    BY <2>1, <2>2, FromCat
  <2> QED
    BY <1>3, <2>3
<1> DEFINE rest == From(data, 1)
<1>10. rest \in Seq(Byte) /\ rest # <<>> /\ rest[1] = 4
  <2>1. /\ rest \in Seq(Byte) /\ Len(rest) = IF 1 <= 2 + m THEN (2 + m) - 1 ELSE 0
        /\ \A i \in 1..Len(rest) : rest[i] = data[1 + i]
    BY <1>7, RestIs
  <2> HIDE DEF rest
  <2>2. 1 \in 1..Len(rest) /\ 1 + 1 = 2
    BY <2>1
  <2>3. rest[1] = data[1 + 1]
    BY <2>1, <2>2
  <2>4. rest # <<>>
    <3>1. Len(rest) # 0
      BY <2>1
    <3> QED
      BY <2>1, <3>1, EmptySeq
  <2> QED
    BY <1>7, <2>1, <2>2, <2>3, <2>4
<1> HIDE DEF rest
<1>11. try_parse_cbor_int(rest) = [value |-> 4, consumed |-> 1]
  <2>1. 4 \in 0..255 /\ 4 % 32 = 4 /\ 4 \div 32 = 0 /\ 4 < 24
    OBVIOUS
  <2>2. CborHead(rest) = [major |-> 0, width |-> 1, argument |-> 4, minimal |-> TRUE]
    BY <1>10, <2>1, ShortHead
  <2> QED
    BY <2>2 DEF try_parse_cbor_int, IntOf, Uint, Negative
<1> DEFINE kept == [offset |-> 2 + m, labels |-> {4}, kid |-> kid, x5t |-> Unreadable]
<1>12. IdCredPair(data, NothingRead) = kept
  <2> DEFINE t == [offset |-> 2, labels |-> {}, kid |-> Unreadable, x5t |-> Unreadable]
  <2>1. NothingRead.offset = 1 /\ NothingRead.labels = {} /\ NothingRead # Unreadable
    BY MapStart DEF NothingRead
  <2>2. [value |-> 4, consumed |-> 1] # Unreadable
    <3>1. [value |-> 4, consumed |-> 1] \in Reading(Int)
      BY DEF Reading
    <3> QED
      BY <3>1, UnreadableAssumption
  <2>3. IdCredPair(data, NothingRead) = AfterKey(data, NothingRead, 4, 1)
    BY <1>11, <2>1, <2>2 DEF IdCredPair, IntKey, rest
  <2>4. [NothingRead EXCEPT !.offset = @ + 1] = t
    <3> DEFINE z == [offset |-> 1, labels |-> {}, kid |-> Unreadable, x5t |-> Unreadable]
    <3>1. PICK q, p : q = [p EXCEPT !.offset = @ + 1] /\ p = NothingRead
      OBVIOUS
    <3>2. p = z
      BY <3>1 DEF NothingRead
    <3>3. q = t
      BY <3>1, <3>2
    <3> QED
      BY <3>1, <3>3
  <2>5. AfterKey(data, NothingRead, 4, 1) = IdCredValue(b, t, 4)
    <3>1. NothingRead.offset + 1 = 2
      BY <2>1
    <3> QED
      BY <1>9, <2>1, <2>4, <3>1 DEF AfterKey
  <2>6. IdCredValue(b, t, 4) = TakeKid(t, [value |-> kid, consumed |-> m])
    BY <1>5, <1>6 DEF IdCredValue
  <2>7. [value |-> kid, consumed |-> m] # Unreadable
    <3>1. [value |-> kid, consumed |-> m] \in Reading(Kids)
      BY DEF Reading
    <3> QED
      BY <3>1, UnreadableAssumption
  <2>8. ~(Len(kid) > ID_CRED_MAX_LEN)
    BY <1>1, <1>6, <1>8 DEF ID_CRED_MAX_LEN
  <2>9. PICK p : p = Pass(t, 4, m)
    OBVIOUS
  <2> DEFINE u == [offset |-> 2 + m, labels |-> {4}, kid |-> Unreadable, x5t |-> Unreadable]
  <2>10. p = u
    <3>1. m # 0 /\ 4 # Unreadable
      BY <1>4, <1>6, UnreadableAssumption
    <3>2. p = [t EXCEPT !.offset = @ + m, !.labels = @ \cup {4}]
      BY <2>9, <3>1 DEF Pass
    <3>3. {} \cup {4} = {4}
      OBVIOUS
    <3> QED
      BY <3>2, <3>3
  <2>11. PICK q : q = [p EXCEPT !.kid = kid]
    OBVIOUS
  <2>12. q = kept
    BY <2>10, <2>11
  <2>13. TakeKid(t, [value |-> kid, consumed |-> m]) = q
    BY <2>7, <2>8, <2>9, <2>11 DEF TakeKid
  <2> HIDE DEF t, u, kept
  <2> QED
    BY <2>3, <2>5, <2>6, <2>12, <2>13
<1> HIDE DEF kept
<1>13. MapScan(data)[1] = kept
  <2>1. Loop(MapScan(data), MapStates, NothingRead, MapStep(data))
    BY <1>7, MapLoop
  <2>2. MapScan(data)[0] = NothingRead /\ MapScan(data)[0 + 1] = MapStep(data)[MapScan(data)[0]]
    BY <2>1 DEF Loop
  <2>3. MapStep(data)[NothingRead] = IdCredPair(data, NothingRead)
    BY MapStart DEF MapStep
  <2> QED
    BY <1>12, <2>2, <2>3
<1>14. parse_id_cred(data) = WholeMap(data, kept)
  <2>1. OpensMap(data)
    <3>1. data # <<>>
      BY <1>7, EmptySeq
    <3> QED
      BY <1>7, <3>1 DEF OpensMap, ID_CRED_MAX_PARAMETERS
  <2>2. data[1] - 160 = 1
    BY <1>7
  <2> QED
    BY <1>7, <1>13, <2>1, <2>2, IdCredKinds, MapLoop
<1>15. /\ kept # Unreadable /\ kept.kid # Unreadable /\ kept.x5t = Unreadable
       /\ kept.offset = 2 + m /\ kept.kid = kid
  <2>1. kept \in MapState
    BY DEF kept, MapState
  <2>2. kept.kid = kid /\ kept.x5t = Unreadable /\ kept.offset = 2 + m
    BY DEF kept
  <2>3. kid # Unreadable
    BY UnreadableAssumption
  <2> QED
    BY <2>1, <2>2, <2>3, UnreadableAssumption
<1>16. SubSeq(data, 1, 2 + m) = data
  BY <1>7, SubSeqFull
<1>17. ~(2 + m > ID_CRED_MAX_LEN)
  BY <1>8 DEF ID_CRED_MAX_LEN
<1>18. WholeMap(data, kept) = [encoded |-> data, kid |-> kid, x5t |-> Unreadable, consumed |-> 2 + m]
  BY <1>15, <1>16, <1>17 DEF WholeMap
<1> QED
  BY <1>7, <1>14, <1>18 DEF data

\* Whatever the bytes are.
LEMMA IdCredIs ==
  ASSUME NEW data \in Seq(Byte), NEW c, c = parse_id_cred(data), c # Unreadable
  PROVE  /\ c.consumed <= Len(data)
         /\ parse_id_cred(c.encoded) = [c EXCEPT !.consumed = Len(c.encoded)]
         /\ \A tail \in Seq(Byte) : parse_id_cred(SubSeq(data, 1, c.consumed) \o tail) = c
<1> DEFINE front == SubSeq(data, 1, c.consumed)
<1>1. /\ c.consumed \in Nat /\ c.consumed <= Len(data) /\ Described(data, c)
      /\ c = [encoded |-> c.encoded, kid |-> c.kid, x5t |-> c.x5t, consumed |-> c.consumed]
  BY IdCredLocal
<1>2. PICK k \in Nat, n \in Nat : c.consumed = k /\ Len(data) = n /\ k <= n
  BY <1>1, LenProperties
<1>3. /\ front \in Seq(Byte) /\ Len(front) = k
      /\ \A i \in 1..k : front[i] = data[i]
  <2>1. \A i \in 1..k : data[i] \in Byte
    BY <1>2, ElementOfSeq
  <2>2. /\ SubSeq(data, 1, k) \in Seq(Byte)
        /\ Len(SubSeq(data, 1, k)) = IF 1 <= k THEN k - 1 + 1 ELSE 0
        /\ \A i \in 1..(k - 1 + 1) : SubSeq(data, 1, k)[i] = data[1 + i - 1]
    BY <2>1, SubSeqProperties
  <2>3. front = SubSeq(data, 1, k)
    BY <1>2
  <2> HIDE DEF front
  <2>4. ASSUME NEW i \in 1..k PROVE front[i] = data[i]
    <3>1. i \in 1..(k - 1 + 1) /\ 1 + i - 1 = i
      OBVIOUS
    <3> QED
      BY <2>2, <2>3, <3>1
  <2>5. Len(front) = k
    <3>1. (IF 1 <= k THEN k - 1 + 1 ELSE 0) = k
      OBVIOUS
    <3> QED
      BY <2>2, <2>3, <3>1
  <2> QED
    BY <2>2, <2>3, <2>4, <2>5
<1> HIDE DEF front
<1>4. ASSUME NEW tail \in Seq(Byte) PROVE parse_id_cred(front \o tail) = c
  <2> DEFINE other == Cat(front, tail)
  <2>1. /\ other \in Seq(Byte) /\ Len(other) = Len(front) + Len(tail)
        /\ \A i \in 1..Len(front) : other[i] = front[i]
    BY <1>3, Parts
  <2>2. PICK m \in Nat : Len(tail) = m
    BY LenProperties
  <2> HIDE DEF other
  <2>3. Len(other) = k + m /\ k <= k + m
    BY <1>3, <2>1, <2>2
  <2>4. SameUpTo(data, other, k)
    BY <1>2, <1>3, <2>1, <2>3 DEF SameUpTo
  <2>5. parse_id_cred(other) = c
    BY <1>2, <2>1, <2>4, IdCredLocal
  <2> QED
    BY <2>5 DEF other, Cat
<1>5. parse_id_cred(c.encoded) = [c EXCEPT !.consumed = Len(c.encoded)]
  <2>1. CASE c.encoded = front
    <3>1. SameUpTo(data, front, k)
      BY <1>2, <1>3 DEF SameUpTo
    <3>2. parse_id_cred(front) = c
      BY <1>2, <1>3, <3>1, IdCredLocal
    <3>3. Len(c.encoded) = c.consumed
      BY <1>2, <1>3, <2>1
    <3>4. PICK e, a, b : c = [encoded |-> e, kid |-> a, x5t |-> b, consumed |-> k]
      BY <1>1, <1>2
    <3>5. [c EXCEPT !.consumed = k] = c
      BY <3>4
    <3> QED
      BY <1>2, <2>1, <3>2, <3>3, <3>5
  <2>2. ASSUME NEW kid \in Kids, ~(Len(KidMap(kid)) > ID_CRED_MAX_LEN),
               c = [encoded |-> KidMap(kid), kid |-> kid, x5t |-> Unreadable, consumed |-> c.consumed]
        PROVE  parse_id_cred(c.encoded) = [c EXCEPT !.consumed = Len(c.encoded)]
    <3>1. PICK e : e = KidMap(kid)
      OBVIOUS
    <3>2. c = [encoded |-> e, kid |-> kid, x5t |-> Unreadable, consumed |-> k]
      BY <1>2, <2>2, <3>1
    <3>3. parse_id_cred(e) = [encoded |-> e, kid |-> kid, x5t |-> Unreadable, consumed |-> Len(e)]
      BY <2>2, <3>1, KidMapRead
    <3>4. [c EXCEPT !.consumed = Len(e)] =
            [encoded |-> e, kid |-> kid, x5t |-> Unreadable, consumed |-> Len(e)]
      BY <3>2
    <3>5. c.encoded = e
      BY <3>2
    <3> QED
      BY <3>3, <3>4, <3>5
  <2> QED
    BY <1>1, <2>1, <2>2 DEF Described, front
<1> QED
  BY <1>1, <1>4, <1>5 DEF front

\* Both sides put the same map into the transcript, whatever spelling of an ID_CRED
\* was sent, and reading that map again changes nothing; what follows it does not
\* matter.
\* (parse_id_cred, IdCred::encoded)
THEOREM IdCredsAlwaysCanonical == Spec => []IdCredCanonical
<1>1. Inputs => IdCredCanonical
  <2>1. SUFFICES ASSUME Inputs, codec = "id_cred", Accepted(first)
                 PROVE  LET c == parse_id_cred(first)
                        IN /\ c.consumed <= Len(first)
                           /\ parse_id_cred(c.encoded) = [c EXCEPT !.consumed = Len(c.encoded)]
                           /\ \A tail \in {<<>>, <<4>>, <<88, 48>>, <<161>>} :
                                parse_id_cred(SubSeq(first, 1, c.consumed) \o tail) = c
    BY DEF IdCredCanonical
  <2>2. first \in Seq(Byte) /\ parse_id_cred(first) # Unreadable
    BY <2>1 DEF Inputs, ByteStrings, Accepted
  <2>3. {<<>>, <<4>>, <<88, 48>>, <<161>>} \subseteq Seq(Byte)
    BY DEF Byte
  <2>4. PICK c : c = parse_id_cred(first)
    OBVIOUS
  <2>5. /\ c.consumed <= Len(first)
        /\ parse_id_cred(c.encoded) = [c EXCEPT !.consumed = Len(c.encoded)]
        /\ \A tail \in Seq(Byte) : parse_id_cred(SubSeq(first, 1, c.consumed) \o tail) = c
    BY <2>2, <2>4, IdCredIs
  <2>6. \A tail \in {<<>>, <<4>>, <<88, 48>>, <<161>>} :
          parse_id_cred(SubSeq(first, 1, c.consumed) \o tail) = c
    BY <2>3, <2>5
  <2> QED
    BY <2>4, <2>5, <2>6, Zenon
<1> QED
  BY <1>1, InputsHold, PTL

-----------------------------------------------------------------------------
\* Lists of cipher suites.

SuiteNames == Byte \cup {Wide}
Named(suite) == IF suite = Wide THEN Unreadable ELSE suite

\* A byte is no refusal, and no suite that takes more than one.
LEMMA BytesReadable == \A b \in Byte : b # Unreadable /\ b # Wide
  BY UnreadableAssumption DEF Byte, Wide

\* What the first byte of an element says of its length.
LEMMA SuiteBytesAre ==
  /\ \A a \in 0..23 \cup 32..55 : SuiteBytes(a) = 1
  /\ SuiteBytes(24) = 2 /\ SuiteBytes(56) = 2
  /\ SuiteBytes(25) = 3 /\ SuiteBytes(57) = 3
  /\ SuiteBytes(26) = 5 /\ SuiteBytes(58) = 5
  /\ SuiteBytes(27) = 9 /\ SuiteBytes(59) = 9
<1>1. ASSUME NEW a \in 0..23 \cup 32..55 PROVE SuiteBytes(a) = 1
  <2>1. a < 64 /\ a % 32 < 24 /\ ~(a >= 64)
    OBVIOUS
  <2>2. ~(a % 32 \in 24..27)
    BY <2>1
  <2> QED
    BY <2>1, <2>2 DEF SuiteBytes
<1>2. ASSUME NEW a \in {24, 25, 26, 27, 56, 57, 58, 59}
      PROVE  SuiteBytes(a) = <<2, 3, 5, 9>>[(a % 32) - 23]
  <2>1. a < 64 /\ ~(a >= 64) /\ a % 32 \in 24..27 /\ ~(a % 32 < 24)
    OBVIOUS
  <2> QED
    BY <2>1 DEF SuiteBytes
<1>3. /\ (24 % 32) - 23 = 1 /\ (25 % 32) - 23 = 2 /\ (26 % 32) - 23 = 3 /\ (27 % 32) - 23 = 4
      /\ (56 % 32) - 23 = 1 /\ (57 % 32) - 23 = 2 /\ (58 % 32) - 23 = 3 /\ (59 % 32) - 23 = 4
  OBVIOUS
<1>4. /\ <<2, 3, 5, 9>>[1] = 2 /\ <<2, 3, 5, 9>>[2] = 3 /\ <<2, 3, 5, 9>>[3] = 5
      /\ <<2, 3, 5, 9>>[4] = 9
  OBVIOUS
<1>5. SuiteBytes(24) = 2 /\ SuiteBytes(25) = 3 /\ SuiteBytes(26) = 5 /\ SuiteBytes(27) = 9
  <2>1. \A a \in {24, 25, 26, 27} : SuiteBytes(a) = <<2, 3, 5, 9>>[(a % 32) - 23]
    BY <1>2
  <2> QED
    BY <1>3, <1>4, <2>1
<1>6. SuiteBytes(56) = 2 /\ SuiteBytes(57) = 3 /\ SuiteBytes(58) = 5 /\ SuiteBytes(59) = 9
  <2>1. \A a \in {56, 57, 58, 59} : SuiteBytes(a) = <<2, 3, 5, 9>>[(a % 32) - 23]
    BY <1>2
  <2> QED
    BY <1>3, <1>4, <2>1
<1> QED
  BY <1>1, <1>5, <1>6

\* An element is its first byte and those that this byte announces.
LEMMA ElementIs ==
  ASSUME NEW bytes, NEW suite, EncodesSuite(bytes, suite)
  PROVE  /\ bytes \in Seq(Byte) /\ suite \in SuiteNames
         /\ \E a \in Byte, k \in Nat \ {0} :
              /\ Len(bytes) = k /\ bytes[1] = a /\ SuiteBytes(a) = k
              /\ suite # Wide => \/ a < 24 /\ suite = a /\ k = 1
                                 \/ a = 24 /\ k = 2 /\ bytes[2] = suite
              /\ suite = Wide => ~(a < 24) /\ a # 24
<1>1. bytes \in Seq(Byte)
  BY DEF EncodesSuite
<1>2. PICK k \in Nat : Len(bytes) = k
  BY <1>1, LenProperties
<1>3. ASSUME NEW i \in 1..k PROVE bytes[i] \in Byte
  BY <1>1, <1>2, ElementOfSeq
<1>4. CASE bytes = <<suite>> /\ suite < 24
  <2>1. k = 1 /\ bytes[1] = suite
    BY <1>2, <1>4
  <2>2. suite \in Byte
    <3>1. 1 \in 1..k
      BY <2>1
    <3> QED
      BY <1>3, <2>1, <3>1
  <2>3. suite \in 0..23
    BY <1>4, <2>2 DEF Byte
  <2>4. SuiteBytes(suite) = 1 /\ suite # Wide /\ suite \in SuiteNames
    BY <2>2, <2>3, SuiteBytesAre, BytesReadable DEF SuiteNames
  <2> QED
    BY <1>1, <1>2, <1>4, <2>1, <2>2, <2>4
<1>5. CASE bytes = <<24, suite>>
  <2>1. k = 2 /\ bytes[1] = 24 /\ bytes[2] = suite
    BY <1>2, <1>5
  <2>2. suite \in Byte
    <3>1. 2 \in 1..k
      BY <2>1
    <3> QED
      BY <1>3, <2>1, <3>1
  <2>3. suite # Wide /\ suite \in SuiteNames
    BY <2>2, BytesReadable DEF SuiteNames
  <2>4. 24 \in Byte
    BY DEF Byte
  <2> QED
    BY <1>1, <1>2, <2>1, <2>3, <2>4, SuiteBytesAre
<1>6. CASE /\ suite = Wide
           /\ \/ Len(bytes) = 1 /\ bytes[1] \in 32..55
              \/ Len(bytes) = 2 /\ bytes[1] = 56
              \/ Len(bytes) = 3 /\ bytes[1] \in {25, 57}
              \/ Len(bytes) = 5 /\ bytes[1] \in {26, 58}
              \/ Len(bytes) = 9 /\ bytes[1] \in {27, 59}
  <2>1. PICK a \in Byte : bytes[1] = a
    <3>1. 1 \in 1..k
      BY <1>2, <1>6
    <3> QED
      BY <1>3, <3>1
  <2>2. k \in {1, 2, 3, 5, 9}
    BY <1>2, <1>6
  <2>3. SuiteBytes(a) = k
    BY <1>2, <1>6, <2>1, SuiteBytesAre
  <2>4. ~(a < 24) /\ a # 24
    BY <1>6, <2>1
  <2>5. suite \in SuiteNames
    BY <1>6 DEF SuiteNames
  <2>6. k \in Nat \ {0}
    BY <2>2
  <2> QED
    BY <1>1, <1>2, <1>6, <2>1, <2>3, <2>4, <2>5, <2>6
<1> QED
  BY <1>4, <1>5, <1>6 DEF EncodesSuite

\* An element at the front of what is left of a list.
LEMMA ElementRead ==
  ASSUME NEW bytes, NEW suite, EncodesSuite(bytes, suite), NEW tail \in Seq(Byte),
         NEW k \in Nat, Len(bytes) = k
  PROVE  k # 0 /\ SuiteWidth(Cat(bytes, tail)) = k /\ SuiteOf(Cat(bytes, tail)) = Named(suite)
<1> DEFINE rest == Cat(bytes, tail)
<1>1. bytes \in Seq(Byte) /\ suite \in SuiteNames
  BY ElementIs
<1>2. PICK a \in Byte : 
        /\ k # 0 /\ bytes[1] = a /\ SuiteBytes(a) = k
        /\ suite # Wide => \/ a < 24 /\ suite = a /\ k = 1
                           \/ a = 24 /\ k = 2 /\ bytes[2] = suite
        /\ suite = Wide => ~(a < 24) /\ a # 24
  BY ElementIs
<1>3. PICK m \in Nat : Len(tail) = m
  BY LenProperties
<1>4. rest \in Seq(Byte) /\ Len(rest) = k + m /\ \A i \in 1..k : rest[i] = bytes[i]
  <2>1. /\ rest \in Seq(Byte) /\ Len(rest) = Len(bytes) + Len(tail)
        /\ \A i \in 1..Len(bytes) : rest[i] = bytes[i]
    BY <1>1, Parts
  <2> HIDE DEF rest
  <2> QED
    BY <1>3, <2>1
<1> HIDE DEF rest
<1>5. rest[1] = a /\ rest # <<>>
  <2>1. 1 \in 1..k /\ k + m # 0
    BY <1>2
  <2> QED
    BY <1>2, <1>4, <2>1, EmptySeq
<1>6. SuiteWidth(rest) = k
  <2>1. ~(k > k + m)
    OBVIOUS
  <2> QED
    BY <1>2, <1>4, <1>5, <2>1 DEF SuiteWidth
<1>7. a < 24 => a # 24
  BY DEF Byte
<1>8. SuiteOf(rest) = CASE a < 24 -> a [] a = 24 -> rest[2] [] OTHER -> Unreadable
  BY <1>5, Zenon DEF SuiteOf
<1>9. CASE suite = Wide
  <2>1. SuiteOf(rest) = Unreadable
    BY <1>2, <1>8, <1>9, Zenon
  <2> QED
    BY <1>2, <1>6, <1>9, <2>1 DEF Named, rest
<1>10. CASE suite # Wide
  <2>1. Named(suite) = suite
    BY <1>10 DEF Named
  <2>2. CASE a < 24 /\ suite = a /\ k = 1
    <3>1. SuiteOf(rest) = a
      BY <1>7, <1>8, <2>2, Zenon
    <3> QED
      BY <1>2, <1>6, <2>1, <2>2, <3>1 DEF rest
  <2>3. CASE a = 24 /\ k = 2 /\ bytes[2] = suite
    <3>1. SuiteOf(rest) = rest[2]
      BY <1>7, <1>8, <2>3, Zenon
    <3>2. rest[2] = suite
      <4>1. 2 \in 1..k
        BY <2>3
      <4> QED
        BY <1>4, <2>3, <4>1
    <3> QED
      BY <1>2, <1>6, <2>1, <3>1, <3>2 DEF rest
  <2> QED
    BY <1>2, <1>10, <2>2, <2>3
<1> QED
  BY <1>9, <1>10

\* What an element is made of is bytes.
LEMMA SuiteTyped ==
  ASSUME NEW data \in Seq(Byte)
  PROVE  /\ SuiteWidth(data) \in Nat
         /\ SuiteWidth(data) # 0 => SuiteOf(data) \in Byte \cup {Unreadable}
<1>1. CASE data = <<>>
  BY <1>1 DEF SuiteWidth
<1>2. CASE data # <<>>
  <2>1. PICK l \in Nat : Len(data) = l /\ 1 <= l
    BY <1>2, LenProperties, EmptySeq
  <2>2. \A i \in 1..l : data[i] \in Byte
    BY <2>1, ElementOfSeq
  <2>3. PICK a \in Byte : data[1] = a
    <3>1. 1 \in 1..l
      BY <2>1
    <3> QED
      BY <2>2, <3>1
  <2>4. SuiteBytes(a) \in Nat
    <3>1. CASE a \in 0..23 \cup 32..55
      <4>1. SuiteBytes(a) = 1
        BY <3>1, SuiteBytesAre, Zenon
      <4> QED
        BY <4>1
    <3>2. CASE a \in 24..27 \cup 56..59
      <4>1. a \in {24, 25, 26, 27, 56, 57, 58, 59}
        BY <3>2
      <4>2. SuiteBytes(a) \in {2, 3, 5, 9}
        BY <4>1, SuiteBytesAre, Zenon
      <4> QED
        BY <4>2
    <3>3. CASE a >= 64
      <4>1. ~(a < 64 /\ a % 32 < 24) /\ ~(a < 64 /\ a % 32 \in 24..27)
        BY <3>3 DEF Byte
      <4>2. SuiteBytes(a) = 0
        BY <3>3, <4>1, Zenon DEF SuiteBytes
      <4> QED
        BY <4>2
    <3>4. CASE a \in 28..31 \cup 60..63
      <4>1. ~(a >= 64) /\ ~(a % 32 < 24) /\ ~(a % 32 \in 24..27)
        BY <3>4
      <4>2. SuiteBytes(a) = 0
        BY <4>1, Zenon DEF SuiteBytes
      <4> QED
        BY <4>2
    <3> QED
      BY <3>1, <3>2, <3>3, <3>4 DEF Byte
  <2>5. SuiteWidth(data) = IF SuiteBytes(a) > l THEN 0 ELSE SuiteBytes(a)
    BY <1>2, <2>1, <2>3 DEF SuiteWidth
  <2>6. ASSUME SuiteWidth(data) # 0 PROVE SuiteOf(data) \in Byte \cup {Unreadable}
    <3>1. SuiteOf(data) = CASE a < 24 -> a [] a = 24 -> data[2] [] OTHER -> Unreadable
      BY <2>3, Zenon DEF SuiteOf
    <3>2. a = 24 => data[2] \in Byte /\ ~(a < 24)
      <4>1. SUFFICES ASSUME a = 24 PROVE data[2] \in Byte /\ ~(a < 24)
        OBVIOUS
      <4>2. 2 <= l
        BY <2>1, <2>5, <2>6, <4>1, SuiteBytesAre
      <4>3. 2 \in 1..l
        BY <2>1, <4>2
      <4> QED
        BY <2>2, <4>1, <4>3
    <3>3. a < 24 => a # 24
      BY DEF Byte
    <3> QED
      BY <3>1, <3>2, <3>3, Zenon
  <2> QED
    BY <2>4, <2>5, <2>6
<1> QED
  BY <1>1, <1>2

\* The loop over a list.
SuiteStates == SuiteState \cup {Unreadable}
SuiteStart(width) == [offset |-> width, selected |-> Unreadable]
SuiteStep(data) == [s \in SuiteStates |-> NextSuite(data, s)]
SuiteScan(data, width) ==
  CHOOSE read : read = [i \in Nat |-> IF i = 0 THEN [offset |-> width, selected |-> Unreadable]
                                      ELSE NextSuite(data, read[i - 1])]

\* An element leads from what can be read to what can be read.
LEMMA SuiteStepTyped ==
  ASSUME NEW data \in Seq(Byte)
  PROVE  SuiteStep(data) \in [SuiteStates -> SuiteStates]
<1>1. ASSUME NEW s \in SuiteState PROVE NextSuite(data, s) \in SuiteStates
  <2>1. PICK o \in Nat, c \in Byte \cup {Unreadable} : s = [offset |-> o, selected |-> c]
    BY DEF SuiteState
  <2>2. s # Unreadable /\ s.offset = o /\ s.selected = c
    BY <2>1, UnreadableAssumption
  <2>3. PICK rest \in Seq(Byte) : rest = From(data, o)
    BY RestIs
  <2>4. NextSuite(data, s) = SuiteItem(s, rest)
    BY <2>2, <2>3 DEF NextSuite
  <2>5. PICK w \in Nat : SuiteWidth(rest) = w
    BY SuiteTyped
  <2>6. CASE w = 0
    BY <2>4, <2>5, <2>6 DEF SuiteItem, SuiteStates
  <2>7. CASE w # 0
    <3>1. PICK e \in Byte \cup {Unreadable} : e = IF c = Unreadable THEN SuiteOf(rest) ELSE c
      BY <2>5, <2>7, SuiteTyped
    <3>2. SuiteItem(s, rest) = [offset |-> o + w, selected |-> e]
      BY <2>2, <2>5, <2>7, <3>1 DEF SuiteItem
    <3>3. [offset |-> o + w, selected |-> e] \in SuiteState
      BY DEF SuiteState
    <3> QED
      BY <2>4, <3>2, <3>3 DEF SuiteStates
  <2> QED
    BY <2>6, <2>7
<1>2. NextSuite(data, Unreadable) \in SuiteStates
  BY DEF NextSuite, SuiteStates
<1>3. \A s \in SuiteStates : NextSuite(data, s) \in SuiteStates
  BY <1>1, <1>2 DEF SuiteStates
<1> QED
  BY <1>3 DEF SuiteStep

\* The loop is the one SuiteArray is written as.
LEMMA SuiteLoop ==
  ASSUME NEW data \in Seq(Byte), NEW width \in Nat
  PROVE  /\ Loop(SuiteScan(data, width), SuiteStates, SuiteStart(width), SuiteStep(data))
         /\ \A n : SuiteArray(data, width, n) = SuiteScan(data, width)[n]
<1> DEFINE V == SuiteStates
           step == SuiteStep(data)
           start == SuiteStart(width)
<1>1. step \in [V -> V] /\ start \in V
  <2>1. start \in SuiteState
    BY DEF SuiteStart, SuiteState
  <2> QED
    BY <2>1, SuiteStepTyped DEF SuiteStates
<1>2. \A s \in V : step[s] = NextSuite(data, s)
  BY DEF SuiteStep
<1>0. start = [offset |-> width, selected |-> Unreadable]
  BY DEF SuiteStart
<1> HIDE DEF V, step, start
<1>3. PICK f : Loop(f, V, start, step)
  BY <1>1, LoopExists
<1>4. ASSUME NEW i \in Nat
      PROVE  f[i] = IF i = 0 THEN start ELSE NextSuite(data, f[i - 1])
  <2>1. CASE i = 0
    BY <1>3, <2>1 DEF Loop
  <2>2. CASE i # 0
    <3>1. i - 1 \in Nat /\ (i - 1) + 1 = i
      BY <2>2
    <3>2. f[i - 1] \in V /\ f[i] = step[f[i - 1]]
      BY <1>3, <3>1 DEF Loop
    <3> QED
      BY <1>2, <2>2, <3>2
  <2> QED
    BY <2>1, <2>2
<1>5. f = [i \in Nat |-> f[i]]
  BY <1>3 DEF Loop
<1>6. f = [i \in Nat |-> IF i = 0 THEN [offset |-> width, selected |-> Unreadable]
                         ELSE NextSuite(data, f[i - 1])]
  BY <1>0, <1>4, <1>5, Zenon
<1> DEFINE g == SuiteScan(data, width)
<1>7. g = [i \in Nat |-> IF i = 0 THEN [offset |-> width, selected |-> Unreadable]
                         ELSE NextSuite(data, g[i - 1])]
  BY <1>6, Zenon DEF SuiteScan
<1>8. \A n : SuiteArray(data, width, n) = g[n]
  BY Zenon DEF SuiteArray, SuiteScan
<1> HIDE DEF g
<1>9. /\ g = [i \in Nat |-> g[i]] /\ g[0] = start
      /\ \A i \in Nat : i # 0 => g[i] = NextSuite(data, g[i - 1])
  BY <1>0, <1>7, Zenon
<1>10. Loop(g, V, start, step)
  <2>1. \A i \in Nat : i # 0 /\ g[i - 1] \in V => g[i] = step[g[i - 1]]
    BY <1>2, <1>9
  <2> QED
    BY <1>1, <1>9, <2>1, LoopIs
<1> QED
  BY <1>8, <1>10 DEF g, V, step, start

\* Behind a head, the loop has read a list of n elements.
ScannedTo(front, list, tail, n, selected) ==
  SuiteScan(Cat(front, Cat(list, tail)), Len(front))[n] =
    [offset |-> Len(front) + Len(list), selected |-> selected]
Preferred(selected, suite) == IF selected = Unreadable THEN Named(suite) ELSE selected

\* One element further.
LEMMA SuiteElement ==
  ASSUME NEW front \in Seq(Byte), NEW list \in Seq(Byte), NEW tail \in Seq(Byte),
         NEW bytes, NEW suite, EncodesSuite(bytes, suite),
         NEW n \in Nat, NEW selected \in Byte \cup {Unreadable},
         ScannedTo(front, list, Cat(bytes, tail), n, selected)
  PROVE  ScannedTo(front, Cat(list, bytes), tail, n + 1, Preferred(selected, suite))
<1>0. PICK w \in Nat, m \in Nat, k \in Nat : Len(front) = w /\ Len(list) = m /\ Len(bytes) = k
  BY ElementIs, LenProperties
<1>1. bytes \in Seq(Byte)
  BY ElementIs
<1> DEFINE rest == Cat(bytes, tail)
           before == Cat(front, list)
           data == Cat(before, rest)
           s == [offset |-> w + m, selected |-> selected]
<1>2. rest \in Seq(Byte) /\ before \in Seq(Byte)
  BY <1>1, CatBytes
<1>3. /\ Cat(front, Cat(Cat(list, bytes), tail)) = data
      /\ Cat(front, Cat(list, Cat(bytes, tail))) = data
  <2>1. Cat(Cat(list, bytes), tail) = Cat(list, rest)
    BY <1>1, CatRegroup
  <2>2. Cat(before, rest) = Cat(front, Cat(list, rest))
    BY <1>2, CatRegroup
  <2> QED
    BY <2>1, <2>2
<1>4. Len(before) = w + m
  <2>1. Len(Cat(front, list)) = Len(front) + Len(list)
    BY Parts
  <2> QED
    BY <1>0, <2>1
<1>5. k # 0 /\ SuiteWidth(rest) = k /\ SuiteOf(rest) = Named(suite)
  BY <1>0, ElementRead
<1> HIDE DEF rest, before
<1>6. data \in Seq(Byte)
  BY <1>2, CatBytes
<1>7. PICK o \in Nat : o = w + m
  OBVIOUS
<1>8. From(data, o) = rest
  BY <1>2, <1>4, <1>7, FromCat
<1> HIDE DEF data
<1>9. s = [offset |-> o, selected |-> selected] /\ s \in SuiteState
  <2>1. s = [offset |-> o, selected |-> selected]
    BY <1>7
  <2>2. [offset |-> o, selected |-> selected] \in SuiteState
    BY DEF SuiteState
  <2> QED
    BY <2>1, <2>2
<1>10. SuiteScan(data, w)[n] = s
  BY <1>0, <1>3 DEF ScannedTo
<1> HIDE DEF s
<1>11. s.offset = o /\ s.selected = selected /\ s # Unreadable
  BY <1>9, UnreadableAssumption
<1>12. NextSuite(data, s) = SuiteItem(s, rest)
  BY <1>8, <1>11 DEF NextSuite
<1>13. SuiteItem(s, rest) =
         [offset |-> o + k, selected |-> IF selected = Unreadable THEN Named(suite) ELSE selected]
  BY <1>5, <1>11 DEF SuiteItem
<1>14. SuiteScan(data, w)[n + 1] = NextSuite(data, s)
  <2>1. Loop(SuiteScan(data, w), SuiteStates, SuiteStart(w), SuiteStep(data))
    BY <1>6, SuiteLoop
  <2>2. SuiteScan(data, w)[n + 1] = SuiteStep(data)[s]
    BY <1>10, <2>1 DEF Loop
  <2>3. SuiteStep(data)[s] = NextSuite(data, s)
    BY <1>9 DEF SuiteStep, SuiteStates
  <2> QED
    BY <2>2, <2>3
<1>15. Len(Cat(list, bytes)) = m + k
  BY <1>0, <1>1, Parts
<1>16. SuiteScan(Cat(front, Cat(Cat(list, bytes), tail)), w)[n + 1] =
         [offset |-> w + (m + k), selected |-> Preferred(selected, suite)]
  <2>1. o + k = w + (m + k)
    BY <1>7
  <2> QED
    BY <1>3, <1>12, <1>13, <1>14, <2>1 DEF Preferred
<1> QED
  BY <1>0, <1>15, <1>16 DEF ScannedTo

-----------------------------------------------------------------------------
\* What the loop over a list selects: the first of the suites that a byte holds.
Selection(suites) ==
  LET named == {i \in DOMAIN suites : suites[i] # Wide}
  IN IF named = {} THEN Unreadable
     ELSE suites[CHOOSE i \in named : \A j \in named : i <= j]

\* It is one of them, and no earlier one is.
IsSelection(suites, n, c) ==
  \/ (\A i \in 1..n : suites[i] = Wide) /\ c = Unreadable
  \/ \E i \in 1..n : /\ suites[i] # Wide /\ c = suites[i]
                     /\ \A j \in 1..n : suites[j] # Wide => i <= j

\* The choice is unique: it is the least index.
LEMMA SelectionIs ==
  ASSUME NEW suites \in Seq(SuiteNames), NEW n \in Nat, Len(suites) = n
  PROVE  IsSelection(suites, n, Selection(suites))
<1> DEFINE named == {i \in 1..n : suites[i] # Wide}
<1>1. DOMAIN suites = 1..n
  BY LenProperties
<1>2. Selection(suites) = IF named = {} THEN Unreadable
                          ELSE suites[CHOOSE i \in named : \A j \in named : i <= j]
  BY <1>1 DEF Selection
<1>3. CASE named = {}
  BY <1>2, <1>3 DEF IsSelection
<1>4. CASE named # {}
  <2>1. named \subseteq Nat
    OBVIOUS
  <2> DEFINE i == CHOOSE i \in named : \A j \in named : i <= j
  <2>2. i \in named /\ \A j \in named : i <= j
    <3> HIDE DEF named
    <3>1. \E k \in named : \A j \in named : k <= j
      BY <1>4, <2>1, Least
    <3> QED
      BY <3>1, Zenon
  <2>3. Selection(suites) = suites[i]
    BY <1>2, <1>4
  <2> HIDE DEF i
  <2> QED
    BY <2>2, <2>3 DEF IsSelection
<1> QED
  BY <1>3, <1>4

\* What is selected is a byte.
LEMMA SelectionTyped ==
  ASSUME NEW suites \in Seq(SuiteNames)
  PROVE  Selection(suites) \in Byte \cup {Unreadable}
<1>1. PICK n \in Nat : Len(suites) = n
  BY LenProperties
<1>2. \A i \in 1..n : suites[i] \in SuiteNames
  BY <1>1, ElementOfSeq
<1> QED
  BY <1>1, <1>2, SelectionIs DEF IsSelection, SuiteNames

\* A longer list keeps the selection of the shorter one, if that has one.
LEMMA SelectionAppend ==
  ASSUME NEW suites \in Seq(SuiteNames), NEW suite \in SuiteNames
  PROVE  Selection(Append(suites, suite)) =
           Preferred(Selection(suites), suite)
<1> DEFINE all == Append(suites, suite)
           c == Selection(suites)
           d == Selection(all)
<1>1. PICK n \in Nat : Len(suites) = n
  BY LenProperties
<1>2. /\ all \in Seq(SuiteNames) /\ Len(all) = n + 1 /\ all[n + 1] = suite
      /\ \A i \in 1..n : all[i] = suites[i]
  BY <1>1, AppendProperties
<1>3. IsSelection(suites, n, c)
  BY <1>1, SelectionIs
<1> HIDE DEF all, c
<1>4. IsSelection(all, n + 1, d)
  BY <1>2, SelectionIs
<1> HIDE DEF d
<1>5. \A i \in 1..n : suites[i] # Wide => suites[i] # Unreadable
  <2>1. \A i \in 1..n : suites[i] \in SuiteNames
    BY <1>1, ElementOfSeq
  <2> QED
    BY <2>1, BytesReadable DEF SuiteNames
<1>6. n + 1 \in 1..(n + 1) /\ \A i \in 1..n : i \in 1..(n + 1) /\ ~(n + 1 <= i)
  OBVIOUS
<1>7. \A i \in 1..(n + 1) : i = n + 1 \/ i \in 1..n
  OBVIOUS
<1>8. CASE (\A i \in 1..n : suites[i] = Wide) /\ c = Unreadable
  <2>1. \A i \in 1..n : all[i] = Wide
    BY <1>2, <1>8
  <2>2. CASE suite = Wide
    <3>1. \A i \in 1..(n + 1) : all[i] = Wide
      BY <1>2, <1>7, <2>1, <2>2
    <3>2. d = Unreadable
      BY <1>4, <3>1 DEF IsSelection
    <3> QED
      BY <1>8, <2>2, <3>2 DEF Named, Preferred, all, c, d
  <2>3. CASE suite # Wide
    <3>1. PICK i \in 1..(n + 1) : all[i] # Wide /\ d = all[i]
      BY <1>2, <1>4, <1>6, <2>3 DEF IsSelection
    <3>2. i = n + 1
      BY <1>7, <2>1, <3>1
    <3>3. d = suite
      BY <1>2, <3>1, <3>2
    <3> QED
      BY <1>8, <2>3, <3>3 DEF Named, Preferred, all, c, d
  <2> QED
    BY <2>2, <2>3
<1>9. ASSUME NEW i \in 1..n, suites[i] # Wide, c = suites[i],
             \A j \in 1..n : suites[j] # Wide => i <= j
      PROVE  d = c /\ c # Unreadable
  <2>1. PICK j \in 1..(n + 1) :
          all[j] # Wide /\ d = all[j] /\ \A k \in 1..(n + 1) : all[k] # Wide => j <= k
    BY <1>2, <1>4, <1>6, <1>9 DEF IsSelection
  <2>2. j <= i
    BY <1>2, <1>6, <1>9, <2>1
  <2>3. j \in 1..n
    BY <2>2
  <2>4. i <= j
    BY <1>2, <1>9, <2>1, <2>3
  <2>5. i = j
    BY <2>2, <2>4
  <2> QED
    BY <1>2, <1>5, <1>9, <2>1, <2>5
<1>10. ASSUME d = c, c # Unreadable
       PROVE  d = Preferred(c, suite)
  BY <1>10 DEF Preferred
<1>11. CASE \E i \in 1..n : /\ suites[i] # Wide /\ c = suites[i]
                            /\ \A j \in 1..n : suites[j] # Wide => i <= j
  BY <1>9, <1>10, <1>11 DEF all, c, d
<1> QED
  BY <1>3, <1>8, <1>11 DEF IsSelection

\* What the loop makes of the suites put together so far, whatever is in front
\* of them and behind: it has read them all, and selected the first of those
\* that a byte holds.
ListRead(list, n, selected) ==
  \A front \in Seq(Byte), tail \in Seq(Byte) : ScannedTo(front, list, tail, n, selected)
ListOf(list, suites) ==
  /\ list \in Seq(Byte) /\ suites \in Seq(SuiteNames) /\ Len(suites) <= 23
  /\ suites = <<>> => list = <<>>
  /\ Len(suites) = 1 => EncodesSuite(list, suites[1])
  /\ ListRead(list, Len(suites), Selection(suites))
SuiteInputs == codec = "suites" => ListOf(first, second)

\* It holds of no list,
LEMMA InitSuites == Init => SuiteInputs
<1> SUFFICES ASSUME Init PROVE SuiteInputs
  OBVIOUS
<1>1. first = <<>> /\ second = <<>> /\ Len(<<>>) = 0
  BY DEF Init
<1>2. <<>> \in Seq(Byte) /\ <<>> \in Seq(SuiteNames) /\ 0 <= 23 /\ 0 # 1
  OBVIOUS
<1>3. Selection(<<>>) = Unreadable
  <2>1. IsSelection(<<>>, 0, Selection(<<>>))
    BY <1>1, <1>2, SelectionIs
  <2>2. \A i \in 1..0 : FALSE
    OBVIOUS
  <2> QED
    BY <2>1, <2>2 DEF IsSelection
<1>4. ASSUME NEW front \in Seq(Byte), NEW tail \in Seq(Byte)
      PROVE  ScannedTo(front, <<>>, tail, 0, Unreadable)
  <2>1. PICK w \in Nat : Len(front) = w
    BY LenProperties
  <2>2. PICK data \in Seq(Byte) : data = Cat(front, Cat(<<>>, tail))
    <3>1. Cat(<<>>, tail) \in Seq(Byte)
      BY <1>2, CatBytes
    <3> QED
      BY <3>1, CatBytes
  <2>3. SuiteScan(data, w)[0] = SuiteStart(w)
    <3>1. Loop(SuiteScan(data, w), SuiteStates, SuiteStart(w), SuiteStep(data))
      BY SuiteLoop
    <3> QED
      BY <3>1 DEF Loop
  <2>4. SuiteStart(w) = [offset |-> w + 0, selected |-> Unreadable]
    <3>1. w + 0 = w
      OBVIOUS
    <3> QED
      BY <3>1 DEF SuiteStart
  <2> QED
    BY <1>1, <2>1, <2>2, <2>3, <2>4 DEF ScannedTo
<1>5. ListRead(<<>>, 0, Unreadable)
  BY <1>1, <1>4 DEF ListRead
<1> QED
  BY <1>1, <1>2, <1>3, <1>5 DEF SuiteInputs, ListOf

\* of a list and one element more,
LEMMA LongerList ==
  ASSUME NEW list, NEW suites, ListOf(list, suites), NEW n \in Nat, Len(suites) = n, n < 23,
         NEW bytes, NEW suite, EncodesSuite(bytes, suite)
  PROVE  ListOf(Cat(list, bytes), Append(suites, suite))
<1> DEFINE whole == Cat(list, bytes)
           all == Append(suites, suite)
<1>1. bytes \in Seq(Byte) /\ suite \in SuiteNames
  BY ElementIs
<1>2. list \in Seq(Byte) /\ suites \in Seq(SuiteNames) /\ (suites = <<>> => list = <<>>)
  BY DEF ListOf
<1>3. PICK m \in Nat, k \in Nat : Len(list) = m /\ Len(bytes) = k
  BY <1>1, <1>2, LenProperties
<1>4. whole \in Seq(Byte) /\ Len(whole) = m + k
  BY <1>1, <1>2, <1>3, Parts
<1>5. all \in Seq(SuiteNames) /\ Len(all) = n + 1 /\ all # <<>> /\ all[n + 1] = suite
  BY <1>1, <1>2, AppendProperties
<1>6. PICK c \in Byte \cup {Unreadable} : c = Selection(suites)
  BY <1>2, SelectionTyped
<1>7. Selection(all) = Preferred(c, suite)
  BY <1>1, <1>2, <1>6, SelectionAppend
<1>8. ListRead(list, n, c)
  BY <1>6 DEF ListOf
<1>9. ASSUME NEW front \in Seq(Byte), NEW tail \in Seq(Byte)
      PROVE  ScannedTo(front, whole, tail, n + 1, Preferred(c, suite))
  <2>1. Cat(bytes, tail) \in Seq(Byte)
    BY <1>1, CatBytes
  <2>2. ScannedTo(front, list, Cat(bytes, tail), n, c)
    BY <1>8, <2>1 DEF ListRead
  <2> QED
    BY <1>2, <1>6, <2>2, SuiteElement, Zenon
<1> HIDE DEF whole, all
<1>10. ListRead(whole, n + 1, Preferred(c, suite))
  BY <1>9 DEF ListRead
<1>11. ASSUME Len(all) = 1 PROVE EncodesSuite(whole, all[1])
  <2>1. n = 0
    <3>1. Len(all) = n + 1
      BY <1>5
    <3>2. n + 1 = 1
      BY <1>11, <3>1
    <3> QED
      BY <3>2
  <2>2. suites = <<>>
    BY <1>2, <2>1, EmptySeq
  <2>3. whole = bytes
    BY <1>1, <1>2, <2>2, ConcatEmptySeq DEF Cat, whole
  <2>4. all[1] = suite
    BY <1>5, <2>1
  <2> QED
    BY <2>3, <2>4
<1>12. ListRead(whole, Len(all), Selection(all))
  BY <1>5, <1>7, <1>10
<1>13. Len(all) <= 23
  BY <1>3, <1>5
<1>14. ListOf(whole, all)
  BY <1>4, <1>5, <1>11, <1>12, <1>13, Zenon DEF ListOf
<1> QED
  BY <1>14 DEF whole, all

\* which is what is added,
LEMMA AddSuiteRead ==
  ASSUME SuiteInputs, NEW s \in Suites, AddSuite(s)
  PROVE  SuiteInputs'
<1>1. /\ codec = "suites" /\ first' = Cat(first, s.bytes) /\ second' = Append(second, s.suite)
      /\ Len(second) < Longest["suites"]
  BY DEF AddSuite, Cat
<1>2. EncodesSuite(s.bytes, s.suite)
  BY InputAssumption
<1>3. ListOf(first, second)
  BY <1>1 DEF SuiteInputs
<1>4. PICK n \in Nat : Len(second) = n
  BY <1>3, LenProperties DEF ListOf
<1>5. n < 23
  <2>1. PICK l \in 0..23 : Longest["suites"] = l
    BY InputAssumption
  <2> QED
    BY <1>1, <1>4, <2>1
<1>6. ListOf(Cat(first, s.bytes), Append(second, s.suite))
  BY <1>2, <1>3, <1>4, <1>5, LongerList
<1>7. ListOf(first', second')
  BY <1>1, <1>6
<1> QED
  BY <1>7 DEF SuiteInputs, ListOf, ListRead, EncodesSuite

\* so that every step keeps it,
LEMMA NextSuites == SuiteInputs /\ [Next]_vars => SuiteInputs'
<1> SUFFICES ASSUME SuiteInputs, [Next]_vars, codec' = "suites" PROVE SuiteInputs'
  BY DEF SuiteInputs
<1>1. CASE UNCHANGED vars
  BY <1>1 DEF vars, SuiteInputs, ListOf, ListRead, EncodesSuite
<1>2. ASSUME NEW s \in Suites, AddSuite(s) PROVE SuiteInputs'
  BY <1>2, AddSuiteRead
<1>3. ASSUME NEW p, AddParameter(p) PROVE FALSE
  BY <1>3 DEF AddParameter
<1>4. ASSUME NEW delta, NEW length, AddOption(delta, length) PROVE FALSE
  BY <1>4 DEF AddOption
<1>5. ASSUME NEW b, Extend(b) PROVE FALSE
  BY <1>5, InputAssumption DEF Extend
<1>6. ASSUME NEW b, Follow(b) PROVE FALSE
  BY <1>6 DEF Follow
<1>7. ASSUME NEW n, Pad(n) PROVE FALSE
  BY <1>7 DEF Pad
<1> QED
  BY <1>1, <1>2, <1>3, <1>4, <1>5, <1>6, <1>7 DEF Next

\* and it is in every state.
LEMMA SuiteInputsHold == Spec => []SuiteInputs
  BY InitSuites, NextSuites, PTL DEF Spec

\* The two heads of a list of n elements, and what follows them.
ListHead(head, n, w) ==
  \/ w = 1 /\ head = <<128 + n>>
  \/ w = 2 /\ head = <<152, n>>

HeadRead(head, n, w, data) ==
  /\ w \in {1, 2} /\ head \in Seq(Byte) /\ Len(head) = w /\ data \in Seq(Byte)
  /\ CborHead(data).major = Array /\ CborHead(data).width = w /\ CborHead(data).argument = n

\* Both are read as the head of an array of n items.
LEMMA ListHeadRead ==
  ASSUME NEW n \in 1..23, NEW w \in Nat, NEW head, ListHead(head, n, w), NEW x \in Seq(Byte),
         NEW data, data = Cat(head, x)
  PROVE  HeadRead(head, n, w, data)
<1>1. PICK l \in Nat : Len(x) = l
  BY LenProperties
<1>2. CASE w = 1 /\ head = <<128 + n>>
  <2>1. PICK a \in 129..151 : a = 128 + n
    OBVIOUS
  <2>2. a \in 0..255 /\ a \div 32 = 4 /\ a % 32 = n /\ a % 32 < 24 /\ a \in Byte
    BY <2>1 DEF Byte
  <2>3. head \in Seq(Byte) /\ Len(head) = 1 /\ head[1] = a
    BY <1>2, <2>1, <2>2
  <2>4. data \in Seq(Byte) /\ Len(data) = 1 + l /\ \A i \in 1..1 : data[i] = head[i]
    <3>1. /\ Cat(head, x) \in Seq(Byte) /\ Len(Cat(head, x)) = Len(head) + Len(x)
          /\ \A i \in 1..Len(head) : Cat(head, x)[i] = head[i]
      BY <2>3, Parts
    <3> QED
      BY <1>1, <2>3, <3>1
  <2>5. data[1] = a /\ data # <<>>
    <3>1. 1 \in 1..1 /\ 1 + l # 0
      OBVIOUS
    <3> QED
      BY <2>3, <2>4, <3>1, EmptySeq
  <2>6. CborHead(data) = [major |-> a \div 32, width |-> 1, argument |-> a % 32, minimal |-> TRUE]
    BY <2>2, <2>4, <2>5, ShortHead
  <2> QED
    BY <1>2, <2>2, <2>3, <2>4, <2>6 DEF Array, HeadRead
<1>3. CASE w = 2 /\ head = <<152, n>>
  <2>1. n \in Byte /\ 152 \in Byte /\ 152 \in 0..255 /\ 152 % 32 = 24 /\ 152 \div 32 = 4
    BY DEF Byte
  <2>2. head \in Seq(Byte) /\ Len(head) = 2 /\ head[1] = 152 /\ head[2] = n
    BY <1>3, <2>1
  <2>3. data \in Seq(Byte) /\ Len(data) = 2 + l /\ \A i \in 1..2 : data[i] = head[i]
    <3>1. /\ Cat(head, x) \in Seq(Byte) /\ Len(Cat(head, x)) = Len(head) + Len(x)
          /\ \A i \in 1..Len(head) : Cat(head, x)[i] = head[i]
      <4>1. head \in Seq(Byte)
        BY <2>2
      <4> QED
        BY <4>1, Parts
    <3> QED
      BY <1>1, <2>2, <3>1
  <2>4. data[1] = 152 /\ data[2] = n
    <3>1. 1 \in 1..2 /\ 2 \in 1..2
      OBVIOUS
    <3> QED
      BY <2>2, <2>3, <3>1
  <2>5. 2 + l \in Nat /\ 2 <= 2 + l
    OBVIOUS
  <2>6. CborHead(data) = [major |-> 152 \div 32, width |-> 2, argument |-> data[2],
                          minimal |-> data[2] >= 24]
    BY <2>1, <2>3, <2>4, <2>5, LongHead
  <2> QED
    BY <1>3, <2>1, <2>2, <2>3, <2>4, <2>6 DEF Array, HeadRead
<1> QED
  BY <1>2, <1>3 DEF ListHead

\* What the parsers make of a list, and of one suite without a list.
ListParsed(list, data, n, w, selected) ==
  /\ parse_suites_i(data) =
       IF selected = Unreadable THEN Unreadable
       ELSE [suite |-> selected, consumed |-> w + Len(list)]
  /\ Len(list) = n => parse_suites_r(data) = w + Len(list)

\* With such a head the initiator and the responder find the end of the list.
LEMMA WholeListRead ==
  ASSUME NEW list \in Seq(Byte), NEW n \in 1..23, NEW selected \in Byte \cup {Unreadable},
         ListRead(list, n, selected),
         NEW w \in Nat, NEW head, ListHead(head, n, w), NEW tail \in Seq(Byte),
         NEW data, data = Cat(head, Cat(list, tail))
  PROVE  ListParsed(list, data, n, w, selected)
<1> DEFINE h == CborHead(data)
<1>1. PICK m \in Nat, l \in Nat : Len(list) = m /\ Len(tail) = l
  BY LenProperties
<1>2. Cat(list, tail) \in Seq(Byte) /\ Len(Cat(list, tail)) = m + l
  BY <1>1, Parts
<1>3. /\ w \in {1, 2} /\ head \in Seq(Byte) /\ Len(head) = w /\ data \in Seq(Byte)
      /\ h.major = Array /\ h.width = w /\ h.argument = n
  <2>1. PICK x \in Seq(Byte) : x = Cat(list, tail)
    BY <1>2
  <2>2. data = Cat(head, x)
    BY <2>1
  <2>3. HeadRead(head, n, w, data)
    BY <2>2, ListHeadRead, Zenon
  <2> QED
    BY <2>3 DEF HeadRead
<1>4. Len(data) = w + (m + l)
  <2>1. Len(Cat(head, Cat(list, tail))) = Len(head) + Len(Cat(list, tail))
    BY <1>2, <1>3, Parts
  <2> QED
    BY <1>2, <1>3, <2>1
<1> HIDE DEF h
<1>5. h.major # Uint
  BY <1>3 DEF Uint, Array
<1> DEFINE s == [offset |-> w + m, selected |-> selected]
<1>6. SuiteArray(data, w, n) = s
  <2>1. SuiteScan(Cat(head, Cat(list, tail)), w)[n] = [offset |-> w + Len(list), selected |-> selected]
    BY <1>3 DEF ListRead, ScannedTo
  <2> QED
    BY <1>1, <1>3, <2>1, SuiteLoop
<1>7. s # Unreadable /\ s.selected = selected /\ s.offset = w + m
  <2>1. w + m \in Nat
    OBVIOUS
  <2>2. s \in SuiteState
    BY <2>1 DEF SuiteState
  <2> QED
    BY <2>2, UnreadableAssumption
<1> HIDE DEF s
<1>8. parse_suites_i(data) = Selected(s)
  <2>1. parse_suites_i(data) = SuiteList(data, h)
    BY DEF parse_suites_i, h
  <2>2. SuiteList(data, h) = Selected(SuiteArray(data, h.width, h.argument))
    BY <1>3, <1>5, Zenon DEF SuiteList
  <2> QED
    BY <1>3, <1>6, <2>1, <2>2
<1>9. ASSUME m = n PROVE parse_suites_r(data) = w + m
  <2>1. parse_suites_r(data) = IF Len(data) >= h.width + h.argument THEN h.width + h.argument ELSE 0
    BY <1>3, <1>5, Zenon DEF parse_suites_r, h
  <2>2. w + (m + l) >= w + n
    BY <1>9
  <2> QED
    BY <1>3, <1>4, <1>9, <2>1, <2>2
<1> QED
  BY <1>1, <1>7, <1>8, <1>9 DEF Selected, ListParsed

\* A single suite is not wrapped in a list.
LEMMA OneSuiteRead ==
  ASSUME NEW bytes, NEW suite, EncodesSuite(bytes, suite), suite # Wide, NEW tail \in Seq(Byte),
         NEW data, data = Cat(bytes, tail)
  PROVE  /\ parse_suites_i(data) = [suite |-> suite, consumed |-> Len(bytes)]
         /\ parse_suites_r(data) = Len(bytes)
<1> DEFINE h == CborHead(data)
<1>1. bytes \in Seq(Byte) /\ suite \in SuiteNames
  BY ElementIs
<1>2. PICK a \in Byte, k \in Nat \ {0} :
        /\ Len(bytes) = k /\ bytes[1] = a
        /\ \/ a < 24 /\ suite = a /\ k = 1
           \/ a = 24 /\ k = 2 /\ bytes[2] = suite
  BY ElementIs
<1>3. PICK l \in Nat : Len(tail) = l
  BY LenProperties
<1>4. data \in Seq(Byte) /\ Len(data) = k + l /\ \A i \in 1..k : data[i] = bytes[i]
  <2>1. /\ Cat(bytes, tail) \in Seq(Byte) /\ Len(Cat(bytes, tail)) = Len(bytes) + Len(tail)
        /\ \A i \in 1..Len(bytes) : Cat(bytes, tail)[i] = bytes[i]
    BY <1>1, Parts
  <2> QED
    BY <1>2, <1>3, <2>1
<1>5. data[1] = a /\ data # <<>> /\ a \in 0..255
  <2>1. 1 \in 1..k /\ k + l # 0
    BY <1>2
  <2> QED
    BY <1>2, <1>4, <2>1, EmptySeq DEF Byte
<1>6. h.major = Uint /\ h.width = k /\ h.argument = suite /\ k \in {1, 2}
  <2>1. CASE a < 24 /\ suite = a /\ k = 1
    <3>1. a % 32 = a /\ a \div 32 = 0 /\ a % 32 < 24
      BY <1>5, <2>1
    <3>2. h = [major |-> a \div 32, width |-> 1, argument |-> a % 32, minimal |-> TRUE]
      BY <1>4, <1>5, <3>1, ShortHead
    <3> QED
      BY <2>1, <3>1, <3>2 DEF Uint
  <2>2. CASE a = 24 /\ k = 2 /\ bytes[2] = suite
    <3>1. 24 % 32 = 24 /\ 24 \div 32 = 0
      OBVIOUS
    <3>2. 2 + l \in Nat /\ 2 <= 2 + l /\ 2 \in 1..2
      OBVIOUS
    <3>3. h = [major |-> 24 \div 32, width |-> 2, argument |-> data[2], minimal |-> data[2] >= 24]
      BY <1>4, <1>5, <2>2, <3>1, <3>2, LongHead
    <3>4. data[2] = suite
      BY <1>4, <2>2, <3>2
    <3> QED
      BY <2>2, <3>1, <3>3, <3>4 DEF Uint
  <2> QED
    BY <1>2, <2>1, <2>2
<1> HIDE DEF h
<1>7. h.major # Array
  BY <1>6 DEF Uint, Array
<1>8. parse_suites_i(data) = [suite |-> h.argument, consumed |-> h.width]
  BY <1>6, <1>7, Zenon DEF parse_suites_i, SuiteList, h
<1>9. parse_suites_r(data) = h.width
  BY <1>6, <1>7, Zenon DEF parse_suites_r, h
<1> QED
  BY <1>2, <1>6, <1>8, <1>9

\* A list of n suites, of which one is selected, is read so.
SuitesReadAs(n, selected) ==
  \A head \in ListHeads(n) :
    LET list == head \o first
        data == list \o <<88, 32>>
    IN /\ parse_suites_i(data) =
            IF selected = Unreadable THEN Unreadable
            ELSE [suite |-> selected, consumed |-> Len(list)]
       /\ Len(first) = n => parse_suites_r(data) = Len(list)
       /\ n = 1 /\ selected # Unreadable =>
            /\ parse_suites_i(first \o <<88>>) =
                 [suite |-> selected, consumed |-> Len(first)]
            /\ parse_suites_r(first) = Len(first)

\* Whoever reads the initiator's list of suites takes its first element, if a
\* byte holds it, refuses the list if a byte holds none, and finds its end.
\* (parse_suites_i, parse_suites_r)
THEOREM SuitesAlwaysRead == Spec => []SuitesRead
<1>1. ASSUME SuiteInputs, codec = "suites", second # <<>>,
             NEW n, n = Len(second), NEW selected, selected = Selection(second)
      PROVE  SuitesReadAs(n, selected)
  <2>1. /\ first \in Seq(Byte) /\ second \in Seq(SuiteNames)
        /\ n = 1 => EncodesSuite(first, second[1])
        /\ ListRead(first, n, selected)
    BY <1>1 DEF SuiteInputs, ListOf
  <2>2. n \in 1..23
    <3>1. n \in Nat /\ n <= 23 /\ n # 0
      BY <1>1, <2>1, LenProperties, EmptySeq DEF SuiteInputs, ListOf
    <3> QED
      BY <3>1
  <2>3. selected \in Byte \cup {Unreadable}
    BY <1>1, <2>1, SelectionTyped
  <2>4. <<88, 32>> \in Seq(Byte) /\ <<88>> \in Seq(Byte) /\ <<>> \in Seq(Byte)
    BY DEF Byte
  <2>5. ASSUME n = 1, selected # Unreadable
        PROVE  /\ parse_suites_i(first \o <<88>>) = [suite |-> selected, consumed |-> Len(first)]
               /\ parse_suites_r(first) = Len(first)
    <3>1. second[1] # Wide /\ selected = second[1]
      <4>1. IsSelection(second, 1, selected)
        BY <1>1, <2>1, <2>5, SelectionIs
      <4>2. \A i \in 1..1 : i = 1
        OBVIOUS
      <4> QED
        BY <2>5, <4>1, <4>2 DEF IsSelection
    <3>2. PICK t \in Seq(Byte), u \in Seq(Byte) : t = <<88>> /\ u = <<>>
      BY <2>4
    <3>3. EncodesSuite(first, selected) /\ selected # Wide
      BY <2>1, <2>5, <3>1
    <3>4. parse_suites_i(Cat(first, t)) = [suite |-> selected, consumed |-> Len(first)]
      BY <3>3, OneSuiteRead
    <3>5. parse_suites_r(Cat(first, u)) = Len(first)
      BY <3>3, OneSuiteRead
    <3>6. Cat(first, t) = first \o <<88>> /\ Cat(first, u) = first
      BY <2>1, <3>2, ConcatEmptySeq DEF Cat
    <3> QED
      BY <3>4, <3>5, <3>6
  <2>6. ASSUME NEW head, NEW w \in Nat, ListHead(head, n, w)
        PROVE  /\ parse_suites_i((head \o first) \o <<88, 32>>) =
                    IF selected = Unreadable THEN Unreadable
                    ELSE [suite |-> selected, consumed |-> Len(head \o first)]
               /\ Len(first) = n =>
                    parse_suites_r((head \o first) \o <<88, 32>>) = Len(head \o first)
    <3>1. PICK t \in Seq(Byte) : t = <<88, 32>>
      BY <2>4
    <3>2. PICK data : data = Cat(head, Cat(first, t))
      OBVIOUS
    <3>3. Cat(first, t) \in Seq(Byte)
      BY <2>1, CatBytes
    <3>4. head \in Seq(Byte) /\ Len(head) = w
      <4>1. PICK x \in Seq(Byte) : x = Cat(first, t)
        BY <3>3
      <4>2. ListHead(head, n, w) /\ n \in 1..23
        BY <2>2, <2>6
      <4>3. data = Cat(head, x)
        BY <3>2, <4>1
      <4>4. HeadRead(head, n, w, data)
        BY <4>2, <4>3, ListHeadRead, Zenon
      <4> QED
        BY <4>4 DEF HeadRead
    <3>5. ListParsed(first, data, n, w, selected)
      <4>1. first \in Seq(Byte) /\ n \in 1..23 /\ ListRead(first, n, selected)
        BY <2>1, <2>2
      <4>2. ListHead(head, n, w)
        BY <2>6
      <4> QED
        BY <2>3, <2>6, <3>1, <3>2, <4>1, <4>2, WholeListRead, Zenon
    <3>6. Len(Cat(head, first)) = w + Len(first)
      BY <2>1, <3>4, Parts
    <3>7. Cat(Cat(head, first), t) = data
      BY <2>1, <3>2, <3>4, CatRegroup
    <3>8. (head \o first) \o <<88, 32>> = data /\ Len(head \o first) = w + Len(first)
      BY <3>1, <3>6, <3>7 DEF Cat
    <3> QED
      BY <3>5, <3>8 DEF ListParsed
  <2>7. ASSUME NEW head \in ListHeads(n)
        PROVE  \E w \in Nat : ListHead(head, n, w)
    <3>1. 1 \in Nat /\ 2 \in Nat
      OBVIOUS
    <3> QED
      BY <3>1 DEF ListHead, ListHeads
  <2> QED
    BY <2>5, <2>6, <2>7, Zenon DEF SuitesReadAs
<1>2. SuiteInputs => SuitesRead
  <2>1. SUFFICES ASSUME SuiteInputs, codec = "suites", second # <<>>,
                        NEW head \in ListHeads(Len(second))
                 PROVE  SuiteListRead(head, Len(second), second[1])
    BY Zenon DEF SuitesRead, SuiteListRead
  <2>2. PICK n : n = Len(second)
    OBVIOUS
  <2>3. PICK selected : selected = Selection(second)
    OBVIOUS
  <2>4. SuitesReadAs(n, selected)
    BY <1>1, <2>1, <2>2, <2>3
  <2>5. second \in Seq(SuiteNames) /\ n \in Nat /\ n # 0
    <3>1. second \in Seq(SuiteNames)
      BY <2>1 DEF SuiteInputs, ListOf
    <3> QED
      BY <2>1, <2>2, <3>1, LenProperties, EmptySeq
  <2>6. IsSelection(second, n, selected)
    BY <2>2, <2>3, <2>5, SelectionIs
  <2>7. ASSUME second[1] # Wide
        PROVE  selected = second[1] /\ selected # Unreadable
    <3>1. 1 \in 1..n
      BY <2>5
    <3>2. PICK i \in 1..n : selected = second[i] /\ i <= 1
      BY <2>6, <2>7, <3>1 DEF IsSelection
    <3>3. i = 1
      BY <3>2
    <3>4. second[1] \in SuiteNames
      BY <2>2, <2>5, <3>1, ElementOfSeq
    <3> QED
      BY <2>7, <3>2, <3>3, <3>4, BytesReadable DEF SuiteNames
  <2>8. ASSUME \A i \in 1..n : second[i] = Wide
        PROVE  selected = Unreadable
    BY <2>6, <2>8 DEF IsSelection
  <2>9. LET parsed == parse_suites_i((head \o first) \o <<88, 32>>)
        IN parsed # Unreadable => parsed.consumed = Len(head \o first)
    <3>1. PICK l, parsed : /\ l = Len(head \o first)
                           /\ parsed = parse_suites_i((head \o first) \o <<88, 32>>)
      OBVIOUS
    <3>2. parsed = IF selected = Unreadable THEN Unreadable
                   ELSE [suite |-> selected, consumed |-> l]
      BY <2>1, <2>2, <2>4, <3>1, Zenon DEF SuitesReadAs
    <3>3. parsed # Unreadable => parsed.consumed = l
      BY <3>2
    <3> QED
      BY <3>1, <3>3
  <2> QED
    BY <2>1, <2>2, <2>4, <2>7, <2>8, <2>9, Zenon DEF SuitesReadAs, SuiteListRead
<1> QED
  BY <1>2, SuiteInputsHold, PTL

-----------------------------------------------------------------------------
\* Several items, one behind the other.

\* Bytes behind bytes that are left out.
LEMMA FromFrom ==
  ASSUME NEW data \in Seq(Byte), NEW n \in Nat, NEW o \in Nat
  PROVE  From(From(data, n), o) = From(data, n + o)
<1> DEFINE rest == From(data, n)
           a == From(rest, o)
           b == From(data, n + o)
<1>1. PICK l \in Nat : Len(data) = l
  BY LenProperties
<1>2. /\ rest \in Seq(Byte) /\ Len(rest) = IF n <= l THEN l - n ELSE 0
      /\ \A i \in 1..Len(rest) : rest[i] = data[n + i]
  BY <1>1, RestIs
<1>3. PICK m \in Nat : Len(rest) = m /\ m = IF n <= l THEN l - n ELSE 0
  <2>1. PICK m : m = IF n <= l THEN l - n ELSE 0
    OBVIOUS
  <2>2. m \in Nat
    BY <2>1
  <2>3. Len(rest) = m
    BY <1>2, <2>1, Zenon
  <2> QED
    BY <2>1, <2>2, <2>3, Zenon
<1> HIDE DEF rest
<1>4. /\ a \in Seq(Byte) /\ Len(a) = IF o <= m THEN m - o ELSE 0
      /\ \A i \in 1..Len(a) : a[i] = rest[o + i]
  BY <1>2, <1>3, RestIs
<1>5. n + o \in Nat
  OBVIOUS
<1>6. /\ b \in Seq(Byte) /\ Len(b) = IF n + o <= l THEN l - (n + o) ELSE 0
      /\ \A i \in 1..Len(b) : b[i] = data[(n + o) + i]
  BY <1>1, <1>5, RestIs
<1> HIDE DEF a, b
<1>7. PICK k \in Nat : Len(a) = k /\ Len(b) = k /\ (k # 0 => o + k = m)
  <2>1. PICK k \in Nat : k = (IF o <= m THEN m - o ELSE 0) /\ (k # 0 => o + k = m)
    <3>1. CASE o <= m
      <4>1. m - o \in Nat /\ o + (m - o) = m
        BY <3>1
      <4> QED
        BY <3>1, <4>1
    <3>2. CASE ~(o <= m)
      BY <3>2
    <3> QED
      BY <3>1, <3>2
  <2>2. k = IF n + o <= l THEN l - (n + o) ELSE 0
    BY <1>3, <2>1
  <2> QED
    BY <1>4, <1>6, <2>1, <2>2
<1>8. ASSUME NEW i \in 1..k PROVE a[i] = b[i]
  <2>1. k # 0 /\ o + i \in 1..m
    BY <1>7
  <2>2. a[i] = rest[o + i] /\ b[i] = data[(n + o) + i]
    BY <1>4, <1>6, <1>7
  <2>4. rest[o + i] = data[n + (o + i)]
    BY <1>2, <1>3, <2>1
  <2>3. n + (o + i) = (n + o) + i
    BY <2>1
  <2> QED
    BY <2>2, <2>3, <2>4
<1>9. a = b
  BY <1>4, <1>6, <1>7, <1>8, SeqEqual
<1> QED
  BY <1>9 DEF a, b, rest

\* So many items to skip, from an offset on.
Items(n, offset) == [items |-> n, offset |-> offset]

\* What the first of several items comes to, in the bytes behind the first n and
\* in them all, where e more items follow.
Shifted(data, n, m, o, e, next) ==
  \E j \in Nat, q \in Nat \ {0} :
    /\ SkipItem(From(data, n), Items(m, o)) = Items(j, q)
    /\ next = Items(j + e, n + q)

\* The item behind the first n bytes is the item in the bytes behind them.
LEMMA SkipShift ==
  ASSUME NEW data \in Seq(Byte), NEW n \in Nat, NEW m \in Nat, NEW o \in Nat, NEW e \in Nat,
         m # 0, NEW next, next = SkipItem(data, Items(m + e, n + o)), next.offset # 0
  PROVE  Shifted(data, n, m, o, e, next)
<1>0. PICK k \in Nat, p \in Nat : k = m + e /\ p = n + o
  OBVIOUS
<1> DEFINE rest == From(data, n)
           h == CborHead(From(data, p))
           at == Items(m, o)
           there == Items(k, p)
<1>1. PICK l \in Nat : Len(data) = l
  BY LenProperties
<1>2. rest \in Seq(Byte) /\ Len(rest) = IF n <= l THEN l - n ELSE 0
  BY <1>1, RestIs
<1>3. CborHead(From(rest, o)) = h
  BY <1>0, FromFrom
<1> HIDE DEF rest, h
<1>6. there.items = k /\ there.offset = p /\ at.items = m /\ at.offset = o
  BY DEF Items
<1>4. next = AfterItem(data, there, h)
  BY <1>0, <1>6 DEF SkipItem, h
<1>5. SkipItem(rest, at) = AfterItem(rest, at, h)
  BY <1>3, <1>6 DEF SkipItem
<1> HIDE DEF at, there
<1>7. CASE h.major = Array /\ h.width \in {1, 2}
  <2>1. next = [items |-> k - 1 + h.argument, offset |-> p + h.width]
    BY <1>4, <1>6, <1>7 DEF AfterItem
  <2>2. SkipItem(rest, at) = [items |-> m - 1 + h.argument, offset |-> o + h.width]
    BY <1>5, <1>6, <1>7 DEF AfterItem
  <2>3. h # NoHead
    BY <1>7 DEF NoHead, Map, Array
  <2>4. Heading(From(data, p), h)
    BY <2>3, RestIs, HeadThere DEF h
  <2>5. PICK w \in 1..2, a \in Nat : h.width = w /\ h.argument = a
    BY <1>7, <2>4 DEF Heading
  <2>6. PICK j \in Nat, q \in Nat \ {0} : j = m - 1 + a /\ q = o + w
    <3>1. m - 1 + a \in Nat /\ o + w \in Nat \ {0}
      OBVIOUS
    <3> QED
      BY <3>1
  <2>7. k - 1 + a = j + e /\ p + w = n + q
    BY <1>0, <2>6
  <2> QED
    BY <2>1, <2>2, <2>5, <2>6, <2>7 DEF rest, at, Items, Shifted
<1>8. CASE ~(h.major = Array /\ h.width \in {1, 2})
  <2>1. next = [items |-> k - 1, offset |-> ItemEnd(data, p, h)]
    BY <1>4, <1>6, <1>8 DEF AfterItem
  <2>2. SkipItem(rest, at) = [items |-> m - 1, offset |-> ItemEnd(rest, o, h)]
    BY <1>5, <1>6, <1>8 DEF AfterItem
  <2>3. PICK f \in Nat : f = ItemEnd(data, p, h) /\ f # 0
    BY <2>1, ItemEndIs DEF h
  <2>4. h # NoHead /\ h.width \in 1..3 /\ p + h.width <= f /\ f <= Len(data)
    BY <2>3, ItemEndIs DEF h
  <2>5. Heading(From(data, p), h)
    BY <2>4, RestIs, HeadThere DEF h
  <2>6. PICK w \in 1..3, a \in Nat : h.width = w /\ h.argument = a /\ p + w <= f /\ f <= l
    BY <1>1, <2>4, <2>5 DEF Heading
  <2>7. Len(rest) = l - n /\ n <= l
    BY <1>0, <1>2, <2>6
  <2>8. PICK q \in Nat \ {0} : f = n + q /\ ItemEnd(rest, o, h) = q
    <3>1. CASE h.width > 0 /\ h.major \in {Uint, Negative}
      <4>1. ~(h.major \in {Bstr, Text})
        BY <3>1 DEF Uint, Negative, Bstr, Text
      <4>2. f = p + w /\ ItemEnd(rest, o, h) = o + w
        BY <2>3, <2>6, <3>1, <4>1 DEF ItemEnd
      <4>3. o + w \in Nat \ {0} /\ p + w = n + (o + w)
        BY <1>0
      <4> QED
        BY <4>2, <4>3
    <3>2. CASE ~(h.width > 0 /\ h.major \in {Uint, Negative})
      <4>1. /\ w \in {1, 2} /\ h.major \in {Bstr, Text} /\ p + w + a <= l /\ f = p + w + a
        BY <1>1, <2>3, <2>6, <3>2 DEF ItemEnd
      <4>2. o + w + a <= Len(rest)
        BY <1>0, <2>7, <4>1
      <4>3. ItemEnd(rest, o, h) = o + w + a
        BY <2>6, <3>2, <4>1, <4>2 DEF ItemEnd
      <4>4. o + w + a \in Nat \ {0} /\ p + w + a = n + (o + w + a)
        BY <1>0
      <4> QED
        BY <4>1, <4>3, <4>4
    <3> QED
      BY <3>1, <3>2
  <2>9. PICK j \in Nat : j = m - 1
    OBVIOUS
  <2>10. k - 1 = j + e
    BY <1>0, <2>9
  <2> QED
    BY <2>1, <2>2, <2>3, <2>8, <2>9, <2>10 DEF rest, at, Items, Shifted
<1> QED
  BY <1>7, <1>8

\* Past so many items, then past e more.
Both(at, n, e) == [items |-> at.items + e, offset |-> n + at.offset]
SkippedTwo(data, n, rest, at, e) ==
  \E k \in Nat :
    /\ SkipScan(rest)[at] = k /\ (at.items # 0 => k # 0)
    /\ SkipScan(data)[Both(at, n, e)] = SkipScan(data)[Items(e, n + k)]

\* Skipping more items skips the first of them, then the others:
LEMMA SkipTwo ==
  ASSUME NEW data \in Seq(Byte), NEW n \in Nat, NEW rest, rest = From(data, n), NEW e \in Nat,
         NEW at \in ToSkip, SkipScan(data)[Both(at, n, e)] # 0
  PROVE  SkippedTwo(data, n, rest, at, e)
<1> DEFINE Right(a) == \E k \in Nat :
             /\ SkipScan(rest)[a] = k /\ (a.items # 0 => k # 0)
             /\ SkipScan(data)[Both(a, n, e)] = SkipScan(data)[Items(e, n + k)]
           Good == {a \in ToSkip : SkipScan(data)[Both(a, n, e)] # 0 => Right(a)}
<1>0. rest \in Seq(Byte)
  BY RestIs
<1>1. ASSUME NEW a \in ToSkip,
             \A c \in ToSkip : a.offset < c.offset /\ c.offset <= Len(rest) => c \in Good,
             SkipScan(data)[Both(a, n, e)] # 0
      PROVE  Right(a)
  <2>1. PICK m \in Nat, o \in Nat : a = Items(m, o)
    BY DEF ToSkip, Items
  <2>2. PICK there : there = Both(a, n, e)
    OBVIOUS
  <2>3. PICK k \in Nat, p \in Nat : k = m + e /\ p = n + o
    OBVIOUS
  <2>4. there = Items(k, p)
    BY <2>1, <2>2, <2>3 DEF Both, Items
  <2>5. there \in ToSkip /\ there.items = k /\ there.offset = p /\ a.items = m /\ a.offset = o
    BY <2>1, <2>4 DEF ToSkip, Items
  <2>6. CASE m = 0
    <3>1. SkipScan(rest)[a] = o
      BY <1>0, <2>5, <2>6, SkipEquation
    <3>2. there = Items(e, n + o)
      BY <2>3, <2>4, <2>6 DEF Items
    <3>3. /\ SkipScan(rest)[a] = o /\ (a.items # 0 => o # 0)
          /\ SkipScan(data)[there] = SkipScan(data)[Items(e, n + o)]
      BY <2>5, <2>6, <3>1, <3>2
    <3> QED
      BY <2>2, <3>3
  <2>7. CASE m # 0
    <3>1. k # 0
      BY <2>3, <2>7
    <3>2. PICK next : next = SkipItem(data, there)
      OBVIOUS
    <3>3. next.offset # 0 /\ SkipScan(data)[there] = SkipScan(data)[next]
      BY <1>1, <2>2, <2>5, <3>1, <3>2, SkipEquation
    <3>4. PICK j \in Nat, q \in Nat \ {0} :
            /\ SkipItem(rest, Items(m, o)) = Items(j, q)
            /\ next = Items(j + e, n + q)
      <4>1. next = SkipItem(data, Items(m + e, n + o)) /\ next.offset # 0
        BY <2>3, <2>4, <3>2, <3>3
      <4> HIDE DEF Good, Right
      <4>2. Shifted(data, n, m, o, e, next)
        <5>1. data \in Seq(Byte) /\ n \in Nat /\ e \in Nat /\ m \in Nat /\ o \in Nat /\ m # 0
          BY <2>1, <2>7
        <5> QED
          BY <4>1, <5>1, SkipShift, Zenon
      <4> QED
        BY <4>2 DEF Shifted
    <3>5. PICK c : c = Items(j, q)
      OBVIOUS
    <3>6. c \in ToSkip /\ c.items = j /\ c.offset = q /\ SkipItem(rest, a) = c
      BY <2>1, <3>4, <3>5 DEF ToSkip, Items
    <3>7. next = Both(c, n, e)
      BY <3>4, <3>6 DEF Both, Items
    <3>8. a.offset < c.offset /\ c.offset <= Len(rest)
      BY <1>0, <2>5, <2>7, <3>6, SkipForward
    <3>9. Right(c)
      BY <1>1, <2>2, <3>3, <3>6, <3>7, <3>8
    <3>10. SkipScan(rest)[a] = SkipScan(rest)[c]
      BY <1>0, <2>5, <2>7, <3>6, SkipEquation
    <3>11. PICK r \in Nat : /\ SkipScan(rest)[c] = r /\ (c.items # 0 => r # 0)
                            /\ SkipScan(data)[next] = SkipScan(data)[Items(e, n + r)]
      BY <3>7, <3>9
    <3>12. r # 0
      <4>1. CASE j = 0
        BY <1>0, <3>6, <3>11, <4>1, SkipEquation
      <4>2. CASE j # 0
        BY <3>6, <3>11, <4>2
      <4> QED
        BY <4>1, <4>2
    <3>13. /\ SkipScan(rest)[a] = r /\ (a.items # 0 => r # 0)
           /\ SkipScan(data)[Both(a, n, e)] = SkipScan(data)[Items(e, n + r)]
      BY <2>2, <3>3, <3>10, <3>11, <3>12
    <3> QED
      BY <3>13
  <2> QED
    BY <2>6, <2>7
<1>2. \A a \in ToSkip : a \in Good
  <2>1. \A a \in ToSkip :
          (\A c \in ToSkip : a.offset < c.offset /\ c.offset <= Len(rest) => c \in Good)
            => a \in Good
    BY <1>1
  <2> HIDE DEF Good
  <2> QED
    BY <1>0, <2>1, SkipInduction
<1>3. at \in Good
  BY <1>2
<1> QED
  BY <1>3 DEF SkippedTwo

\* Past the first of several items is where it ends.
SkippedOne(data, n, e, r) ==
  \E k \in Nat \ {0} :
    /\ skip_cbor_value(From(data, n)) = k
    /\ SkipScan(data)[Items(e, n + k)] = r

\* one of them and the rest.
LEMMA SkipMany ==
  ASSUME NEW data \in Seq(Byte), NEW n \in Nat, NEW e \in Nat,
         NEW r, r = SkipScan(data)[Items(e + 1, n)], r # 0
  PROVE  SkippedOne(data, n, e, r)
<1>1. First \in ToSkip /\ First.items = 1 /\ First.offset = 0
  BY DEF First, ToSkip
<1>2. Both(First, n, e) = Items(e + 1, n)
  <2>1. 1 + e = e + 1 /\ n + 0 = n
    OBVIOUS
  <2> QED
    BY <1>1, <2>1 DEF Both, Items
<1>3. PICK rest \in Seq(Byte) : rest = From(data, n)
  BY RestIs
<1>4. PICK k \in Nat :
        /\ SkipScan(rest)[First] = k /\ (First.items # 0 => k # 0)
        /\ SkipScan(data)[Both(First, n, e)] = SkipScan(data)[Items(e, n + k)]
  <2>1. SkipScan(data)[Both(First, n, e)] # 0
    BY <1>2
  <2> QED
    <3>1. PICK at \in ToSkip : at = First
      BY <1>1
    <3>2. SkipScan(data)[Both(at, n, e)] # 0
      BY <2>1, <3>1
    <3>3. SkippedTwo(data, n, rest, at, e)
      <4>1. data \in Seq(Byte) /\ n \in Nat /\ e \in Nat /\ at \in ToSkip /\ rest = From(data, n)
        BY <1>3, <3>1
      <4> QED
        BY <3>2, <4>1, SkipTwo, Zenon
    <3> QED
      BY <3>1, <3>3 DEF SkippedTwo
<1>5. skip_cbor_value(rest) = k
  BY <1>3, <1>4, SkipEquation
<1>6. k # 0
  BY <1>1, <1>4
<1> QED
  BY <1>2, <1>3, <1>4, <1>5, <1>6 DEF SkippedOne

\* Nothing left out is everything.
LEMMA FromZero ==
  ASSUME NEW data \in Seq(Byte)
  PROVE  From(data, 0) = data
<1> DEFINE rest == From(data, 0)
<1>1. PICK l \in Nat : Len(data) = l
  BY LenProperties
<1>2. /\ rest \in Seq(Byte) /\ Len(rest) = IF 0 <= l THEN l - 0 ELSE 0
      /\ \A i \in 1..Len(rest) : rest[i] = data[0 + i]
  BY <1>1, RestIs
<1> HIDE DEF rest
<1>3. Len(rest) = l
  BY <1>2
<1>4. ASSUME NEW i \in 1..l PROVE rest[i] = data[i]
  <2>1. 0 + i = i
    OBVIOUS
  <2> QED
    BY <1>2, <1>3, <2>1
<1>5. rest = data
  BY <1>1, <1>2, <1>3, <1>4, SeqEqual
<1> QED
  BY <1>5 DEF rest

\* Nothing is behind where skipping ends.
LEMMA ScanForward ==
  ASSUME NEW data \in Seq(Byte), NEW at \in ToSkip, SkipScan(data)[at] # 0
  PROVE  SkipScan(data)[at] \in Nat /\ at.offset <= SkipScan(data)[at]
<1> DEFINE Past(a) == SkipScan(data)[a]
           Right(a) == Past(a) \in Nat /\ a.offset <= Past(a)
           Good == {a \in ToSkip : Past(a) # 0 => Right(a)}
<1>1. ASSUME NEW a \in ToSkip,
             \A c \in ToSkip : a.offset < c.offset /\ c.offset <= Len(data) => c \in Good,
             Past(a) # 0
      PROVE  Right(a)
  <2>1. PICK o \in Nat : a.offset = o
    BY DEF ToSkip
  <2>2. CASE a.items = 0
    <3>1. Past(a) = o
      BY <2>1, <2>2, SkipEquation
    <3> QED
      BY <2>1, <3>1
  <2>3. CASE a.items # 0
    <3>1. PICK next : next = SkipItem(data, a)
      OBVIOUS
    <3>2. next.offset # 0 /\ Past(a) = Past(next)
      BY <1>1, <2>3, <3>1, SkipEquation
    <3>3. next \in ToSkip /\ o < next.offset /\ next.offset <= Len(data)
      BY <2>1, <2>3, <3>1, <3>2, SkipForward
    <3>4. Right(next)
      BY <1>1, <2>1, <3>2, <3>3
    <3>5. PICK q \in Nat, p \in Nat : next.offset = q /\ Past(next) = p
      BY <3>3, <3>4 DEF ToSkip
    <3>6. o < q /\ q <= p
      BY <3>3, <3>4, <3>5
    <3>7. o <= p
      BY <3>6
    <3> QED
      BY <2>1, <3>2, <3>5, <3>7
  <2> QED
    BY <2>2, <2>3
<1>2. \A a \in ToSkip : a \in Good
  <2>1. \A a \in ToSkip :
          (\A c \in ToSkip : a.offset < c.offset /\ c.offset <= Len(data) => c \in Good)
            => a \in Good
    BY <1>1
  <2> HIDE DEF Good
  <2> QED
    BY <2>1, SkipInduction
<1>3. at \in Good
  BY <1>2
<1> QED
  BY <1>3

-----------------------------------------------------------------------------
\* WholeItem items: what the parsers make of one does not depend on what is behind.
WholeItem(data, other, k) ==
  k # 0 /\ k = skip_cbor_value(data) /\ SameUpTo(data, other, k)

WholeHead(data, other, k, h) ==
  /\ k \in Nat \ {0} /\ k <= Len(data) /\ data # <<>>
  /\ CborHead(other) = h /\ Heading(data, h) /\ h # NoHead
  /\ h.major \in {Uint, Negative} => k = h.width
  /\ h.major \in {Bstr, Text} => h.width \in {1, 2} /\ k = h.width + h.argument
  /\ h.major = Array =>
       h.width \in {1, 2} /\ SkipScan(data)[Items(h.argument, h.width)] = k

\* The head of an item says how long the whole item is.
LEMMA HeadWhole ==
  ASSUME NEW data \in Seq(Byte), NEW other \in Seq(Byte), NEW k, WholeItem(data, other, k),
         NEW h, h = CborHead(data)
  PROVE  WholeHead(data, other, k, h)
<1>1. k # 0 /\ k = SkipScan(data)[First] /\ SameUpTo(data, other, k)
  BY SkipEquation DEF WholeItem
<1>2. k \in Nat \ {0} /\ k <= Len(data)
  BY SkipLocal DEF WholeItem
<1>3. First \in ToSkip /\ First.items = 1 /\ First.offset = 0
  BY DEF First, ToSkip
<1>4. PICK next : next = SkipItem(data, First)
  OBVIOUS
<1>5. next.offset # 0 /\ SkipScan(data)[next] = k
  BY <1>1, <1>3, <1>4, SkipEquation
<1>6. next \in ToSkip /\ 0 < next.offset
  BY <1>3, <1>4, <1>5, SkipForward
<1>7. next.offset <= k
  BY <1>1, <1>5, <1>6, ScanForward
<1>8. PICK q \in Nat : next.offset = q /\ q <= k
  BY <1>6, <1>7 DEF ToSkip
<1>9. next = AfterItem(data, First, h)
  BY <1>3, <1>4, FromZero DEF SkipItem
<1>10. CASE h.major = Array /\ h.width \in {1, 2}
  <2>1. next = [items |-> 1 - 1 + h.argument, offset |-> 0 + h.width]
    BY <1>3, <1>9, <1>10 DEF AfterItem
  <2>2. h # NoHead
    BY <1>10 DEF NoHead, Map, Array
  <2>3. Heading(data, h) /\ data # <<>>
    BY <2>2, HeadThere
  <2>4. PICK w \in 1..3, a \in Nat : h.width = w /\ h.argument = a
    BY <2>3 DEF Heading
  <2>5. 1 - 1 + a = a /\ 0 + w = w
    OBVIOUS
  <2>6. next = Items(h.argument, h.width) /\ q = w
    BY <1>8, <2>1, <2>4, <2>5 DEF Items
  <2>7. CborHead(other) = h
    <3>1. SameUpTo(data, other, w)
      BY <1>1, <1>2, <1>8, <2>6, SameLess
    <3> QED
      BY <2>2, <2>4, <3>1, HeadLocal
  <2>8. h.major \notin {Uint, Negative} /\ h.major \notin {Bstr, Text}
    BY <1>10 DEF Uint, Negative, Bstr, Text, Array
  <2> QED
    BY <1>2, <1>5, <1>10, <2>2, <2>3, <2>6, <2>7, <2>8 DEF WholeHead
<1>11. CASE ~(h.major = Array /\ h.width \in {1, 2})
  <2>1. next = [items |-> 1 - 1, offset |-> ItemEnd(data, 0, h)]
    BY <1>3, <1>9, <1>11 DEF AfterItem
  <2>2. next.items = 0 /\ ItemEnd(data, 0, h) = q
    BY <1>8, <2>1
  <2>3. k = q
    BY <1>5, <1>6, <1>8, <2>2, SkipEquation
  <2>4. h # NoHead /\ h.width \in 1..3 /\ 0 + h.width <= q
    <3>1. h = CborHead(From(data, 0)) /\ q # 0
      BY <1>6, <1>8, FromZero
    <3>2. 0 \in Nat
      OBVIOUS
    <3> QED
      BY <2>2, <3>1, <3>2, ItemEndIs
  <2>5. Heading(data, h) /\ data # <<>>
    BY <2>4, HeadThere
  <2>6. PICK w \in 1..3, a \in Nat : h.width = w /\ h.argument = a /\ w <= q
    BY <2>4, <2>5 DEF Heading
  <2>7. CborHead(other) = h
    <3>1. SameUpTo(data, other, w)
      BY <1>1, <1>2, <2>3, <2>6, SameLess
    <3> QED
      BY <2>4, <2>6, <3>1, HeadLocal
  <2>8. ASSUME h.major \in {Uint, Negative} PROVE k = h.width
    <3>1. ~(h.major \in {Bstr, Text})
      BY <2>8 DEF Uint, Negative, Bstr, Text
    <3>2. h.width > 0
      BY <2>6
    <3>3. ItemEnd(data, 0, h) = 0 + h.width
      BY <2>8, <3>1, <3>2, Zenon DEF ItemEnd
    <3> QED
      BY <2>2, <2>3, <2>6, <3>3
  <2>9. ASSUME ~(h.major \in {Uint, Negative})
        PROVE  h.width \in {1, 2} /\ h.major \in {Bstr, Text} /\ k = h.width + h.argument
    <3>1. q # 0
      BY <1>6, <1>8
    <3>2. h.width \in {1, 2} /\ h.major \in {Bstr, Text} /\ q = 0 + h.width + h.argument
      BY <2>2, <2>9, <3>1 DEF ItemEnd
    <3> QED
      BY <2>3, <2>6, <3>2
  <2>10. ASSUME h.major \in {Bstr, Text} PROVE ~(h.major \in {Uint, Negative})
    BY <2>10 DEF Uint, Negative, Bstr, Text
  <2>11. h.major # Array
    <3>1. ASSUME h.major = Array PROVE FALSE
      <4>1. ~(h.major \in {Uint, Negative}) /\ ~(h.major \in {Bstr, Text})
        BY <3>1 DEF Uint, Negative, Bstr, Text, Array
      <4> QED
        BY <2>9, <4>1
    <3> QED
      BY <3>1
  <2> QED
    BY <1>2, <2>4, <2>5, <2>7, <2>8, <2>9, <2>10, <2>11 DEF WholeHead
<1> QED
  BY <1>10, <1>11

\* So every reader of a value takes the whole item or none of it, and the same from
\* longer strings: an integer of any width,
LEMMA IntWhole ==
  ASSUME NEW data \in Seq(Byte), NEW other \in Seq(Byte), NEW k, WholeItem(data, other, k)
  PROVE  skip_int_value(other) = skip_int_value(data) /\ skip_int_value(data) \in {0, k}
<1>1. PICK h : h = CborHead(data)
  OBVIOUS
<1>2. WholeHead(data, other, k, h)
  BY <1>1, HeadWhole
<1>3. skip_int_value(data) = IntWidth(h) /\ skip_int_value(other) = IntWidth(h)
  BY <1>1, <1>2 DEF skip_int_value, WholeHead
<1>4. IntWidth(h) \in {0, k}
  BY <1>2 DEF IntWidth, WholeHead
<1> QED
  BY <1>3, <1>4

\* The same reading, of the whole item if there is one.
SameReading(was, is, k) == is = was /\ (was # Unreadable => was.consumed = k)

\* one in its shortest encoding,
LEMMA NumberWhole ==
  ASSUME NEW data \in Seq(Byte), NEW other \in Seq(Byte), NEW k, WholeItem(data, other, k)
  PROVE  SameReading(try_parse_cbor_int(data), try_parse_cbor_int(other), k)
<1>1. k # 0 /\ k = skip_cbor_value(data) /\ SameUpTo(data, other, k)
  BY DEF WholeItem
<1>2. CASE try_parse_cbor_int(data) = Unreadable
  BY <1>1, <1>2, NoIntLocal DEF SameReading
<1>3. ASSUME try_parse_cbor_int(data) # Unreadable
      PROVE  SameReading(try_parse_cbor_int(data), try_parse_cbor_int(other), k)
  <2>1. PICK r : r = try_parse_cbor_int(data) /\ r # Unreadable
    BY <1>3
  <2>2. r.consumed = k
    BY <1>1, <2>1, IntSkipped
  <2>3. try_parse_cbor_int(other) = r
    BY <1>1, <2>1, <2>2, IntLocal
  <2> QED
    BY <2>1, <2>2, <2>3 DEF SameReading
<1> QED
  BY <1>2, <1>3

\* a byte string,
LEMMA BstrWhole ==
  ASSUME NEW data \in Seq(Byte), NEW other \in Seq(Byte), NEW k, WholeItem(data, other, k)
  PROVE  SameReading(parse_bstr(data), parse_bstr(other), k)
<1>1. PICK h : h = CborHead(data)
  OBVIOUS
<1>2. WholeHead(data, other, k, h) /\ SameUpTo(data, other, k)
  BY <1>1, HeadWhole DEF WholeItem
<1>3. PICK w \in Nat, a \in Nat : h.width = w /\ h.argument = a
  BY <1>2 DEF WholeHead, Heading
<1>4. parse_bstr(data) = BstrOf(data, h) /\ parse_bstr(other) = BstrOf(other, h)
  BY <1>1, <1>2 DEF parse_bstr, WholeHead
<1>5. CASE h.major = Bstr
  <2>1. k = w + a /\ k <= Len(data) /\ k <= Len(other)
    BY <1>2, <1>3, <1>5 DEF WholeHead, SameUpTo
  <2>2. Len(data) \in Nat /\ Len(other) \in Nat
    BY LenProperties
  <2>3. SubSeq(data, w + 1, w + a) = SubSeq(other, w + 1, w + a)
    <3>1. w + 1 \in Nat \ {0} /\ w + a \in Nat
      OBVIOUS
    <3>2. SameUpTo(data, other, w + a)
      BY <1>2, <2>1
    <3> QED
      BY <3>1, <3>2, SamePart
  <2>4. Len(data) >= w + a /\ Len(other) >= w + a
    BY <2>1, <2>2
  <2>5. PICK x : x = SubSeq(data, w + 1, w + a)
    OBVIOUS
  <2>6. BstrOf(data, h) = [value |-> x, consumed |-> w + a]
    BY <1>3, <1>5, <2>4, <2>5 DEF BstrOf
  <2>7. BstrOf(other, h) = [value |-> x, consumed |-> w + a]
    BY <1>3, <1>5, <2>3, <2>4, <2>5 DEF BstrOf
  <2>8. BstrOf(data, h).consumed = k
    BY <2>1, <2>6
  <2> QED
    BY <1>4, <2>6, <2>7, <2>8 DEF SameReading
<1>6. CASE h.major # Bstr
  BY <1>4, <1>6 DEF BstrOf, SameReading
<1> QED
  BY <1>5, <1>6

\* one in its shortest encoding,
LEMMA CanonicalWhole ==
  ASSUME NEW data \in Seq(Byte), NEW other \in Seq(Byte), NEW k, WholeItem(data, other, k)
  PROVE  /\ SameReading(parse_canonical_bstr(data), parse_canonical_bstr(other), k)
         /\ parse_canonical_bstr(data) # Unreadable => parse_canonical_bstr(data) = parse_bstr(data)
<1>1. PICK h : h = CborHead(data)
  OBVIOUS
<1>2. CborHead(other) = h
  BY <1>1, HeadWhole DEF WholeHead
<1>3. parse_bstr(data) = BstrOf(data, h) /\ parse_bstr(other) = BstrOf(other, h)
  BY <1>1, <1>2 DEF parse_bstr
<1>4. SameReading(BstrOf(data, h), BstrOf(other, h), k)
  BY <1>3, BstrWhole
<1>5. /\ parse_canonical_bstr(data) = CanonicalBstrOf(data, h)
      /\ parse_canonical_bstr(other) = CanonicalBstrOf(other, h)
  BY <1>1, <1>2 DEF parse_canonical_bstr
<1> QED
  BY <1>3, <1>4, <1>5 DEF CanonicalBstrOf, SameReading

\* Behind n bytes that are the same.
LEMMA WholeBehind ==
  ASSUME NEW data \in Seq(Byte), NEW other \in Seq(Byte), NEW n \in Nat, NEW k \in Nat \ {0},
         skip_cbor_value(From(data, n)) = k, SameUpTo(data, other, n + k)
  PROVE  /\ From(data, n) \in Seq(Byte) /\ From(other, n) \in Seq(Byte)
         /\ WholeItem(From(data, n), From(other, n), k)
<1>1. SameUpTo(From(data, n), From(other, n), k)
  BY SameRest
<1> QED
  BY <1>1, RestIs DEF WholeItem

\* a thumbprint,
LEMMA X5tWhole ==
  ASSUME NEW data \in Seq(Byte), NEW other \in Seq(Byte), NEW k, WholeItem(data, other, k)
  PROVE  SameReading(parse_x5t_value(data), parse_x5t_value(other), k)
<1>1. PICK h : h = CborHead(data)
  OBVIOUS
<1>2. WholeHead(data, other, k, h) /\ SameUpTo(data, other, k)
  BY <1>1, HeadWhole DEF WholeItem
<1>3. k \in Nat \ {0} /\ data # <<>> /\ k <= Len(data) /\ k <= Len(other)
  BY <1>2 DEF WholeHead, SameUpTo
<1>4. other # <<>> /\ other[1] = data[1]
  <2>1. PICK m \in Nat : Len(other) = m
    BY LenProperties
  <2>2. m # 0 /\ 1 \in 1..k
    BY <1>3, <2>1
  <2>3. \A i \in 1..k : other[i] = data[i]
    BY <1>2 DEF SameUpTo
  <2> QED
    BY <2>1, <2>2, <2>3, EmptySeq
<1>5. CASE data[1] # 130
  BY <1>4, <1>5 DEF parse_x5t_value, SameReading
<1>6. CASE data[1] = 130
  <2>1. 130 \in 0..255 /\ 130 % 32 = 2 /\ 2 < 24 /\ 130 \div 32 = 4
    OBVIOUS
  <2>2. h = [major |-> 130 \div 32, width |-> 1, argument |-> 130 % 32, minimal |-> TRUE]
    BY <1>1, <1>3, <1>6, <2>1, ShortHead
  <2>3. h.major = Array /\ h.width = 1 /\ h.argument = 2
    BY <2>1, <2>2 DEF Array
  <2>4. SkipScan(data)[Items(2, 1)] = k
    BY <1>2, <2>3 DEF WholeHead
  <2>5. PICK a \in Nat \ {0} :
          skip_cbor_value(From(data, 1)) = a /\ SkipScan(data)[Items(1, 1 + a)] = k
    <3>1. SkipScan(data)[Items(1 + 1, 1)] = k /\ 1 \in Nat
      <4>1. 1 + 1 = 2
        OBVIOUS
      <4> QED
        BY <2>4, <4>1
    <3>2. SkippedOne(data, 1, 1, k)
      BY <1>3, <3>1, SkipMany
    <3> QED
      BY <3>2 DEF SkippedOne
  <2>6. PICK b \in Nat \ {0} :
          skip_cbor_value(From(data, 1 + a)) = b /\ SkipScan(data)[Items(0, 1 + a + b)] = k
    <3>1. PICK n \in Nat : n = 1 + a
      OBVIOUS
    <3>2. SkipScan(data)[Items(0 + 1, n)] = k /\ 0 \in Nat
      <4>1. 0 + 1 = 1
        OBVIOUS
      <4> QED
        BY <2>5, <3>1, <4>1
    <3>3. SkippedOne(data, n, 0, k)
      BY <1>3, <3>1, <3>2, SkipMany
    <3> QED
      BY <3>1, <3>3 DEF SkippedOne
  <2>7. k = 1 + a + b
    <3>1. PICK n \in Nat : n = 1 + a + b
      OBVIOUS
    <3>2. PICK at : at = Items(0, n)
      OBVIOUS
    <3>3. at \in ToSkip /\ at.items = 0 /\ at.offset = n
      BY <3>1, <3>2 DEF Items, ToSkip
    <3>4. SkipScan(data)[at] = n
      BY <3>3, SkipEquation
    <3> QED
      BY <2>6, <3>1, <3>2, <3>4
  <2>8. PICK rest \in Seq(Byte), there \in Seq(Byte) :
          rest = From(data, 1) /\ there = From(other, 1) /\ WholeItem(rest, there, a)
    <3>1. SameUpTo(data, other, 1 + a)
      <4>1. 1 + a \in Nat /\ 1 + a <= k
        BY <2>7
      <4> QED
        BY <1>2, <1>3, <4>1, SameLess
    <3> QED
      BY <2>5, <3>1, WholeBehind
  <2>9. SameReading(try_parse_cbor_int(rest), try_parse_cbor_int(there), a)
    BY <2>8, NumberWhole
  <2>10. PICK last \in Seq(Byte), final \in Seq(Byte) :
           last = From(data, 1 + a) /\ final = From(other, 1 + a) /\ WholeItem(last, final, b)
    <3>1. SameUpTo(data, other, (1 + a) + b) /\ 1 + a \in Nat
      BY <1>2, <2>7
    <3> QED
      BY <2>6, <3>1, WholeBehind
  <2>11. SameReading(parse_bstr(last), parse_bstr(final), b)
    BY <2>10, BstrWhole
  <2>12. PICK alg, hash : alg = try_parse_cbor_int(rest) /\ hash = parse_bstr(last)
    OBVIOUS
  <2>13. /\ parse_x5t_value(data) = ThumbprintAfter(data, alg)
         /\ parse_x5t_value(other) = ThumbprintAfter(other, alg)
    BY <1>3, <1>4, <1>6, <2>8, <2>9, <2>12 DEF parse_x5t_value, SameReading
  <2>14. CASE alg = Unreadable
    BY <2>13, <2>14 DEF ThumbprintAfter, SameReading
  <2>15. CASE alg # Unreadable
    <3>1. alg.consumed = a
      BY <2>9, <2>12, <2>15 DEF SameReading
    <3>2. /\ parse_x5t_value(data) = Thumbprint(alg, hash)
          /\ parse_x5t_value(other) = Thumbprint(alg, hash)
      BY <2>10, <2>11, <2>12, <2>13, <2>15, <3>1 DEF ThumbprintAfter, SameReading
    <3>3. ASSUME Thumbprint(alg, hash) # Unreadable
          PROVE  Thumbprint(alg, hash).consumed = k
      <4>1. hash # Unreadable /\ Thumbprint(alg, hash) =
              [value |-> [algorithm |-> alg.value, hash |-> hash.value],
               consumed |-> 1 + alg.consumed + hash.consumed]
        BY <3>3 DEF Thumbprint
      <4>2. hash.consumed = b
        BY <2>11, <2>12, <4>1 DEF SameReading
      <4> QED
        BY <2>7, <3>1, <4>1, <4>2
    <3> QED
      BY <3>2, <3>3 DEF SameReading
  <2> QED
    BY <2>14, <2>15
<1> QED
  BY <1>5, <1>6

\* An alg parameter: the members of its array are items of it.
MemberWhole(data, other, s, size) ==
  /\ AlgItem(other, s) = AlgItem(data, s)
  /\ AlgItem(data, s) # Unreadable =>
       AlgItem(data, s) \in AlgState /\ AlgItem(data, s).offset = s.offset + size

\* A member is one of the items in the array,
LEMMA AlgItemWhole ==
  ASSUME NEW data \in Seq(Byte), NEW other \in Seq(Byte), NEW s \in AlgState,
         NEW size \in Nat \ {0}, skip_cbor_value(From(data, s.offset)) = size,
         SameUpTo(data, other, s.offset + size)
  PROVE  MemberWhole(data, other, s, size)
<1>1. PICK o \in Nat : s.offset = o
  BY DEF AlgState
<1>2. s # Unreadable
  BY UnreadableAssumption
<1>3. PICK rest \in Seq(Byte), there \in Seq(Byte) :
        rest = From(data, o) /\ there = From(other, o) /\ WholeItem(rest, there, size)
  BY <1>1, WholeBehind
<1>4. PICK int : int = try_parse_cbor_int(rest)
  OBVIOUS
<1>5. try_parse_cbor_int(there) = int /\ (int # Unreadable => int.consumed = size)
  BY <1>3, <1>4, NumberWhole DEF SameReading
<1>6. skip_cbor_value(there) = size /\ skip_cbor_value(rest) = size
  BY <1>3, SkipLocal DEF WholeItem
<1>7. PICK next : next = AlgMember(s, int, size)
  OBVIOUS
<1>8. AlgItem(data, s) = next
  BY <1>1, <1>2, <1>3, <1>4, <1>6, <1>7 DEF AlgItem
<1>9. AlgItem(other, s) = next
  BY <1>1, <1>2, <1>3, <1>5, <1>6, <1>7 DEF AlgItem
<1>10. ASSUME next # Unreadable PROVE next \in AlgState /\ next.offset = s.offset + size
  <2>1. next \in AlgState
    BY <1>8, <1>10, AlgItemLocal
  <2>2. CASE int # Unreadable
    <3>1. next = [offset |-> s.offset + int.consumed, seen |-> s.seen \cup {int.value}]
      BY <1>7, <1>10, <2>2 DEF AlgMember
    <3> QED
      BY <1>5, <2>1, <2>2, <3>1
  <2>3. CASE int = Unreadable
    <3>1. size > 0
      OBVIOUS
    <3>2. next = [s EXCEPT !.offset = @ + size]
      BY <1>7, <2>3, <3>1 DEF AlgMember
    <3>3. PICK seen : s = [offset |-> o, seen |-> seen]
      BY <1>1 DEF AlgState
    <3> QED
      BY <2>1, <3>2, <3>3
  <2> QED
    BY <2>2, <2>3
<1> QED
  BY <1>8, <1>9, <1>10 DEF MemberWhole

\* So far the array is read the same, and what is left to skip ends where the
\* item does.
ReadAlike(data, other, n, k, i) ==
  /\ AlgScan(other)[i] = AlgScan(data)[i]
  /\ AlgScan(data)[i] # Unreadable =>
       AlgScan(data)[i] \in AlgState /\ SkipScan(data)[Items(n - i, AlgScan(data)[i].offset)] = k

\* so that after each member the others are still to be skipped,
LEMMA AlgNext ==
  ASSUME NEW data \in Seq(Byte), NEW other \in Seq(Byte), NEW n \in Nat, NEW k \in Nat \ {0},
         SameUpTo(data, other, k), NEW i \in Nat, i < n, ReadAlike(data, other, n, k, i)
  PROVE  ReadAlike(data, other, n, k, i + 1)
<1>1. /\ Loop(AlgScan(data), AlgStates, AlgStart, AlgStep(data))
      /\ Loop(AlgScan(other), AlgStates, AlgStart, AlgStep(other))
  BY AlgLoop
<1>2. PICK s : s = AlgScan(data)[i] /\ s = AlgScan(other)[i]
  BY DEF ReadAlike
<1>3. s \in AlgStates
  BY <1>1, <1>2 DEF Loop
<1>4. AlgScan(data)[i + 1] = AlgItem(data, s) /\ AlgScan(other)[i + 1] = AlgItem(other, s)
  BY <1>1, <1>2, <1>3 DEF Loop, AlgStep
<1>5. CASE s = Unreadable
  BY <1>4, <1>5 DEF ReadAlike, AlgItem
<1>6. CASE s # Unreadable
  <2>1. s \in AlgState /\ SkipScan(data)[Items(n - i, s.offset)] = k
    BY <1>2, <1>6 DEF ReadAlike
  <2>2. PICK o \in Nat, e \in Nat : s.offset = o /\ n - i = e + 1
    <3>1. (n - i) - 1 \in Nat /\ ((n - i) - 1) + 1 = n - i
      OBVIOUS
    <3>2. s.offset \in Nat
      BY <2>1 DEF AlgState
    <3> QED
      BY <3>1, <3>2
  <2>3. SkippedOne(data, o, e, k)
    <3>1. SkipScan(data)[Items(e + 1, o)] = k /\ k # 0
      BY <2>1, <2>2
    <3> QED
      BY <2>2, <3>1, SkipMany
  <2>4. PICK size \in Nat \ {0} :
          skip_cbor_value(From(data, o)) = size /\ SkipScan(data)[Items(e, o + size)] = k
    BY <2>3 DEF SkippedOne
  <2>5. o + size <= k
    <3>1. PICK at : at = Items(e, o + size)
      OBVIOUS
    <3>2. at \in ToSkip /\ at.offset = o + size
      BY <2>2, <2>4, <3>1 DEF Items, ToSkip
    <3> QED
      BY <2>4, <3>1, <3>2, ScanForward
  <2>6. SameUpTo(data, other, o + size)
    BY <2>2, <2>4, <2>5, SameLess
  <2>7. MemberWhole(data, other, s, size)
    BY <2>1, <2>2, <2>4, <2>6, AlgItemWhole
  <2>8. n - (i + 1) = e
    BY <2>2
  <2>9. PICK next : next = AlgItem(data, s)
    OBVIOUS
  <2>10. AlgItem(other, s) = next /\ (next # Unreadable => next \in AlgState /\ next.offset = o + size)
    BY <2>2, <2>7, <2>9 DEF MemberWhole
  <2> QED
    BY <1>4, <2>4, <2>8, <2>9, <2>10 DEF ReadAlike
<1> QED
  BY <1>5, <1>6

\* and after the last the array ends.
LEMMA AlgArrayWhole ==
  ASSUME NEW data \in Seq(Byte), NEW other \in Seq(Byte), NEW k \in Nat \ {0},
         SameUpTo(data, other, k), NEW n \in Nat, SkipScan(data)[Items(n, 1)] = k
  PROVE  /\ ValueEnd(AlgArray(other, n)) = ValueEnd(AlgArray(data, n))
         /\ ValueEnd(AlgArray(data, n)) \in {0, k}
<1> DEFINE Bad == {i \in Nat : i <= n /\ ~ReadAlike(data, other, n, k, i)}
<1>1. ReadAlike(data, other, n, k, 0)
  <2>1. AlgScan(data)[0] = AlgStart /\ AlgScan(other)[0] = AlgStart
    BY AlgLoop DEF Loop
  <2>2. AlgStart \in AlgState /\ AlgStart.offset = 1
    BY DEF AlgStart, AlgState
  <2>3. n - 0 = n
    OBVIOUS
  <2> QED
    BY <2>1, <2>2, <2>3 DEF ReadAlike
<1>2. ReadAlike(data, other, n, k, n)
  <2>1. ASSUME Bad # {} PROVE FALSE
    <3>1. PICK i \in Bad : \A j \in Bad : i <= j
      <4>1. Bad \subseteq Nat
        OBVIOUS
      <4> HIDE DEF Bad
      <4> QED
        BY <2>1, <4>1, Least
    <3>2. i # 0 /\ i \in Nat /\ i <= n
      BY <1>1, <3>1
    <3>3. PICK j \in Nat : j + 1 = i /\ j < n
      <4>1. i - 1 \in Nat /\ (i - 1) + 1 = i /\ i - 1 < n
        BY <3>2
      <4> QED
        BY <4>1
    <3>4. ReadAlike(data, other, n, k, j)
      <4>1. j \notin Bad
        <5>1. ~(i <= j)
          BY <3>3
        <5> HIDE DEF Bad
        <5> QED
          BY <3>1, <5>1
      <4>2. j <= n
        BY <3>3
      <4> QED
        BY <3>3, <4>1, <4>2
    <3>5. ReadAlike(data, other, n, k, j + 1)
      <4>1. j \in Nat /\ j < n
        BY <3>3
      <4> HIDE DEF Bad
      <4> QED
        BY <3>4, <4>1, AlgNext
    <3> QED
      BY <3>1, <3>3, <3>5
  <2>2. n <= n
    OBVIOUS
  <2> QED
    BY <2>1, <2>2
<1>3. PICK s : s = AlgScan(data)[n] /\ s = AlgScan(other)[n]
  BY <1>2 DEF ReadAlike
<1>4. AlgArray(data, n) = s /\ AlgArray(other, n) = s
  BY <1>3, AlgLoop
<1>5. ASSUME s # Unreadable PROVE s.offset = k
  <2>1. s \in AlgState /\ SkipScan(data)[Items(n - n, s.offset)] = k
    BY <1>2, <1>3, <1>5 DEF ReadAlike
  <2>2. PICK o \in Nat : s.offset = o
    BY <2>1 DEF AlgState
  <2>3. PICK at : at = Items(0, o)
    OBVIOUS
  <2>4. at \in ToSkip /\ at.items = 0 /\ at.offset = o
    BY <2>3 DEF Items, ToSkip
  <2>5. SkipScan(data)[at] = o
    BY <2>4, SkipEquation
  <2>6. n - n = 0
    OBVIOUS
  <2> QED
    BY <2>1, <2>2, <2>3, <2>5, <2>6
<1> QED
  BY <1>4, <1>5 DEF ValueEnd

\* An alg parameter is an integer or such an array.
LEMMA AlgWhole ==
  ASSUME NEW data \in Seq(Byte), NEW other \in Seq(Byte), NEW k, WholeItem(data, other, k)
  PROVE  /\ validate_alg_value(other) = validate_alg_value(data)
         /\ validate_alg_value(data) \in {0, k}
<1>1. PICK h : h = CborHead(data)
  OBVIOUS
<1>2. WholeHead(data, other, k, h) /\ SameUpTo(data, other, k)
  BY <1>1, HeadWhole DEF WholeItem
<1>3. validate_alg_value(data) = AlgValue(data, h) /\ validate_alg_value(other) = AlgValue(other, h)
  BY <1>1, <1>2 DEF validate_alg_value, WholeHead
<1>4. CASE h.major \in {Uint, Negative}
  <2>1. ~(h.major = Array)
    BY <1>4 DEF Uint, Negative, Array
  <2>2. AlgValue(data, h) = h.width /\ AlgValue(other, h) = h.width
    BY <1>4, <2>1, Zenon DEF AlgValue
  <2>3. h.width = k
    BY <1>2, <1>4 DEF WholeHead
  <2> QED
    BY <1>3, <2>2, <2>3
<1>5. CASE h.major = Array /\ h.width = 1
  <2>1. ~(h.major \in {Uint, Negative})
    BY <1>5 DEF Uint, Negative, Array
  <2>2. /\ AlgValue(data, h) = ValueEnd(AlgArray(data, h.argument))
        /\ AlgValue(other, h) = ValueEnd(AlgArray(other, h.argument))
    BY <1>5, <2>1, Zenon DEF AlgValue
  <2>3. PICK n \in Nat : h.argument = n
    BY <1>2 DEF WholeHead, Heading
  <2>4. SkipScan(data)[Items(n, 1)] = k /\ k \in Nat \ {0}
    BY <1>2, <1>5, <2>3 DEF WholeHead
  <2>5. /\ ValueEnd(AlgArray(other, n)) = ValueEnd(AlgArray(data, n))
        /\ ValueEnd(AlgArray(data, n)) \in {0, k}
    BY <1>2, <2>3, <2>4, AlgArrayWhole
  <2> QED
    BY <1>3, <2>2, <2>3, <2>5
<1>6. CASE ~(h.major \in {Uint, Negative}) /\ ~(h.major = Array /\ h.width = 1)
  <2>1. AlgValue(data, h) = 0 /\ AlgValue(other, h) = 0
    BY <1>6, Zenon DEF AlgValue
  <2> QED
    BY <1>3, <2>1
<1> QED
  BY <1>4, <1>5, <1>6

-----------------------------------------------------------------------------
\* Parameters of an ID_CRED.

\* A state of the loop after a value of k bytes, when it is taken.
Added(s, next, label, k, kid, x5t) ==
  /\ next \in MapState /\ next # Unreadable /\ next.offset = s.offset + k
  /\ next.labels = IF label = Unreadable THEN s.labels ELSE s.labels \cup {label}
  /\ next.kid = kid /\ next.x5t = x5t

\* So it is of a value of which only the length counts,
LEMMA PassAdds ==
  ASSUME NEW s \in MapState, NEW label \in Labels, NEW k \in Nat \ {0}
  PROVE  Added(s, Pass(s, label, k), label, k, s.kid, s.x5t)
<1>1. PICK o, labels, kid, x5t : s = [offset |-> o, labels |-> labels, kid |-> kid, x5t |-> x5t]
  BY DEF MapState
<1>2. PICK next : next = Pass(s, label, k)
  OBVIOUS
<1>3. next \in MapState /\ next.offset = s.offset + k
  BY <1>2, PassIs
<1>4. next # Unreadable
  BY <1>3, UnreadableAssumption
<1>5. next = [s EXCEPT !.offset = @ + k, !.labels = IF label = Unreadable THEN @ ELSE @ \cup {label}]
  BY <1>2 DEF Pass
<1>6. PICK q, met : q = o + k /\ met = IF label = Unreadable THEN labels ELSE labels \cup {label}
  OBVIOUS
<1>7. next = [offset |-> q, labels |-> met, kid |-> kid, x5t |-> x5t]
  BY <1>1, <1>5, <1>6
<1>8. next.labels = met /\ next.kid = s.kid /\ next.x5t = s.x5t /\ s.labels = labels
  BY <1>1, <1>7
<1> QED
  BY <1>2, <1>3, <1>4, <1>6, <1>8 DEF Added

\* of a kid, unless it is too long,
LEMMA TakeKidAdds ==
  ASSUME NEW s \in MapState, NEW kid \in Reading(Kids), kid # Unreadable,
         NEW k \in Nat \ {0}, kid.consumed = k
  PROVE  IF Len(kid.value) > ID_CRED_MAX_LEN THEN TakeKid(s, kid) = Unreadable
         ELSE Added(s, TakeKid(s, kid), 4, k, kid.value, s.x5t)
<1>1. CASE Len(kid.value) > ID_CRED_MAX_LEN
  BY <1>1 DEF TakeKid
<1>2. CASE ~(Len(kid.value) > ID_CRED_MAX_LEN)
  <2>1. PICK p : p = Pass(s, 4, k)
    OBVIOUS
  <2>2. Added(s, p, 4, k, s.kid, s.x5t)
    <3>1. 4 \in Labels
      BY DEF Labels
    <3> QED
      BY <2>1, <3>1, PassAdds
  <2>3. PICK next : next = TakeKid(s, kid)
    OBVIOUS
  <2>4. next = [p EXCEPT !.kid = kid.value]
    BY <1>2, <2>1, <2>3 DEF TakeKid
  <2>5. PICK o, labels, c, x5t : p = [offset |-> o, labels |-> labels, kid |-> c, x5t |-> x5t]
    BY <2>2 DEF Added, MapState
  <2>6. PICK v \in Kids : kid.value = v
    BY DEF Reading
  <2>7. next = [offset |-> o, labels |-> labels, kid |-> v, x5t |-> x5t]
    BY <2>4, <2>5, <2>6
  <2>8. next.offset = p.offset /\ next.labels = p.labels /\ next.kid = v /\ next.x5t = p.x5t
    BY <2>5, <2>7
  <2>9. next \in MapState
    BY <2>2, <2>5, <2>6, <2>7 DEF Added, MapState
  <2>10. next # Unreadable
    BY <2>9, UnreadableAssumption
  <2>11. Added(s, next, 4, k, v, s.x5t)
    BY <2>2, <2>8, <2>9, <2>10 DEF Added
  <2> QED
    BY <1>2, <2>3, <2>6, <2>11
<1> QED
  BY <1>1, <1>2

\* and of a thumbprint.
LEMMA TakeX5tAdds ==
  ASSUME NEW s \in MapState, NEW x5t \in Reading(Thumbprints), x5t # Unreadable,
         NEW k \in Nat \ {0}, x5t.consumed = k
  PROVE  Added(s, TakeX5t(s, x5t), 34, k, s.kid, x5t.value)
<1>1. PICK p : p = Pass(s, 34, k)
  OBVIOUS
<1>2. Added(s, p, 34, k, s.kid, s.x5t)
  <2>1. 34 \in Labels
    BY DEF Labels
  <2> QED
    BY <1>1, <2>1, PassAdds
<1>3. PICK next : next = TakeX5t(s, x5t)
  OBVIOUS
<1>4. next = [p EXCEPT !.x5t = x5t.value]
  BY <1>1, <1>3 DEF TakeX5t
<1>5. PICK o, labels, kid, c : p = [offset |-> o, labels |-> labels, kid |-> kid, x5t |-> c]
  BY <1>2 DEF Added, MapState
<1>6. PICK v \in Thumbprints : x5t.value = v
  BY DEF Reading
<1>7. next = [offset |-> o, labels |-> labels, kid |-> kid, x5t |-> v]
  BY <1>4, <1>5, <1>6
<1>8. next.offset = p.offset /\ next.labels = p.labels /\ next.kid = p.kid /\ next.x5t = v
  BY <1>5, <1>7
<1>9. next \in MapState
  BY <1>2, <1>5, <1>6, <1>7 DEF Added, MapState
<1>10. next # Unreadable
  BY <1>9, UnreadableAssumption
<1>11. Added(s, next, 34, k, s.kid, v)
  BY <1>2, <1>8, <1>9, <1>10 DEF Added
<1> QED
  BY <1>3, <1>6, <1>11

\* The references after a value.
KidAfter(s, label, value) == IF label = 4 THEN parse_bstr(value).value ELSE s.kid
X5tAfter(s, label, value) == IF label = 34 THEN parse_x5t_value(value).value ELSE s.x5t

\* A value that is taken alone is taken, and one that is not is refused.
AsAlone(value, other, label, met, s, k) ==
  IF IdCredValue(value, NothingRead, label) # Unreadable
  THEN Added(s, IdCredValue(other, s, met), met, k, KidAfter(s, met, value),
             X5tAfter(s, met, value))
  ELSE IdCredValue(other, s, met) = Unreadable

\* Values of which only the length counts.
LEMMA SizeAlone ==
  ASSUME NEW value, NEW other, NEW s \in MapState, NEW label \in Labels, NEW met \in Labels,
         NEW k \in Nat \ {0}, NEW size \in {0, k},
         IdCredValue(value, NothingRead, label) = Pass(NothingRead, label, size),
         IdCredValue(other, s, met) = Pass(s, met, size), met # 4, met # 34
  PROVE  AsAlone(value, other, label, met, s, k)
<1>1. KidAfter(s, met, value) = s.kid /\ X5tAfter(s, met, value) = s.x5t
  BY DEF KidAfter, X5tAfter
<1>2. CASE size = 0
  BY <1>2 DEF AsAlone, Pass
<1>3. CASE size = k
  <2>1. Added(s, Pass(s, met, k), met, k, s.kid, s.x5t)
    BY PassAdds
  <2>2. Added(NothingRead, Pass(NothingRead, label, k), label, k, NothingRead.kid, NothingRead.x5t)
    BY MapStart, PassAdds
  <2>3. Pass(NothingRead, label, k) # Unreadable
    BY <2>2 DEF Added
  <2> QED
    BY <1>1, <1>3, <2>1, <2>3 DEF AsAlone
<1> QED
  BY <1>2, <1>3

\* A kid,
LEMMA KidAlone ==
  ASSUME NEW value \in Seq(Byte), NEW other \in Seq(Byte), NEW k, WholeItem(value, other, k),
         NEW s \in MapState
  PROVE  AsAlone(value, other, 4, 4, s, k)
<1>1. PICK r : r = parse_canonical_bstr(value)
  OBVIOUS
<1>2. parse_canonical_bstr(other) = r /\ (r # Unreadable => r.consumed = k /\ r = parse_bstr(value))
  BY <1>1, CanonicalWhole DEF SameReading
<1>3. /\ IdCredValue(value, NothingRead, 4) = TakeKid(NothingRead, r)
      /\ IdCredValue(other, s, 4) = TakeKid(s, r)
  BY <1>1, <1>2 DEF IdCredValue
<1>4. CASE r = Unreadable
  BY <1>3, <1>4 DEF AsAlone, TakeKid
<1>5. CASE r # Unreadable
  <2>1. r \in Reading(Kids) /\ k \in Nat \ {0}
    <3>1. r \in Reading(Kids)
      BY <1>1, <1>5, CanonicalLocal
    <3>2. k \in Nat \ {0}
      BY SkipLocal DEF WholeItem
    <3> QED
      BY <3>1, <3>2
  <2>2. IF Len(r.value) > ID_CRED_MAX_LEN THEN TakeKid(s, r) = Unreadable
        ELSE Added(s, TakeKid(s, r), 4, k, r.value, s.x5t)
    BY <1>2, <1>5, <2>1, TakeKidAdds
  <2>3. IF Len(r.value) > ID_CRED_MAX_LEN THEN TakeKid(NothingRead, r) = Unreadable
        ELSE Added(NothingRead, TakeKid(NothingRead, r), 4, k, r.value, NothingRead.x5t)
    BY <1>2, <1>5, <2>1, MapStart, TakeKidAdds
  <2>4. KidAfter(s, 4, value) = r.value /\ X5tAfter(s, 4, value) = s.x5t
    BY <1>2, <1>5 DEF KidAfter, X5tAfter
  <2>5. CASE Len(r.value) > ID_CRED_MAX_LEN
    BY <1>3, <2>2, <2>3, <2>5 DEF AsAlone
  <2>6. CASE ~(Len(r.value) > ID_CRED_MAX_LEN)
    <3>1. TakeKid(NothingRead, r) # Unreadable
      BY <2>3, <2>6 DEF Added
    <3>2. Added(s, TakeKid(s, r), 4, k, r.value, s.x5t)
      BY <2>2, <2>6
    <3> QED
      BY <1>3, <2>4, <3>1, <3>2 DEF AsAlone
  <2> QED
    BY <2>5, <2>6
<1> QED
  BY <1>4, <1>5

\* a thumbprint,
LEMMA X5tAlone ==
  ASSUME NEW value \in Seq(Byte), NEW other \in Seq(Byte), NEW k, WholeItem(value, other, k),
         NEW s \in MapState
  PROVE  AsAlone(value, other, 34, 34, s, k)
<1>1. PICK r : r = parse_x5t_value(value)
  OBVIOUS
<1>2. parse_x5t_value(other) = r /\ (r # Unreadable => r.consumed = k)
  BY <1>1, X5tWhole DEF SameReading
<1>3. /\ IdCredValue(value, NothingRead, 34) = TakeX5t(NothingRead, r)
      /\ IdCredValue(other, s, 34) = TakeX5t(s, r)
  BY <1>1, <1>2 DEF IdCredValue
<1>4. CASE r = Unreadable
  BY <1>3, <1>4 DEF AsAlone, TakeX5t
<1>5. CASE r # Unreadable
  <2>1. r \in Reading(Thumbprints) /\ k \in Nat \ {0}
    <3>1. r \in Reading(Thumbprints)
      BY <1>1, <1>5, X5tLocal
    <3>2. k \in Nat \ {0}
      BY SkipLocal DEF WholeItem
    <3> QED
      BY <3>1, <3>2
  <2>2. Added(s, TakeX5t(s, r), 34, k, s.kid, r.value)
    BY <1>2, <1>5, <2>1, TakeX5tAdds
  <2>3. TakeX5t(NothingRead, r) # Unreadable
    BY <1>2, <1>5, <2>1, MapStart, TakeX5tAdds DEF Added
  <2>4. KidAfter(s, 34, value) = s.kid /\ X5tAfter(s, 34, value) = r.value
    BY <1>1 DEF KidAfter, X5tAfter
  <2> QED
    BY <1>3, <2>2, <2>3, <2>4 DEF AsAlone
<1> QED
  BY <1>4, <1>5

\* The label of a parameter as the loop meets it.
Met(label) == IF label = TextLabel THEN Unreadable ELSE label

\* and any value at all is taken in a map, whatever is read of it and whatever
\* follows, if and only if it is taken alone.
\* (parse_id_cred, IdCredValue)
LEMMA ValueAlone ==
  ASSUME NEW value \in Seq(Byte), NEW other \in Seq(Byte), NEW k, WholeItem(value, other, k),
         NEW s \in MapState, NEW label \in Int, NEW met, met = Met(label)
  PROVE  AsAlone(value, other, label, met, s, k)
<1>1. k \in Nat \ {0} /\ k = skip_cbor_value(value) /\ skip_cbor_value(other) = k
  BY SkipLocal DEF WholeItem
<1>2. label \in Labels /\ met \in Labels
  BY DEF Labels, Met
<1>3. \A n \in {1, 2, 4, 34} : n # TextLabel /\ n # Unreadable
  BY UnreadableAssumption DEF TextLabel
<1>4. CASE label = 4
  BY <1>3, <1>4, KidAlone DEF Met
<1>5. CASE label = 34
  BY <1>3, <1>5, X5tAlone DEF Met
<1>6. CASE label = 1
  <2>1. met = 1
    BY <1>3, <1>6 DEF Met
  <2>2. PICK size \in {0, k} : size = skip_int_value(value) /\ size = skip_int_value(other)
    BY IntWhole
  <2>3. /\ IdCredValue(value, NothingRead, label) = Pass(NothingRead, label, size)
        /\ IdCredValue(other, s, met) = Pass(s, met, size)
    BY <1>6, <2>1, <2>2 DEF IdCredValue
  <2> QED
    BY <1>1, <1>2, <2>1, <2>2, <2>3, SizeAlone
<1>7. CASE label = 2
  <2>1. met = 2
    BY <1>3, <1>7 DEF Met
  <2>2. PICK size \in {0, k} : size = validate_alg_value(value) /\ size = validate_alg_value(other)
    BY AlgWhole
  <2>3. /\ IdCredValue(value, NothingRead, label) = Pass(NothingRead, label, size)
        /\ IdCredValue(other, s, met) = Pass(s, met, size)
    BY <1>7, <2>1, <2>2 DEF IdCredValue
  <2> QED
    BY <1>1, <1>2, <2>1, <2>2, <2>3, SizeAlone
<1>8. CASE label \notin {1, 2, 4, 34}
  <2>1. met \notin {1, 2, 4, 34}
    BY <1>3, <1>8 DEF Met
  <2>2. IdCredValue(value, NothingRead, label) = Pass(NothingRead, label, k)
    BY <1>1, <1>8, Zenon DEF IdCredValue
  <2>3. IdCredValue(other, s, met) = Pass(s, met, k)
    BY <1>1, <2>1, Zenon DEF IdCredValue
  <2>4. k \in {0, k}
    OBVIOUS
  <2> QED
    BY <1>1, <1>2, <2>1, <2>2, <2>3, <2>4, SizeAlone
<1> QED
  BY <1>4, <1>5, <1>6, <1>7, <1>8

\* An item is itself whatever follows it.
LEMMA ItemWhole ==
  ASSUME NEW item \in Seq(Byte), item # <<>>, NEW k \in Nat, Len(item) = k,
         skip_cbor_value(item) = k, NEW rest \in Seq(Byte)
  PROVE  WholeItem(item, Cat(item, rest), k)
<1>1. k # 0
  BY EmptySeq
<1>2. PICK l \in Nat : Len(rest) = l
  BY LenProperties
<1>3. /\ Len(Cat(item, rest)) = k + l
      /\ \A i \in 1..k : Cat(item, rest)[i] = item[i]
  <2>1. /\ Len(Cat(item, rest)) = Len(item) + Len(rest)
        /\ \A i \in 1..Len(item) : Cat(item, rest)[i] = item[i]
    BY Parts
  <2> QED
    BY <1>2, <2>1
<1>4. SameUpTo(item, Cat(item, rest), k)
  BY <1>2, <1>3 DEF SameUpTo
<1> QED
  BY <1>1, <1>4 DEF WholeItem

\* The loop meets the label of a parameter behind its key.
LEMMA KeyRead ==
  ASSUME NEW p, EncodesParameter(p), NEW s \in MapState, NEW data, NEW rest \in Seq(Byte),
         From(data, s.offset) = Cat(p.key, rest)
  PROVE  IdCredPair(data, s) = AfterKey(data, s, Met(p.label), Len(p.key))
<1>1. PICK key, there : key = p.key /\ there = Cat(key, rest)
  OBVIOUS
<1>2. key \in Seq(Byte) /\ key # <<>> /\ skip_cbor_value(key) = Len(key)
  BY <1>1 DEF EncodesParameter
<1>3. PICK k \in Nat : Len(key) = k
  BY <1>2, LenProperties
<1>4. there \in Seq(Byte)
  BY <1>1, <1>2, CatBytes
<1>5. WholeItem(key, there, k)
  BY <1>1, <1>2, <1>3, ItemWhole
<1>6. try_parse_cbor_int(there) = try_parse_cbor_int(key)
  BY <1>2, <1>4, <1>5, NumberWhole DEF SameReading
<1>7. skip_cbor_value(there) = k
  BY <1>2, <1>4, <1>5, SkipLocal DEF WholeItem
<1>8. s # Unreadable
  BY UnreadableAssumption
<1>9. IdCredPair(data, s) = IntKey(data, s, try_parse_cbor_int(key))
  BY <1>1, <1>6, <1>8 DEF IdCredPair
<1>10. CASE p.label = TextLabel
  <2>1. try_parse_cbor_int(key) = Unreadable
    BY <1>1, <1>10 DEF EncodesParameter
  <2>2. IntKey(data, s, Unreadable) = AfterKey(data, s, Unreadable, k)
    BY <1>1, <1>7 DEF IntKey
  <2> QED
    BY <1>1, <1>3, <1>9, <1>10, <2>1, <2>2 DEF Met
<1>11. CASE p.label # TextLabel
  <2>1. try_parse_cbor_int(key) = [value |-> p.label, consumed |-> k]
    BY <1>1, <1>3, <1>11 DEF EncodesParameter
  <2>2. [value |-> p.label, consumed |-> k] # Unreadable
    <3>1. [value |-> p.label, consumed |-> k] \in Reading(Int)
      BY DEF EncodesParameter, Reading
    <3> QED
      BY <3>1, UnreadableAssumption
  <2>3. IntKey(data, s, [value |-> p.label, consumed |-> k]) = AfterKey(data, s, p.label, k)
    BY <2>2 DEF IntKey
  <2> QED
    BY <1>1, <1>3, <1>9, <1>11, <2>1, <2>3 DEF Met
<1> QED
  BY <1>10, <1>11

\* What a parameter comes to: it is refused, or added to what is read.
PairRead(p, s, next) ==
  IF Met(p.label) \in s.labels \/ ~p.good THEN next = Unreadable
  ELSE Added(s, next, Met(p.label), Len(p.key) + Len(p.value),
             KidAfter(s, Met(p.label), p.value), X5tAfter(s, Met(p.label), p.value))

\* A parameter is refused for a repeated label or for its own value, and for
\* nothing else.
LEMMA PairAlone ==
  ASSUME NEW p, EncodesParameter(p), NEW s \in MapState, NEW data \in Seq(Byte),
         NEW tail \in Seq(Byte), From(data, s.offset) = Cat(p.key, Cat(p.value, tail))
  PROVE  PairRead(p, s, IdCredPair(data, s))
<1>1. PICK key \in Seq(Byte), value \in Seq(Byte) :
        /\ key = p.key /\ value = p.value /\ key # <<>> /\ value # <<>>
        /\ skip_cbor_value(value) = Len(value)
  BY DEF EncodesParameter
<1>2. PICK j \in Nat, k \in Nat : Len(key) = j /\ Len(value) = k
  BY LenProperties
<1>3. j # 0
  BY <1>1, <1>2, EmptySeq
<1>4. PICK label \in Int, met \in Labels : label = p.label /\ met = Met(label)
  BY DEF EncodesParameter, Met, Labels
<1>5. p.good = (IdCredValue(value, NothingRead, label) # Unreadable)
  BY <1>1, <1>4 DEF EncodesParameter
<1>6. PICK rest \in Seq(Byte) : rest = Cat(value, tail)
  BY CatBytes
<1>7. IdCredPair(data, s) = AfterKey(data, s, met, j)
  BY <1>1, <1>2, <1>4, <1>6, KeyRead
<1>8. PICK o \in Nat, labels \in SUBSET Int, c \in Kids \cup {Unreadable},
           e \in Thumbprints \cup {Unreadable} :
        s = [offset |-> o, labels |-> labels, kid |-> c, x5t |-> e]
  BY DEF MapState
<1>9. PICK t : t = [s EXCEPT !.offset = @ + j]
  OBVIOUS
<1>10. t = [offset |-> o + j, labels |-> labels, kid |-> c, x5t |-> e]
  BY <1>8, <1>9
<1>11. t \in MapState /\ t.offset = o + j /\ t.labels = s.labels /\ t.kid = s.kid /\ t.x5t = s.x5t
  BY <1>8, <1>10 DEF MapState
<1>12. From(data, o + j) = rest
  <2>1. From(From(data, o), j) = From(data, o + j)
    BY FromFrom
  <2>2. From(Cat(key, rest), j) = rest
    BY <1>2, FromCat
  <2> QED
    BY <1>1, <1>6, <1>8, <2>1, <2>2
<1>13. CASE met \in s.labels
  BY <1>4, <1>7, <1>13 DEF AfterKey, PairRead
<1>14. CASE met \notin s.labels
  <2>1. PICK next : next = IdCredPair(data, s)
    OBVIOUS
  <2>2. next = IdCredValue(rest, t, met)
    BY <1>3, <1>7, <1>8, <1>9, <1>12, <1>14, <2>1 DEF AfterKey
  <2>3. AsAlone(value, rest, label, met, t, k)
    <3>1. WholeItem(value, rest, k)
      BY <1>1, <1>2, <1>6, ItemWhole
    <3> QED
      BY <1>4, <1>11, <3>1, ValueAlone
  <2>4. CASE p.good
    <3>1. Added(t, next, met, k, KidAfter(t, met, value), X5tAfter(t, met, value))
      BY <1>5, <2>2, <2>3, <2>4 DEF AsAlone
    <3>2. KidAfter(t, met, value) = KidAfter(s, met, value)
      BY <1>11 DEF KidAfter
    <3>3. X5tAfter(t, met, value) = X5tAfter(s, met, value)
      BY <1>11 DEF X5tAfter
    <3>4. (o + j) + k = o + (j + k) /\ s.offset = o
      BY <1>8
    <3>5. Added(s, next, met, j + k, KidAfter(s, met, value), X5tAfter(s, met, value))
      BY <1>11, <3>1, <3>2, <3>3, <3>4 DEF Added
    <3> QED
      BY <1>1, <1>2, <1>4, <1>14, <2>1, <2>4, <3>5 DEF PairRead
  <2>5. CASE ~p.good
    <3>1. next = Unreadable
      BY <1>5, <2>2, <2>3, <2>5 DEF AsAlone
    <3> QED
      BY <2>1, <2>5, <3>1 DEF PairRead
  <2> QED
    BY <2>4, <2>5
<1> QED
  BY <1>13, <1>14

\* Parameters that are all good, without a repeated integer label.
Fits(ps, n) ==
  /\ \A i \in 1..n : ps[i].good
  /\ \A i, j \in 1..n : ps[i].label = ps[j].label => i = j \/ ps[i].label = TextLabel

\* What is read of n parameters that are taken: their labels, and the last
\* reference of each kind.
Recalled(s, ps, n) ==
  /\ \A x \in Int : x \in s.labels <=> x # TextLabel /\ \E i \in 1..n : ps[i].label = x
  /\ \A i \in 1..n : ps[i].label = 4 => s.kid = parse_bstr(ps[i].value).value
  /\ \A i \in 1..n : ps[i].label = 34 => s.x5t = parse_x5t_value(ps[i].value).value
  /\ (\A i \in 1..n : ps[i].label # 4) => s.kid = Unreadable
  /\ (\A i \in 1..n : ps[i].label # 34) => s.x5t = Unreadable
ReadSoFar(s, ps, n, m) ==
  IF Fits(ps, n) THEN s \in MapState /\ s.offset = 1 + m /\ Recalled(s, ps, n)
  ELSE s = Unreadable

\* A list of parameters and one more.
OneMore(all, ps, n, p) == all[n + 1] = p /\ \A i \in 1..n : all[i] = ps[i]

\* One more fits if it is good and its label is new,
LEMMA FitsMore ==
  ASSUME NEW all, NEW ps, NEW n \in Nat, NEW p, OneMore(all, ps, n, p)
  PROVE  Fits(all, n + 1) <=>
           /\ Fits(ps, n) /\ p.good
           /\ \A i \in 1..n : ps[i].label = p.label => p.label = TextLabel
<1>1. /\ \A i \in 1..(n + 1) : i = n + 1 \/ i \in 1..n
      /\ \A i \in 1..n : i \in 1..(n + 1) /\ i # n + 1
      /\ n + 1 \in 1..(n + 1)
  OBVIOUS
<1>2. all[n + 1] = p /\ \A i \in 1..n : all[i] = ps[i]
  BY DEF OneMore
<1>3. PICK l : l = n + 1
  OBVIOUS
<1>4. ASSUME Fits(all, l)
      PROVE  /\ Fits(ps, n) /\ p.good
             /\ \A i \in 1..n : ps[i].label = p.label => p.label = TextLabel
  BY <1>1, <1>2, <1>3, <1>4, Zenon DEF Fits
<1>5. ASSUME Fits(ps, n), p.good, \A i \in 1..n : ps[i].label = p.label => p.label = TextLabel
      PROVE  Fits(all, l)
  <2>1. \A i \in 1..l : all[i].good
    BY <1>1, <1>2, <1>3, <1>5, Zenon DEF Fits
  <2>2. ASSUME NEW i \in 1..l, NEW j \in 1..l, all[i].label = all[j].label
        PROVE  i = j \/ all[i].label = TextLabel
    <3>1. CASE i \in 1..n /\ j \in 1..n
      BY <1>2, <1>5, <2>2, <3>1, Zenon DEF Fits
    <3>2. CASE i = l /\ j = l
      BY <3>2
    <3>3. CASE i = l /\ j \in 1..n
      BY <1>2, <1>3, <1>5, <2>2, <3>3, Zenon
    <3>4. CASE i \in 1..n /\ j = l
      BY <1>2, <1>3, <1>5, <2>2, <3>4, Zenon
    <3> QED
      BY <1>1, <1>3, <3>1, <3>2, <3>3, <3>4, Zenon
  <2> QED
    BY <2>1, <2>2, Zenon DEF Fits
<1> QED
  BY <1>3, <1>4, <1>5, Zenon

\* and is recalled with the others.
LEMMA RecalledMore ==
  ASSUME NEW all, NEW ps, NEW n \in Nat, NEW p, p.label \in Int, OneMore(all, ps, n, p),
         NEW s \in MapState, Recalled(s, ps, n), NEW next, NEW k,
         Added(s, next, Met(p.label), k, KidAfter(s, Met(p.label), p.value),
               X5tAfter(s, Met(p.label), p.value)),
         \A i \in 1..n : ps[i].label = p.label => p.label = TextLabel
  PROVE  Recalled(next, all, n + 1)
<1>1. /\ \A i \in 1..(n + 1) : i = n + 1 \/ i \in 1..n
      /\ \A i \in 1..n : i \in 1..(n + 1) /\ i # n + 1
      /\ n + 1 \in 1..(n + 1)
  OBVIOUS
<1>2. all[n + 1] = p /\ \A i \in 1..n : all[i] = ps[i]
  BY DEF OneMore
<1>3. PICK l, label \in Int : l = n + 1 /\ label = p.label
  OBVIOUS
<1>4. 4 # TextLabel /\ 34 # TextLabel /\ 4 # Unreadable /\ 34 # Unreadable /\ 4 # 34
  BY UnreadableAssumption DEF TextLabel
<1>5. next.labels = IF label = TextLabel THEN s.labels ELSE s.labels \cup {label}
  <2>1. label # Unreadable
    BY UnreadableAssumption
  <2> QED
    BY <1>3, <2>1 DEF Added, Met
<1>6. next.kid = IF label = 4 THEN parse_bstr(p.value).value ELSE s.kid
  BY <1>3, <1>4 DEF Added, Met, KidAfter
<1>7. next.x5t = IF label = 34 THEN parse_x5t_value(p.value).value ELSE s.x5t
  BY <1>3, <1>4 DEF Added, Met, X5tAfter
<1>8. \A x \in Int : x \in next.labels <=> x # TextLabel /\ \E i \in 1..l : all[i].label = x
  <2>1. \A x \in Int : x \in s.labels <=> x # TextLabel /\ \E i \in 1..n : ps[i].label = x
    BY DEF Recalled
  <2>2. \A x : (\E i \in 1..l : all[i].label = x) <=> x = label \/ \E i \in 1..n : ps[i].label = x
    BY <1>1, <1>2, <1>3, Zenon
  <2>3. \A x \in Int : x \in next.labels <=> x \in s.labels \/ (x = label /\ label # TextLabel)
    BY <1>5
  <2> QED
    BY <2>1, <2>2, <2>3, Zenon
<1>9. ASSUME NEW i \in 1..l, all[i].label = 4
      PROVE  next.kid = parse_bstr(all[i].value).value
  <2>1. CASE i = l
    BY <1>2, <1>3, <1>6, <1>9, <2>1, Zenon
  <2>2. CASE i \in 1..n
    <3>1. ps[i].label = 4 /\ label # 4
      BY <1>2, <1>3, <1>4, <1>9, <2>2, Zenon
    <3>2. s.kid = parse_bstr(ps[i].value).value
      BY <2>2, <3>1, Zenon DEF Recalled
    <3> QED
      BY <1>2, <1>6, <2>2, <3>1, <3>2, Zenon
  <2> QED
    BY <1>1, <1>3, <2>1, <2>2, Zenon
<1>10. ASSUME NEW i \in 1..l, all[i].label = 34
       PROVE  next.x5t = parse_x5t_value(all[i].value).value
  <2>1. CASE i = l
    BY <1>2, <1>3, <1>7, <1>10, <2>1, Zenon
  <2>2. CASE i \in 1..n
    <3>1. ps[i].label = 34 /\ label # 34
      BY <1>2, <1>3, <1>4, <1>10, <2>2, Zenon
    <3>2. s.x5t = parse_x5t_value(ps[i].value).value
      BY <2>2, <3>1, Zenon DEF Recalled
    <3> QED
      BY <1>2, <1>7, <2>2, <3>1, <3>2, Zenon
  <2> QED
    BY <1>1, <1>3, <2>1, <2>2, Zenon
<1>11. ASSUME \A i \in 1..l : all[i].label # 4 PROVE next.kid = Unreadable
  <2>1. label # 4 /\ \A i \in 1..n : ps[i].label # 4
    BY <1>1, <1>2, <1>3, <1>11, Zenon
  <2> QED
    BY <1>6, <2>1, Zenon DEF Recalled
<1>12. ASSUME \A i \in 1..l : all[i].label # 34 PROVE next.x5t = Unreadable
  <2>1. label # 34 /\ \A i \in 1..n : ps[i].label # 34
    BY <1>1, <1>2, <1>3, <1>12, Zenon
  <2> QED
    BY <1>7, <2>1, Zenon DEF Recalled
<1>13. Recalled(next, all, l)
  BY <1>8, <1>9, <1>10, <1>11, <1>12, Zenon DEF Recalled
<1> QED
  BY <1>3, <1>13

\* Two lengths behind the head.
LEMMA Further == \A a, b \in Nat : (1 + a) + b = 1 + (a + b)
OBVIOUS

\* One parameter further.
LEMMA ReadMore ==
  ASSUME NEW all, NEW ps, NEW n \in Nat, NEW p, p.label \in Int, p.good \in BOOLEAN,
         OneMore(all, ps, n, p),
         NEW s, NEW m \in Nat, ReadSoFar(s, ps, n, m), NEW next,
         NEW k \in Nat, k = Len(p.key) + Len(p.value),
         IF s = Unreadable THEN next = Unreadable ELSE PairRead(p, s, next)
  PROVE  ReadSoFar(next, all, n + 1, m + k)
<1>1. CASE ~Fits(ps, n)
  <2>1. next = Unreadable
    BY <1>1 DEF ReadSoFar
  <2>2. ~Fits(all, n + 1)
    BY <1>1, FitsMore, Zenon
  <2> QED
    BY <2>1, <2>2, Zenon DEF ReadSoFar
<1>2. CASE Fits(ps, n)
  <2>1. s \in MapState /\ s.offset = 1 + m /\ Recalled(s, ps, n)
    BY <1>2 DEF ReadSoFar
  <2>2. s # Unreadable
    BY <2>1, UnreadableAssumption
  <2>3. Met(p.label) \in s.labels <=>
          p.label # TextLabel /\ \E i \in 1..n : ps[i].label = p.label
    <3>1. s.labels \subseteq Int /\ Unreadable \notin Int
      BY <2>1, UnreadableAssumption DEF MapState
    <3>2. CASE p.label = TextLabel
      BY <3>1, <3>2 DEF Met
    <3>3. CASE p.label # TextLabel
      BY <2>1, <3>3 DEF Met, Recalled
    <3> QED
      BY <3>2, <3>3
  <2>4. CASE Met(p.label) \in s.labels \/ ~p.good
    <3>1. next = Unreadable
      BY <2>2, <2>4 DEF PairRead
    <3>2. ~Fits(all, n + 1)
      <4>1. ASSUME Fits(all, n + 1)
            PROVE  p.good /\ \A i \in 1..n : ps[i].label = p.label => p.label = TextLabel
        <5>1. /\ Fits(ps, n) /\ p.good
              /\ \A i \in 1..n : ps[i].label = p.label => p.label = TextLabel
          BY <4>1, FitsMore
        <5> QED
          BY <5>1
      <4>2. ASSUME Met(p.label) \in s.labels PROVE ~Fits(all, n + 1)
        BY <2>3, <4>1, <4>2, Zenon
      <4> QED
        BY <2>4, <4>1, <4>2, Zenon
    <3> QED
      BY <3>1, <3>2, Zenon DEF ReadSoFar
  <2>5. CASE ~(Met(p.label) \in s.labels \/ ~p.good)
    <3>1. Added(s, next, Met(p.label), k, KidAfter(s, Met(p.label), p.value),
                X5tAfter(s, Met(p.label), p.value))
      BY <2>2, <2>5 DEF PairRead
    <3>2. \A i \in 1..n : ps[i].label = p.label => p.label = TextLabel
      BY <2>3, <2>5, Zenon
    <3>3. Recalled(next, all, n + 1)
      BY <2>1, <3>1, <3>2, RecalledMore, Zenon
    <3>4. next \in MapState /\ next.offset = 1 + (m + k)
      <4>1. next \in MapState /\ next.offset = s.offset + k
        BY <3>1, Zenon DEF Added
      <4>2. (1 + m) + k = 1 + (m + k)
        BY Further, Zenon
      <4> QED
        BY <2>1, <4>1, <4>2
    <3>5. Fits(all, n + 1)
      BY <1>2, <2>5, <3>2, FitsMore, Zenon
    <3> QED
      BY <3>3, <3>4, <3>5, Zenon DEF ReadSoFar
  <2> QED
    BY <2>4, <2>5
<1> QED
  BY <1>1, <1>2

\* Whatever the head before them and whatever follows, the loop reads parameters
\* as they are.
ScannedAs(front, list, tail, ps, n, m) ==
  ReadSoFar(MapScan(Cat(front, Cat(list, tail)))[n], ps, n, m)
ParametersRead(list, ps, n, m) ==
  \A front \in Seq(Byte), tail \in Seq(Byte) :
    Len(front) = 1 => ScannedAs(front, list, tail, ps, n, m)

\* The step behind some parameters.
Reads(p, s, next) == IF s = Unreadable THEN next = Unreadable ELSE PairRead(p, s, next)

\* The loop comes to the parameter behind those it has read.
LEMMA NextPair ==
  ASSUME NEW front \in Seq(Byte), Len(front) = 1, NEW list \in Seq(Byte), NEW m \in Nat,
         Len(list) = m, NEW tail \in Seq(Byte), NEW p, EncodesParameter(p),
         NEW data, data = Cat(front, Cat(list, Cat(p.key, Cat(p.value, tail)))),
         NEW n \in Nat, NEW s, s = MapScan(data)[n], NEW next, next = MapScan(data)[n + 1],
         s # Unreadable => s \in MapState /\ s.offset = 1 + m
  PROVE  Reads(p, s, next)
<1>1. PICK rest \in Seq(Byte) : rest = Cat(p.key, Cat(p.value, tail))
  <2>1. p.key \in Seq(Byte) /\ p.value \in Seq(Byte)
    BY DEF EncodesParameter
  <2>2. Cat(p.value, tail) \in Seq(Byte)
    BY <2>1, CatBytes
  <2> QED
    BY <2>1, <2>2, CatBytes
<1>2. PICK before \in Seq(Byte) : before = Cat(front, list) /\ Len(before) = 1 + m
  <2>1. Cat(front, list) \in Seq(Byte) /\ Len(Cat(front, list)) = Len(front) + Len(list)
    BY Parts
  <2> QED
    BY <2>1
<1>3. data = Cat(before, rest)
  BY <1>1, <1>2, CatRegroup
<1>4. data \in Seq(Byte) /\ From(data, 1 + m) = rest
  <2>1. data \in Seq(Byte)
    BY <1>3, CatBytes
  <2>2. 1 + m \in Nat
    OBVIOUS
  <2>3. From(Cat(before, rest), 1 + m) = rest
    BY <1>2, <2>2, FromCat
  <2> QED
    BY <1>3, <2>1, <2>3
<1>5. Loop(MapScan(data), MapStates, NothingRead, MapStep(data))
  BY <1>4, MapLoop
<1>6. s \in MapStates /\ next = MapStep(data)[s]
  BY <1>5 DEF Loop
<1>7. next = IdCredPair(data, s)
  BY <1>6 DEF MapStep
<1>8. CASE s = Unreadable
  BY <1>7, <1>8 DEF IdCredPair, Reads
<1>9. CASE s # Unreadable
  <2>1. s \in MapState /\ From(data, s.offset) = Cat(p.key, Cat(p.value, tail))
    BY <1>1, <1>4, <1>9
  <2>2. PairRead(p, s, IdCredPair(data, s))
    BY <1>4, <2>1, PairAlone
  <2> QED
    BY <1>7, <1>9, <2>2 DEF Reads
<1> QED
  BY <1>8, <1>9

\* What is appended to parameters by one more.
Encoded(p) == Cat(p.key, p.value)

\* It has then read one more.
LEMMA ReadFurther ==
  ASSUME NEW list \in Seq(Byte), NEW all, NEW ps, NEW n \in Nat, NEW p, EncodesParameter(p),
         OneMore(all, ps, n, p), NEW m \in Nat, Len(list) = m, ParametersRead(list, ps, n, m),
         NEW k \in Nat, k = Len(p.key) + Len(p.value)
  PROVE  ParametersRead(Cat(list, Encoded(p)), all, n + 1, m + k)
<1> SUFFICES ASSUME NEW front \in Seq(Byte), NEW tail \in Seq(Byte), Len(front) = 1
             PROVE  ScannedAs(front, Cat(list, Encoded(p)), tail, all, n + 1, m + k)
  BY Zenon DEF ParametersRead
<1>1. PICK key \in Seq(Byte), value \in Seq(Byte) : key = p.key /\ value = p.value
  BY DEF EncodesParameter
<1>2. PICK rest \in Seq(Byte) : rest = Cat(key, Cat(value, tail))
  BY CatBytes
<1>3. PICK data : data = Cat(front, Cat(list, rest))
  OBVIOUS
<1>4. Cat(front, Cat(Cat(list, Encoded(p)), tail)) = data
  <2>1. Cat(Cat(list, Cat(key, value)), tail) = Cat(list, Cat(Cat(key, value), tail))
    BY CatBytes, CatRegroup
  <2>2. Cat(Cat(key, value), tail) = rest
    BY <1>2, CatRegroup
  <2> QED
    BY <1>1, <1>3, <2>1, <2>2 DEF Encoded
<1>5. PICK s, next : s = MapScan(data)[n] /\ next = MapScan(data)[n + 1]
  OBVIOUS
<1>6. ReadSoFar(s, ps, n, m)
  BY <1>2, <1>3, <1>5 DEF ParametersRead, ScannedAs
<1>7. s # Unreadable => s \in MapState /\ s.offset = 1 + m
  BY <1>6 DEF ReadSoFar
<1>8. IF s = Unreadable THEN next = Unreadable ELSE PairRead(p, s, next)
  <2>1. data = Cat(front, Cat(list, Cat(p.key, Cat(p.value, tail))))
    BY <1>1, <1>2, <1>3
  <2>2. Reads(p, s, next)
    BY <1>5, <1>7, <2>1, NextPair, Zenon
  <2> QED
    BY <2>2 DEF Reads
<1>9. p.label \in Int /\ p.good \in BOOLEAN
  BY DEF EncodesParameter
<1>10. ReadSoFar(next, all, n + 1, m + k)
  BY <1>6, <1>8, <1>9, ReadMore, Zenon
<1> QED
  BY <1>4, <1>5, <1>10 DEF ScannedAs

\* The list of parameters that is made, and what the loop reads of it.
ParametersOf(list, ps) ==
  /\ list \in Seq(Byte) /\ ps \in Seq(Parameters) /\ Len(ps) <= 23
  /\ ps = <<>> => list = <<>>
  /\ ParametersRead(list, ps, Len(ps), Len(list))
ParameterInputs == codec = "parameters" => ParametersOf(first, second)

\* Of no parameters it has read nothing:
LEMMA NoneRead == ParametersRead(<<>>, <<>>, 0, 0)
<1> SUFFICES ASSUME NEW front \in Seq(Byte), NEW tail \in Seq(Byte), Len(front) = 1
             PROVE  ScannedAs(front, <<>>, tail, <<>>, 0, 0)
  BY Zenon DEF ParametersRead
<1>1. PICK data \in Seq(Byte) : data = Cat(front, Cat(<<>>, tail))
  <2>1. <<>> \in Seq(Byte)
    OBVIOUS
  <2>2. Cat(<<>>, tail) \in Seq(Byte)
    BY <2>1, CatBytes
  <2> QED
    BY <2>2, CatBytes
<1>2. MapScan(data)[0] = NothingRead
  <2>1. Loop(MapScan(data), MapStates, NothingRead, MapStep(data))
    BY MapLoop
  <2> QED
    BY <2>1 DEF Loop
<1>3. \A i \in 1..0 : FALSE
  OBVIOUS
<1>4. Fits(<<>>, 0)
  BY <1>3, Zenon DEF Fits
<1>5. NothingRead.labels = {} /\ NothingRead.kid = Unreadable /\ NothingRead.x5t = Unreadable
  BY DEF NothingRead
<1>6. Recalled(NothingRead, <<>>, 0)
  <2>1. \A x \in Int : x \in NothingRead.labels <=> x # TextLabel /\ \E i \in 1..0 : <<>>[i].label = x
    BY <1>3, <1>5, Zenon
  <2> QED
    BY <1>3, <1>5, <2>1, Zenon DEF Recalled
<1>7. NothingRead \in MapState /\ NothingRead.offset = 1 + 0
  BY MapStart
<1>8. ReadSoFar(NothingRead, <<>>, 0, 0)
  BY <1>4, <1>6, <1>7, Zenon DEF ReadSoFar
<1> QED
  BY <1>1, <1>2, <1>8 DEF ScannedAs

\* the first state,
LEMMA InitParameters == Init => ParameterInputs
<1> SUFFICES ASSUME Init PROVE ParameterInputs
  OBVIOUS
<1>1. first = <<>> /\ second = <<>> /\ Len(<<>>) = 0
  BY DEF Init
<1>2. <<>> \in Seq(Byte) /\ <<>> \in Seq(Parameters) /\ 0 <= 23
  OBVIOUS
<1> QED
  BY <1>1, <1>2, NoneRead DEF ParameterInputs, ParametersOf

\* and with a parameter more
LEMMA LongerParameters ==
  ASSUME NEW list, NEW ps, ParametersOf(list, ps), Len(ps) < 23, NEW p \in Parameters,
         EncodesParameter(p)
  PROVE  ParametersOf(Cat(list, Encoded(p)), Append(ps, p))
<1> DEFINE whole == Cat(list, Encoded(p))
           all == Append(ps, p)
<1>1. list \in Seq(Byte) /\ ps \in Seq(Parameters)
  BY DEF ParametersOf
<1>2. PICK n \in Nat, m \in Nat : Len(ps) = n /\ Len(list) = m
  BY <1>1, LenProperties
<1>3. PICK key \in Seq(Byte), value \in Seq(Byte) : key = p.key /\ value = p.value
  BY DEF EncodesParameter
<1>4. PICK k \in Nat : k = Len(p.key) + Len(p.value)
  <2>1. PICK j \in Nat, l \in Nat : j = Len(key) /\ l = Len(value)
    BY LenProperties
  <2>2. PICK k \in Nat : k = j + l
    OBVIOUS
  <2> QED
    BY <1>3, <2>1, <2>2
<1>5. Encoded(p) \in Seq(Byte) /\ Len(Encoded(p)) = k
  <2>1. Cat(key, value) \in Seq(Byte) /\ Len(Cat(key, value)) = Len(key) + Len(value)
    BY Parts
  <2> QED
    BY <1>3, <1>4, <2>1 DEF Encoded
<1>6. whole \in Seq(Byte) /\ Len(whole) = m + k
  <2>1. whole \in Seq(Byte) /\ Len(whole) = Len(list) + Len(Encoded(p))
    BY <1>1, <1>5, Parts
  <2> QED
    BY <1>2, <1>5, <2>1
<1>7. all \in Seq(Parameters) /\ Len(all) = n + 1 /\ all # <<>>
  BY <1>1, <1>2, AppendProperties
<1>8. OneMore(all, ps, n, p)
  BY <1>1, <1>2, AppendProperties DEF OneMore
<1>9. ParametersRead(list, ps, n, m)
  BY <1>2 DEF ParametersOf
<1>10. ParametersRead(whole, all, n + 1, m + k)
  BY <1>1, <1>2, <1>4, <1>8, <1>9, ReadFurther, Zenon
<1>11. Len(all) <= 23
  BY <1>2, <1>7
<1> HIDE DEF whole, all
<1>12. ParametersOf(whole, all)
  BY <1>6, <1>7, <1>10, <1>11, Zenon DEF ParametersOf
<1> QED
  BY <1>12 DEF whole, all

\* the state after that,
LEMMA AddParameterRead ==
  ASSUME ParameterInputs, NEW p \in Parameters, AddParameter(p)
  PROVE  ParameterInputs'
<1>1. /\ codec = "parameters" /\ first' = (first \o p.key) \o p.value
      /\ second' = Append(second, p) /\ Len(second) < Longest["parameters"]
  BY DEF AddParameter
<1>2. EncodesParameter(p)
  BY InputAssumption
<1>3. ParametersOf(first, second)
  BY <1>1 DEF ParameterInputs
<1>4. PICK n \in Nat : Len(second) = n
  BY <1>3, LenProperties DEF ParametersOf
<1>5. Len(second) < 23
  <2>1. PICK l \in 0..23 : Longest["parameters"] = l
    BY InputAssumption
  <2> QED
    BY <1>1, <1>4, <2>1
<1>6. first' = Cat(first, Encoded(p))
  <2>1. p.key \in Seq(Byte) /\ p.value \in Seq(Byte) /\ first \in Seq(Byte)
    BY <1>2, <1>3 DEF EncodesParameter, ParametersOf
  <2>2. Cat(Cat(first, p.key), p.value) = Cat(first, Cat(p.key, p.value))
    BY <2>1, CatRegroup
  <2>3. first' = Cat(Cat(first, p.key), p.value)
    BY <1>1 DEF Cat
  <2> QED
    BY <2>2, <2>3 DEF Encoded
<1>7. ParametersOf(Cat(first, Encoded(p)), Append(second, p))
  BY <1>2, <1>3, <1>5, LongerParameters
<1>8. ParametersOf(first', second')
  BY <1>1, <1>6, <1>7
<1> QED
  BY <1>8 DEF ParameterInputs, ParametersOf, ParametersRead, ScannedAs, ReadSoFar

\* so that every step keeps it,
LEMMA NextParameters == ParameterInputs /\ [Next]_vars => ParameterInputs'
<1> SUFFICES ASSUME ParameterInputs, [Next]_vars, codec' = "parameters" PROVE ParameterInputs'
  BY DEF ParameterInputs
<1>1. CASE UNCHANGED vars
  BY <1>1 DEF vars, ParameterInputs, ParametersOf, ParametersRead, ScannedAs, ReadSoFar
<1>2. ASSUME NEW p \in Parameters, AddParameter(p) PROVE ParameterInputs'
  BY <1>2, AddParameterRead
<1>3. ASSUME NEW s, AddSuite(s) PROVE FALSE
  BY <1>3 DEF AddSuite
<1>4. ASSUME NEW delta, NEW length, AddOption(delta, length) PROVE FALSE
  BY <1>4 DEF AddOption
<1>5. ASSUME NEW b, Extend(b) PROVE FALSE
  BY <1>5, InputAssumption DEF Extend
<1>6. ASSUME NEW b, Follow(b) PROVE FALSE
  BY <1>6 DEF Follow
<1>7. ASSUME NEW n, Pad(n) PROVE FALSE
  BY <1>7 DEF Pad
<1> QED
  BY <1>1, <1>2, <1>3, <1>4, <1>5, <1>6, <1>7 DEF Next

\* and it is in every state.
LEMMA ParameterInputsHold == Spec => []ParameterInputs
  BY InitParameters, NextParameters, PTL DEF Spec

\* The parameters that refer to a credential.
References(ps, n) == {i \in 1..n : ps[i].label \in {4, 34}}
Has(ps, n, label) == \E i \in 1..n : ps[i].label = label

\* There is one if and only if there is one of one kind.
LEMMA OneReference ==
  ASSUME NEW ps, NEW n \in Nat, Fits(ps, n)
  PROVE  Cardinality(References(ps, n)) = 1 <=> ~(Has(ps, n, 4) <=> Has(ps, n, 34))
<1> DEFINE R == References(ps, n)
<1>1. IsFiniteSet(R)
  <2>1. IsFiniteSet(1..n)
    BY FS_Interval
  <2>2. R \subseteq 1..n
    BY DEF References
  <2> QED
    BY <2>1, <2>2, FS_Subset
<1>2. Cardinality(R) = 1 <=> \E x : R = {x}
  BY <1>1, FS_Singleton
<1>3. \A i : i \in R <=> i \in 1..n /\ (ps[i].label = 4 \/ ps[i].label = 34)
  BY DEF References
<1>4. 4 # TextLabel /\ 34 # TextLabel /\ 4 # 34
  BY DEF TextLabel
<1>5. \A i, j \in 1..n : ps[i].label = ps[j].label => i = j \/ ps[i].label = TextLabel
  BY DEF Fits
<1> HIDE DEF R
<1>6. ASSUME NEW x, R = {x} PROVE ~(Has(ps, n, 4) <=> Has(ps, n, 34))
  <2>1. x \in R /\ \A i : i \in R => i = x
    BY <1>6
  <2>2. x \in 1..n /\ (ps[x].label = 4 \/ ps[x].label = 34)
    BY <1>3, <2>1, Zenon
  <2>3. \A i \in 1..n : ps[i].label = 4 \/ ps[i].label = 34 => i = x
    BY <1>3, <2>1, Zenon
  <2>4. CASE ps[x].label = 4
    <3>1. Has(ps, n, 4)
      BY <2>2, <2>4, Zenon DEF Has
    <3>2. ~Has(ps, n, 34)
      BY <1>4, <2>3, <2>4, Zenon DEF Has
    <3> QED
      BY <3>1, <3>2, Zenon
  <2>5. CASE ps[x].label = 34
    <3>1. Has(ps, n, 34)
      BY <2>2, <2>5, Zenon DEF Has
    <3>2. ~Has(ps, n, 4)
      BY <1>4, <2>3, <2>5, Zenon DEF Has
    <3> QED
      BY <3>1, <3>2, Zenon
  <2> QED
    BY <2>2, <2>4, <2>5
<1>7. ASSUME NEW a \in {4, 34}, NEW b \in {4, 34}, a # b, Has(ps, n, a), ~Has(ps, n, b)
      PROVE  \E x : R = {x}
  <2>1. PICK x \in 1..n : ps[x].label = a
    BY <1>7, Zenon DEF Has
  <2>2. \A i \in 1..n : ps[i].label # b
    BY <1>7, Zenon DEF Has
  <2>3. \A y : y = 4 \/ y = 34 <=> y = a \/ y = b
    BY <1>7
  <2>4. \A i \in 1..n : ps[i].label = a => i = x
    <3>1. a # TextLabel
      BY <1>4, <1>7
    <3> QED
      BY <1>5, <2>1, <3>1, Zenon
  <2>5. \A i : i \in R <=> i = x
    BY <1>3, <2>1, <2>2, <2>3, <2>4, ZenonT(40)
  <2>6. R = {x}
    BY <2>5
  <2> QED
    BY <2>6
<1>8. ASSUME ~(Has(ps, n, 4) <=> Has(ps, n, 34)) PROVE \E x : R = {x}
  <2>1. 4 \in {4, 34} /\ 34 \in {4, 34}
    OBVIOUS
  <2>2. CASE Has(ps, n, 4) /\ ~Has(ps, n, 34)
    BY <1>4, <1>7, <2>1, <2>2, Zenon
  <2>3. CASE Has(ps, n, 34) /\ ~Has(ps, n, 4)
    BY <1>4, <1>7, <2>1, <2>3, Zenon
  <2> QED
    BY <1>8, <2>2, <2>3, Zenon
<1>9. Cardinality(R) = 1 <=> ~(Has(ps, n, 4) <=> Has(ps, n, 34))
  BY <1>2, <1>6, <1>8, Zenon
<1> QED
  BY <1>9 DEF R

\* A reference that is taken is one.
LEMMA GoodReference ==
  ASSUME NEW p, EncodesParameter(p), p.good
  PROVE  /\ p.label = 4 => parse_bstr(p.value).value \in Kids
         /\ p.label = 34 => parse_x5t_value(p.value).value \in Thumbprints
<1>1. PICK value \in Seq(Byte) : value = p.value
  BY DEF EncodesParameter
<1>2. IdCredValue(value, NothingRead, p.label) # Unreadable
  BY <1>1 DEF EncodesParameter
<1>3. ASSUME p.label = 4 PROVE parse_bstr(value).value \in Kids
  <2>1. IdCredValue(value, NothingRead, 4) = TakeKid(NothingRead, parse_canonical_bstr(value))
    BY DEF IdCredValue
  <2>2. parse_canonical_bstr(value) # Unreadable
    BY <1>2, <1>3, <2>1 DEF TakeKid
  <2>3. parse_canonical_bstr(value) = parse_bstr(value)
    BY <2>2 DEF parse_canonical_bstr, CanonicalBstrOf, parse_bstr
  <2>4. parse_bstr(value) \in Reading(Kids)
    BY <2>2, <2>3, CanonicalLocal
  <2> QED
    BY <2>4 DEF Reading
<1>4. ASSUME p.label = 34 PROVE parse_x5t_value(value).value \in Thumbprints
  <2>1. IdCredValue(value, NothingRead, 34) = TakeX5t(NothingRead, parse_x5t_value(value))
    BY DEF IdCredValue
  <2>2. parse_x5t_value(value) # Unreadable
    BY <1>2, <1>4, <2>1 DEF TakeX5t
  <2>3. parse_x5t_value(value) \in Reading(Thumbprints)
    BY <2>2, X5tLocal
  <2> QED
    BY <2>3 DEF Reading
<1> QED
  BY <1>1, <1>3, <1>4

\* What is read of a map of parameters that fit: the references they are.
RefersTo(s, ps, n) ==
  /\ (s.kid = Unreadable) <=> ~Has(ps, n, 4)
  /\ (s.x5t = Unreadable) <=> ~Has(ps, n, 34)

\* A reference is read if and only if there is one.
LEMMA ReferenceRead ==
  ASSUME NEW ps, NEW n \in Nat, \A i \in 1..n : EncodesParameter(ps[i]), Fits(ps, n),
         NEW s, Recalled(s, ps, n)
  PROVE  RefersTo(s, ps, n)
<1>1. Unreadable \notin Kids /\ Unreadable \notin Thumbprints
  BY UnreadableAssumption
<1>2. ASSUME NEW i \in 1..n, ps[i].label = 4 PROVE s.kid # Unreadable
  <2>1. EncodesParameter(ps[i]) /\ ps[i].good
    BY DEF Fits
  <2>2. parse_bstr(ps[i].value).value \in Kids
    BY <1>2, <2>1, GoodReference
  <2>3. s.kid = parse_bstr(ps[i].value).value
    BY <1>2, Zenon DEF Recalled
  <2> QED
    BY <1>1, <2>2, <2>3
<1>3. ASSUME NEW i \in 1..n, ps[i].label = 34 PROVE s.x5t # Unreadable
  <2>1. EncodesParameter(ps[i]) /\ ps[i].good
    BY DEF Fits
  <2>2. parse_x5t_value(ps[i].value).value \in Thumbprints
    BY <1>3, <2>1, GoodReference
  <2>3. s.x5t = parse_x5t_value(ps[i].value).value
    BY <1>3, Zenon DEF Recalled
  <2> QED
    BY <1>1, <2>2, <2>3
<1>4. ~Has(ps, n, 4) => s.kid = Unreadable
  BY Zenon DEF Has, Recalled
<1>5. ~Has(ps, n, 34) => s.x5t = Unreadable
  BY Zenon DEF Has, Recalled
<1> QED
  BY <1>2, <1>3, <1>4, <1>5, Zenon DEF RefersTo, Has

\* The head of a map of n parameters, of which ID_CRED_MAX_PARAMETERS are understood.
MapHeadRead(data, n) ==
  /\ data \in Seq(Byte) /\ data[1] = 160 + n /\ CborHead(data).major = Map
  /\ OpensMap(data) <=> n \in 1..8

\* A head of a map is no other head, and opens one of up to eight parameters.
LEMMA MapOpens ==
  ASSUME NEW n \in 0..23, NEW x \in Seq(Byte), NEW data, data = Cat(<<160 + n>>, x)
  PROVE  MapHeadRead(data, n)
<1>1. PICK a \in 160..183 : a = 160 + n
  OBVIOUS
<1>2. a \in 0..255 /\ a \div 32 = 5 /\ a % 32 = n /\ a % 32 < 24 /\ a \in Byte
  BY <1>1 DEF Byte
<1>3. PICK head \in Seq(Byte) : head = <<a>> /\ Len(head) = 1 /\ head[1] = a
  <2>1. <<a>> \in Seq(Byte) /\ Len(<<a>>) = 1 /\ <<a>>[1] = a
    BY <1>2
  <2> QED
    BY <2>1
<1>4. PICK l \in Nat : Len(x) = l
  BY LenProperties
<1>5. data = Cat(head, x)
  BY <1>1, <1>3
<1>6. data \in Seq(Byte) /\ Len(data) = 1 + l /\ data[1] = a
  <2>1. /\ Cat(head, x) \in Seq(Byte) /\ Len(Cat(head, x)) = Len(head) + Len(x)
        /\ \A i \in 1..Len(head) : Cat(head, x)[i] = head[i]
    BY Parts
  <2>2. 1 \in 1..1
    OBVIOUS
  <2> QED
    BY <1>3, <1>4, <1>5, <2>1, <2>2
<1>7. data # <<>>
  <2>1. 1 + l # 0
    OBVIOUS
  <2> QED
    BY <1>6, <2>1, EmptySeq
<1>8. CborHead(data) = [major |-> a \div 32, width |-> 1, argument |-> a % 32, minimal |-> TRUE]
  BY <1>2, <1>6, <1>7, ShortHead
<1>9. CborHead(data).major = Map
  BY <1>2, <1>8 DEF Map
<1>10. OpensMap(data) <=> n \in 1..8
  <2>1. a \in 161..168 <=> n \in 1..8
    BY <1>1
  <2>2. 160 + ID_CRED_MAX_PARAMETERS = 168
    BY DEF ID_CRED_MAX_PARAMETERS
  <2> QED
    BY <1>6, <1>7, <2>1, <2>2 DEF OpensMap
<1> QED
  BY <1>1, <1>6, <1>9, <1>10 DEF MapHeadRead

\* What becomes of a map once its parameters are read: it is accepted, as what it
\* is, or refused.
AcceptedAs(c, map, p) ==
  /\ c # Unreadable
  /\ c.encoded = map /\ c.consumed = Len(map)
  /\ c.kid = IF p.label = 4 THEN parse_bstr(p.value).value ELSE Unreadable
  /\ c.x5t = IF p.label = 34 THEN parse_x5t_value(p.value).value ELSE Unreadable
Judged(c, map, ps, n) ==
  IF Len(map) <= ID_CRED_MAX_LEN /\ Cardinality(References(ps, n)) = 1
  THEN AcceptedAs(c, map, ps[CHOOSE i \in References(ps, n) : TRUE])
  ELSE c = Unreadable

\* It is accepted with exactly one reference and within the length.
LEMMA MapJudged ==
  ASSUME NEW ps, NEW n \in Nat, \A i \in 1..n : EncodesParameter(ps[i]), Fits(ps, n),
         NEW s \in MapState, Recalled(s, ps, n),
         NEW map \in Seq(Byte), Len(map) = s.offset, NEW data, SubSeq(data, 1, s.offset) = map,
         NEW c, c = WholeMap(data, s)
  PROVE  Judged(c, map, ps, n)
<1>1. s # Unreadable
  BY UnreadableAssumption
<1>2. PICK o \in Nat : s.offset = o
  BY DEF MapState
<1>3. (s.kid = Unreadable <=> ~Has(ps, n, 4)) /\ (s.x5t = Unreadable <=> ~Has(ps, n, 34))
  BY ReferenceRead, Zenon DEF RefersTo
<1>4. Cardinality(References(ps, n)) = 1 <=> ~(s.kid = Unreadable <=> s.x5t = Unreadable)
  BY <1>3, OneReference, Zenon
<1>5. ((s.kid = Unreadable) = (s.x5t = Unreadable)) <=> (s.kid = Unreadable <=> s.x5t = Unreadable)
  OBVIOUS
<1>6. o > ID_CRED_MAX_LEN <=> ~(o <= ID_CRED_MAX_LEN)
  BY DEF ID_CRED_MAX_LEN
<1>7. CASE ~(o <= ID_CRED_MAX_LEN /\ Cardinality(References(ps, n)) = 1)
  <2>1. c = Unreadable
    BY <1>1, <1>2, <1>4, <1>5, <1>6, <1>7 DEF WholeMap
  <2> QED
    BY <1>2, <1>7, <2>1 DEF Judged
<1>8. CASE o <= ID_CRED_MAX_LEN /\ Cardinality(References(ps, n)) = 1
  <2>1. c = [encoded |-> map, kid |-> s.kid, x5t |-> s.x5t, consumed |-> o]
    BY <1>1, <1>2, <1>4, <1>5, <1>6, <1>8 DEF WholeMap
  <2>2. c # Unreadable
    <3>1. c \in IdCreds
      BY <2>1 DEF IdCreds, MapState
    <3> QED
      BY <3>1, UnreadableAssumption
  <2>3. c.encoded = map /\ c.consumed = Len(map) /\ c.kid = s.kid /\ c.x5t = s.x5t
    BY <1>2, <2>1
  <2>4. PICK i : i = CHOOSE j \in References(ps, n) : TRUE
    OBVIOUS
  <2>5. i \in 1..n /\ (ps[i].label = 4 \/ ps[i].label = 34)
    <3>1. References(ps, n) # {}
      <4>1. Cardinality({}) = 0 /\ 0 # 1
        BY FS_EmptySet
      <4> QED
        BY <1>8, <4>1
    <3>2. i \in References(ps, n)
      BY <2>4, <3>1
    <3> QED
      BY <3>2 DEF References
  <2>6. /\ s.kid = IF ps[i].label = 4 THEN parse_bstr(ps[i].value).value ELSE Unreadable
        /\ s.x5t = IF ps[i].label = 34 THEN parse_x5t_value(ps[i].value).value ELSE Unreadable
    <3>1. CASE ps[i].label = 4
      <4>1. s.kid = parse_bstr(ps[i].value).value
        BY <2>5, <3>1, Zenon DEF Recalled
      <4>2. Has(ps, n, 4)
        BY <2>5, <3>1, Zenon DEF Has
      <4>3. s.x5t = Unreadable
        BY <1>3, <1>4, <1>8, <4>2, Zenon
      <4> QED
        BY <3>1, <4>1, <4>3
    <3>2. CASE ps[i].label = 34
      <4>1. s.x5t = parse_x5t_value(ps[i].value).value
        BY <2>5, <3>2, Zenon DEF Recalled
      <4>2. Has(ps, n, 34)
        BY <2>5, <3>2, Zenon DEF Has
      <4>3. s.kid = Unreadable
        BY <1>3, <1>4, <1>8, <4>2, Zenon
      <4> QED
        BY <3>2, <4>1, <4>3
    <3> QED
      BY <2>5, <3>1, <3>2
  <2>7. AcceptedAs(c, map, ps[i])
    BY <2>2, <2>3, <2>6 DEF AcceptedAs
  <2> QED
    BY <1>2, <1>8, <2>4, <2>7 DEF Judged
<1> QED
  BY <1>7, <1>8

\* The verdict on a map of n parameters.
Verdict(c, map, ps, n) ==
  IF /\ n <= ID_CRED_MAX_PARAMETERS /\ Len(map) <= ID_CRED_MAX_LEN
     /\ Fits(ps, n) /\ Cardinality(References(ps, n)) = 1
  THEN AcceptedAs(c, map, ps[CHOOSE i \in References(ps, n) : TRUE])
  ELSE c = Unreadable

\* Together: a list of parameters, behind the head of a map and before anything.
LEMMA MapUnderstood ==
  ASSUME NEW list \in Seq(Byte), NEW ps, NEW n \in 0..23,
         \A i \in 1..n : EncodesParameter(ps[i]),
         NEW m \in Nat, Len(list) = m, ParametersRead(list, ps, n, m),
         NEW map, map = Cat(<<160 + n>>, list), NEW tail \in Seq(Byte),
         NEW c, c = parse_id_cred(Cat(map, tail))
  PROVE  Verdict(c, map, ps, n)
<1>1. PICK head \in Seq(Byte) : head = <<160 + n>> /\ Len(head) = 1
  <2>1. 160 + n \in Byte
    BY DEF Byte
  <2>2. <<160 + n>> \in Seq(Byte) /\ Len(<<160 + n>>) = 1
    BY <2>1
  <2> QED
    BY <2>2
<1>2. map \in Seq(Byte) /\ Len(map) = 1 + m
  <2>1. Cat(head, list) \in Seq(Byte) /\ Len(Cat(head, list)) = Len(head) + Len(list)
    BY Parts
  <2> QED
    BY <1>1, <2>1
<1>3. PICK data : data = Cat(map, tail)
  OBVIOUS
<1>4. data = Cat(head, Cat(list, tail)) /\ Cat(list, tail) \in Seq(Byte)
  <2>1. Cat(list, tail) \in Seq(Byte)
    BY CatBytes
  <2>2. Cat(Cat(head, list), tail) = Cat(head, Cat(list, tail))
    BY CatRegroup
  <2>3. map = Cat(head, list)
    BY <1>1
  <2> QED
    BY <1>3, <2>1, <2>2, <2>3
<1>5. MapHeadRead(data, n)
  <2>1. PICK x \in Seq(Byte) : x = Cat(list, tail)
    BY <1>4
  <2>2. data = Cat(<<160 + n>>, x)
    BY <1>1, <1>4, <2>1
  <2> QED
    BY <2>2, MapOpens, Zenon
<1>6. data \in Seq(Byte) /\ data[1] = 160 + n /\ (OpensMap(data) <=> n \in 1..8)
  BY <1>5 DEF MapHeadRead
<1>7. CASE n \notin 1..8
  <2>1. c = Unreadable
    <3>1. CborHead(data).major = Map
      BY <1>5 DEF MapHeadRead
    <3>2. CborHead(data).major \notin {Uint, Negative} /\ CborHead(data).major # Bstr
      BY <3>1 DEF Map, Uint, Negative, Bstr
    <3>3. ~OpensMap(data)
      BY <1>6, <1>7
    <3> QED
      BY <1>3, <1>6, <3>2, <3>3, IdCredKinds
  <2>2. CASE n = 0
    <3>1. References(ps, n) = {}
      BY <2>2 DEF References
    <3>2. Cardinality(References(ps, n)) # 1
      BY <3>1, FS_EmptySet
    <3> QED
      BY <2>1, <3>2 DEF Verdict
  <2>3. CASE n # 0
    <3>1. ~(n <= ID_CRED_MAX_PARAMETERS)
      BY <1>7, <2>3 DEF ID_CRED_MAX_PARAMETERS
    <3> QED
      BY <2>1, <3>1 DEF Verdict
  <2> QED
    BY <2>2, <2>3
<1>8. CASE n \in 1..8
  <2>1. n <= ID_CRED_MAX_PARAMETERS /\ n \in Nat
    BY <1>8 DEF ID_CRED_MAX_PARAMETERS
  <2>2. PICK s : s = MapScan(data)[n]
    OBVIOUS
  <2>3. c = WholeMap(data, s)
    <3>1. c = IdCredMap(data)
      BY <1>3, <1>6, <1>8, IdCredKinds
    <3>2. IdCredMap(data) = WholeMap(data, MapScan(data)[data[1] - 160])
      BY <1>6, MapLoop
    <3>3. data[1] - 160 = n
      BY <1>6, <1>8
    <3> QED
      BY <2>2, <3>1, <3>2, <3>3
  <2>4. ReadSoFar(s, ps, n, m)
    BY <1>1, <1>4, <2>2 DEF ParametersRead, ScannedAs
  <2>5. CASE ~Fits(ps, n)
    BY <2>3, <2>4, <2>5 DEF ReadSoFar, WholeMap, Verdict
  <2>6. CASE Fits(ps, n)
    <3>1. s \in MapState /\ s.offset = 1 + m /\ Recalled(s, ps, n)
      BY <2>4, <2>6 DEF ReadSoFar
    <3>2. SubSeq(data, 1, s.offset) = map /\ Len(map) = s.offset
      <4>1. SubSeq(Cat(map, tail), 1, Len(map)) = map
        BY <1>2, FrontPart
      <4> QED
        BY <1>2, <1>3, <3>1, <4>1
    <3>3. Judged(c, map, ps, n)
      BY <1>2, <2>1, <2>3, <2>6, <3>1, <3>2, MapJudged, Zenon
    <3> QED
      BY <2>1, <2>6, <3>3, Zenon DEF Judged, Verdict
  <2> QED
    BY <2>5, <2>6
<1> QED
  BY <1>7, <1>8

\* IdCredUnderstood of a list of parameters.
Understood(list, ps) ==
  LET n == Len(ps)
      data == <<160 + n>> \o list
      labels == [i \in 1..n |-> ps[i].label]
      references == {i \in 1..n : labels[i] \in {4, 34}}
      c == parse_id_cred(data \o <<88, 48>>)
  IN IF /\ n <= ID_CRED_MAX_PARAMETERS /\ Len(data) <= ID_CRED_MAX_LEN
        /\ \A i \in 1..n : ps[i].good
        /\ \A i, j \in 1..n : labels[i] = labels[j] => i = j \/ labels[i] = TextLabel
        /\ Cardinality(references) = 1
     THEN LET p == ps[CHOOSE i \in references : TRUE]
          IN /\ c # Unreadable
             /\ c.encoded = data /\ c.consumed = Len(data)
             /\ c.kid = IF p.label = 4 THEN parse_bstr(p.value).value ELSE Unreadable
             /\ c.x5t = IF p.label = 34 THEN parse_x5t_value(p.value).value ELSE Unreadable
     ELSE c = Unreadable

\* A map of parameters is understood as the values and labels of its parameters
\* have it, and never by bytes within a value or behind it.
\* (parse_id_cred)
THEOREM IdCredsAlwaysUnderstood == Spec => []IdCredUnderstood
<1>1. ASSUME NEW list, NEW ps, ParametersOf(list, ps) PROVE Understood(list, ps)
  <2> DEFINE n == Len(ps)
             data == <<160 + n>> \o list
             labels == [i \in 1..n |-> ps[i].label]
             references == {i \in 1..n : labels[i] \in {4, 34}}
             c == parse_id_cred(data \o <<88, 48>>)
  <2>1. PICK tail \in Seq(Byte) : tail = <<88, 48>>
    <3>1. <<88, 48>> \in Seq(Byte)
      BY DEF Byte
    <3> QED
      BY <3>1
  <2>2. Verdict(c, data, ps, n)
    <3>1. PICK k, map, r : k = Len(ps) /\ map = Cat(<<160 + k>>, list) /\ r = parse_id_cred(Cat(map, tail))
      OBVIOUS
    <3>2. k \in 0..23 /\ list \in Seq(Byte) /\ ps \in Seq(Parameters)
      <4>1. list \in Seq(Byte) /\ ps \in Seq(Parameters) /\ k <= 23
        BY <1>1, <3>1 DEF ParametersOf
      <4>2. k \in Nat
        BY <3>1, <4>1, LenProperties
      <4> QED
        BY <4>1, <4>2
    <3>3. PICK m \in Nat : Len(list) = m
      BY <3>2, LenProperties
    <3>4. \A i \in 1..k : EncodesParameter(ps[i])
      <4>1. \A i \in 1..k : ps[i] \in Parameters
        BY <3>1, <3>2, ElementOfSeq
      <4> QED
        BY <4>1, InputAssumption
    <3>5. ParametersRead(list, ps, k, m)
      BY <1>1, <3>1, <3>3 DEF ParametersOf
    <3>6. Verdict(r, map, ps, k)
      BY <3>1, <3>2, <3>3, <3>5, <3>4, MapUnderstood, Zenon
    <3> QED
      BY <2>1, <3>1, <3>6 DEF Cat
  <2>3. \A i \in 1..n : labels[i] = ps[i].label
    OBVIOUS
  <2>4. references = References(ps, n)
    BY <2>3 DEF References
  <2> HIDE DEF n, data, labels, references, c
  <2>5. (/\ \A i \in 1..n : ps[i].good
         /\ \A i, j \in 1..n : labels[i] = labels[j] => i = j \/ labels[i] = TextLabel)
          <=> Fits(ps, n)
    BY <2>3, Zenon DEF Fits
  <2>6. IF /\ n <= ID_CRED_MAX_PARAMETERS /\ Len(data) <= ID_CRED_MAX_LEN
           /\ \A i \in 1..n : ps[i].good
           /\ \A i, j \in 1..n : labels[i] = labels[j] => i = j \/ labels[i] = TextLabel
           /\ Cardinality(references) = 1
        THEN AcceptedAs(c, data, ps[CHOOSE i \in references : TRUE])
        ELSE c = Unreadable
    BY <2>2, <2>4, <2>5, Zenon DEF Verdict
  <2> QED
    BY <2>6, Zenon DEF Understood, AcceptedAs, n, data, labels, references, c
<1>2. ParameterInputs => IdCredUnderstood
  <2>1. SUFFICES ASSUME ParameterInputs, codec = "parameters" PROVE Understood(first, second)
    BY Zenon DEF IdCredUnderstood, Understood
  <2>2. ParametersOf(first, second)
    BY <2>1 DEF ParameterInputs
  <2> QED
    BY <1>1, <2>2
<1> QED
  BY <1>2, ParameterInputsHold, PTL

=============================================================================
