----------------------- MODULE EdhocIdentifiers_proofs -----------------------
(***************************************************************************)
(* Identifiers survive the wire, whatever their length and whatever        *)
(* follows them.                                                           *)
(***************************************************************************)
EXTENDS EdhocIdentifiers, SequenceTheorems, TLAPS

-----------------------------------------------------------------------------
\* Strings laid end to end; what encodings have in common.

\* Two strings that agree in the length of their first parts agree in both.
LEMMA Cancel ==
  ASSUME NEW S, NEW a \in Seq(S), NEW b \in Seq(S), NEW x \in Seq(S), NEW y \in Seq(S),
         Len(a) = Len(b), a \o x = b \o y
  PROVE  a = b /\ x = y
<1>1. Len(a) \in Nat /\ Len(b) \in Nat /\ Len(x) \in Nat /\ Len(y) \in Nat
  BY LenProperties
<1>2. a = b
  <2>1. ASSUME NEW i \in 1..Len(a) PROVE a[i] = b[i]
    <3>1. (a \o x)[i] = a[i] /\ (b \o y)[i] = b[i]
      BY <1>1, ConcatProperties
    <3> QED
      BY <3>1
  <2> QED
    BY <2>1, SeqEqual
<1>3. x = y
  BY <1>2, ConcatSimplifications
<1> QED
  BY <1>2, <1>3

\* The same with one byte in front.
LEMMA CancelByte ==
  ASSUME NEW S, NEW a \in S, NEW b \in S, NEW x \in Seq(S), NEW y \in Seq(S),
         <<a>> \o x = <<b>> \o y
  PROVE  a = b /\ x = y
<1>1. <<a>> \in Seq(S) /\ <<b>> \in Seq(S) /\ Len(<<a>>) = Len(<<b>>)
  OBVIOUS
<1>2. <<a>> = <<b>> /\ x = y
  BY <1>1, Cancel
<1> QED
  BY <1>2

\* A part is found where it was put.
LEMMA Slice ==
  ASSUME NEW S, NEW a \in Seq(S), NEW b \in Seq(S), NEW c \in Seq(S)
  PROVE  SubSeq((a \o b) \o c, Len(a) + 1, Len(a) + Len(b)) = b
<1> DEFINE ab == a \o b
           s == ab \o c
           part == SubSeq(s, Len(a) + 1, Len(a) + Len(b))
<1>1. Len(a) \in Nat /\ Len(b) \in Nat /\ Len(c) \in Nat
  BY LenProperties
<1>2. /\ ab \in Seq(S) /\ Len(ab) = Len(a) + Len(b)
      /\ \A i \in 1..(Len(a) + Len(b)) : ab[i] = IF i <= Len(a) THEN a[i] ELSE b[i - Len(a)]
  BY ConcatProperties
<1> HIDE DEF ab
<1>3. /\ s \in Seq(S) /\ Len(s) = Len(ab) + Len(c)
      /\ \A i \in 1..(Len(ab) + Len(c)) : s[i] = IF i <= Len(ab) THEN ab[i] ELSE c[i - Len(ab)]
  <2>1. ab \in Seq(S)
    BY <1>2
  <2>2. /\ ab \o c \in Seq(S) /\ Len(ab \o c) = Len(ab) + Len(c)
        /\ \A i \in 1..(Len(ab) + Len(c)) :
             (ab \o c)[i] = IF i <= Len(ab) THEN ab[i] ELSE c[i - Len(ab)]
    BY <2>1, ConcatProperties
  <2> QED
    BY <2>2 DEF s
<1> HIDE DEF s
<1>4. \A i \in 1..Len(s) : s[i] \in S
  BY <1>3, ElementOfSeq
<1>5. /\ part \in Seq(S) /\ Len(part) = Len(b)
      /\ \A i \in 1..Len(b) : part[i] = s[Len(a) + i]
  <2>1. \A i \in (Len(a) + 1)..(Len(a) + Len(b)) : s[i] \in S
    BY <1>1, <1>2, <1>3, <1>4
  <2>2. /\ part \in Seq(S)
        /\ Len(part) = IF Len(a) + 1 <= Len(a) + Len(b)
                       THEN Len(a) + Len(b) - (Len(a) + 1) + 1 ELSE 0
        /\ \A i \in 1..(Len(a) + Len(b) - (Len(a) + 1) + 1) : part[i] = s[Len(a) + 1 + i - 1]
    BY <1>1, <2>1, SubSeqProperties
  <2> HIDE DEF part
  <2>3. Len(a) + Len(b) - (Len(a) + 1) + 1 = Len(b)
    BY <1>1
  <2>4. \A i \in 1..Len(b) : Len(a) + 1 + i - 1 = Len(a) + i
    BY <1>1
  <2> QED
    BY <1>1, <2>2, <2>3, <2>4
<1> HIDE DEF part
<1>6. ASSUME NEW i \in 1..Len(b) PROVE part[i] = b[i]
  <2>1. s[Len(a) + i] = ab[Len(a) + i]
    BY <1>1, <1>2, <1>3
  <2>2. ab[Len(a) + i] = b[i]
    <3>1. Len(a) + i \in 1..(Len(a) + Len(b)) /\ ~(Len(a) + i <= Len(a))
          /\ (Len(a) + i) - Len(a) = i
      BY <1>1
    <3> QED
      BY <1>2, <3>1
  <2> QED
    BY <1>5, <2>1, <2>2
<1>7. part = b
  BY <1>5, <1>6, SeqEqual
<1> QED
  BY <1>7 DEF part, s, ab

-----------------------------------------------------------------------------
\* Identifiers.

\* Identifiers that encode_identifier and parse_identifier agree about: all
\* but the single bytes that look like negative integers.
Faithful(id) == ~(Len(id) = 1 /\ id[1] \in NegativeInts)

\* The head of a byte string: its first byte is neither an integer nor long.
\* (encode_bstr)
LEMMA HeadByte ==
  ASSUME NEW n \in Nat, n <= CONNECTION_ID_CAPACITY
  PROVE  /\ 64 + n \in Byte /\ 64 + n \in 64..87
         /\ 64 + n \notin UnsignedInts \cup NegativeInts
         /\ (64 + n = 65 <=> n = 1) /\ (64 + n) - 64 = n
BY DEF Byte, UnsignedInts, NegativeInts, CONNECTION_ID_CAPACITY

\* The byte string inside an encoding comes back out of it.
\* (encode_bstr, and the tail of parse_identifier)
LEMMA StringBack ==
  ASSUME NEW id \in ConnectionIds, NEW tail \in Seq(Byte)
  PROVE  LET data == encode_bstr(id) \o tail
         IN /\ data \in Seq(Byte)
            /\ data # <<>>
            /\ data[1] = 64 + Len(id)
            /\ Len(id) > 0 => Len(data) >= 2 /\ data[2] = id[1]
            /\ StringAt(data, 1, Len(id)) = [id |-> id, consumed |-> 1 + Len(id)]
<1> DEFINE head == <<64 + Len(id)>>
           data == (head \o id) \o tail
<1>1. id \in Seq(Byte) /\ Len(id) \in Nat /\ Len(id) <= 7
  BY DEF ConnectionIds, CONNECTION_ID_CAPACITY
<1>2. head \in Seq(Byte) /\ Len(head) = 1 /\ head[1] = 64 + Len(id)
  <2>1. 64 + Len(id) \in Byte
    BY <1>1, HeadByte DEF CONNECTION_ID_CAPACITY
  <2> QED BY <2>1
<1> HIDE DEF head
<1>3. head \o id \in Seq(Byte) /\ Len(head \o id) = 1 + Len(id)
  <2>1. Len(head \o id) = Len(head) + Len(id) /\ head \o id \in Seq(Byte)
    BY <1>1, <1>2, ConcatProperties
  <2> QED BY <1>1, <1>2, <2>1
<1>4. data \in Seq(Byte) /\ Len(data) = 1 + Len(id) + Len(tail) /\ Len(tail) \in Nat
  BY <1>1, <1>2, <1>3, ConcatProperties
<1>5. data[1] = 64 + Len(id)
  BY <1>1, <1>2, <1>3, <1>4, ConcatProperties
<1>6. ASSUME NEW k \in 1..Len(id) PROVE data[k + 1] = id[k]
  <2>1. (head \o id)[k + 1] = id[k]
    <3>1. k + 1 \in 1..(Len(head) + Len(id)) /\ ~(k + 1 <= Len(head))
          /\ (k + 1) - Len(head) = k
      BY <1>1, <1>2
    <3>2. \A j \in 1..(Len(head) + Len(id)) :
            (head \o id)[j] = IF j <= Len(head) THEN head[j] ELSE id[j - Len(head)]
      BY <1>1, <1>2, ConcatProperties
    <3> QED BY <3>1, <3>2
  <2> QED BY <1>1, <1>3, <2>1, ConcatProperties
<1>7. SubSeq(data, 2, 1 + Len(id)) = id
  <2> DEFINE s == SubSeq(data, 2, 1 + Len(id))
  <2> HIDE DEF data
  <2>1. s \in Seq(Byte) /\ Len(s) = Len(id)
    BY <1>1, <1>4, SubSeqProperties
  <2>2. ASSUME NEW k \in 1..Len(id) PROVE s[k] = id[k]
    <3>1. s[k] = data[k + 1]
      BY <1>1, <1>4, SubSeqProperties
    <3> QED BY <3>1, <1>6
  <2> QED BY <2>1, <2>2, <1>1, SeqEqual
<1>8. data # <<>> /\ (Len(id) > 0 => Len(data) >= 2 /\ data[2] = id[1])
  <2> HIDE DEF data
  <2>1. data # <<>>
    BY <1>1, <1>4
  <2>2. ASSUME Len(id) > 0 PROVE Len(data) >= 2 /\ data[2] = id[1]
    <3>1. 1 \in 1..Len(id)
      BY <1>1, <2>2
    <3>2. data[1 + 1] = id[1]
      BY <3>1, <1>6
    <3> QED BY <3>2, <1>1, <1>4, <2>2
  <2> QED BY <2>1, <2>2
<1>9. StringAt(data, 1, Len(id)) = [id |-> id, consumed |-> 1 + Len(id)]
  <2> HIDE DEF data
  <2>1. Len(data) >= 1 + Len(id) /\ 1 + 1 = 2
    BY <1>1, <1>4
  <2> QED BY <1>1, <1>7, <2>1, Zenon DEF StringAt, CONNECTION_ID_CAPACITY
<1>10. encode_bstr(id) \o tail = data
  BY DEF encode_bstr, head
<1> HIDE DEF data
<1> QED BY <1>4, <1>5, <1>8, <1>9, <1>10

\* The four kinds of first byte exclude each other.
\* (parse_identifier)
LEMMA FirstBytes ==
  /\ \A b : b \in UnsignedInts => b \notin NegativeInts /\ b \notin 64..87 /\ b # 88
  /\ \A b : b \in 64..87 => b \notin UnsignedInts /\ b \notin NegativeInts /\ b # 88
  /\ \A b \in Byte : b <= 23 <=> b \in UnsignedInts
BY DEF UnsignedInts, NegativeInts, Byte

\* A first byte below 24 is an identifier by itself.
\* (parse_identifier, its first branch)
LEMMA ParseInteger ==
  ASSUME NEW data \in Seq(Byte), data # <<>>, data[1] \in UnsignedInts
  PROVE  parse_identifier(data) = [id |-> <<data[1]>>, consumed |-> 1]
<1>1. data[1] \notin NegativeInts /\ data[1] \notin 64..87 /\ data[1] # 88
  BY FirstBytes
<1> QED BY <1>1, Zenon DEF parse_identifier

\* A first byte of a short byte string is its length, unless the string is a
\* single byte that should have been sent as an integer.
\* (parse_identifier, its byte string branch)
LEMMA ParseString ==
  ASSUME NEW data \in Seq(Byte), data # <<>>, data[1] \in 64..87,
         ~(data[1] = 65 /\ Len(data) >= 2 /\ data[2] <= 23)
  PROVE  parse_identifier(data) = StringAt(data, 1, data[1] - 64)
<1>1. /\ data[1] \notin UnsignedInts /\ data[1] \notin NegativeInts
      /\ data[1] # 88
  BY FirstBytes
<1> QED BY <1>1, Zenon DEF parse_identifier

\* Reading back what was written gives the identifier, and stops where it ends.
\* (encode_identifier, parse_identifier)
THEOREM RoundTripAlways ==
  ASSUME NEW id \in ConnectionIds, NEW tail \in Seq(Byte), Faithful(id)
  PROVE  parse_identifier(encode_identifier(id) \o tail) =
           [id |-> id, consumed |-> Len(encode_identifier(id))]
<1>1. id \in Seq(Byte) /\ Len(id) \in Nat /\ Len(id) <= 7
  BY DEF ConnectionIds, CONNECTION_ID_CAPACITY
<1>2. CASE Len(id) = 1 /\ id[1] \in UnsignedInts
  <2>1. encode_identifier(id) = id /\ id = <<id[1]>>
    BY <1>1, <1>2 DEF encode_identifier
  <2>2. id \o tail \in Seq(Byte) /\ id \o tail # <<>> /\ (id \o tail)[1] = id[1]
    <3>1. id \o tail \in Seq(Byte)
      BY <1>1, ConcatProperties
    <3>2. id \o tail # <<>> /\ (id \o tail)[1] = id[1]
      BY <1>1, <1>2
    <3> QED BY <3>1, <3>2
  <2>3. parse_identifier(id \o tail) = [id |-> <<id[1]>>, consumed |-> 1]
    BY <1>2, <2>2, ParseInteger
  <2> QED BY <1>2, <2>1, <2>3
<1>3. CASE ~(Len(id) = 1 /\ id[1] \in UnsignedInts)
  <2> DEFINE data == encode_bstr(id) \o tail
  <2>1. encode_identifier(id) = encode_bstr(id)
    BY <1>3 DEF encode_identifier, Faithful
  <2>2. Len(encode_bstr(id)) = 1 + Len(id)
    BY <1>1 DEF encode_bstr, Byte
  <2>3. /\ data \in Seq(Byte) /\ data # <<>> /\ data[1] = 64 + Len(id)
        /\ Len(id) > 0 => Len(data) >= 2 /\ data[2] = id[1]
        /\ StringAt(data, 1, Len(id)) = [id |-> id, consumed |-> 1 + Len(id)]
    BY StringBack
  <2>4. data[1] \in 64..87 /\ data[1] \notin UnsignedInts \cup NegativeInts
    <3>1. PICK n \in Nat : n = Len(id) /\ n <= CONNECTION_ID_CAPACITY
      BY <1>1 DEF CONNECTION_ID_CAPACITY
    <3>2. data[1] = 64 + n
      BY <2>3, <3>1
    <3>3. 64 + n \in 64..87 /\ 64 + n \notin UnsignedInts \cup NegativeInts
      BY <3>1, HeadByte
    <3> QED BY <3>2, <3>3, Zenon
  <2>5. ~(data[1] = 65 /\ Len(data) >= 2 /\ data[2] <= 23)
    <3>1. CASE Len(id) = 1
      <4>1. id[1] \in Byte /\ id[1] \notin UnsignedInts /\ data[2] = id[1]
        <5>1. Len(id) > 0 /\ 1 \in 1..Len(id)
          BY <3>1
        <5>2. id[1] \in Byte
          BY <1>1, <5>1, ElementOfSeq
        <5> QED BY <1>3, <2>3, <3>1, <5>1, <5>2, Zenon
      <4>2. ~(id[1] <= 23)
        BY <4>1, FirstBytes
      <4> QED BY <4>1, <4>2
    <3>2. CASE Len(id) # 1
      BY <1>1, <2>3, <3>2, HeadByte DEF CONNECTION_ID_CAPACITY
    <3> QED BY <3>1, <3>2
  <2>6. parse_identifier(data) = StringAt(data, 1, data[1] - 64)
    BY <2>3, <2>4, <2>5, ParseString
  <2>7. data[1] - 64 = Len(id)
    BY <1>1, <2>3
  <2> QED BY <2>1, <2>2, <2>3, <2>6, <2>7
<1> QED BY <1>2, <1>3

\* The responder's parser of C_I reads what the initiator wrote, or refuses it.
\* (encode_identifier, process_message_1)
THEOREM ResponderNeverMisreads ==
  ASSUME NEW id \in ConnectionIds
  PROVE  parse_c_i(encode_identifier(id)) \in {id, Unreadable}
<1> DEFINE w == encode_identifier(id)
<1>1. id \in Seq(Byte) /\ Len(id) \in Nat
  BY DEF ConnectionIds
<1>2. CASE Len(id) = 1 /\ id[1] \in UnsignedInts \cup NegativeInts
  BY <1>1, <1>2 DEF parse_c_i, encode_identifier
<1>3. CASE ~(Len(id) = 1 /\ id[1] \in UnsignedInts \cup NegativeInts)
  <2>1. w = <<64 + Len(id)>> \o id
    BY <1>3 DEF encode_identifier, encode_bstr
  <2>2. Len(w) = 1 + Len(id) /\ w[1] = 64 + Len(id)
    BY <1>1, <2>1 DEF Byte
  <2>3. CASE Len(id) = 1
    <3>1. w[2] = id[1] /\ id = <<id[1]>>
      BY <1>1, <2>1, <2>3 DEF Byte
    <3> QED BY <2>2, <2>3, <3>1 DEF parse_c_i
  <2>4. CASE Len(id) # 1
    <3>1. ~(Len(w) = 1 /\ w[1] \in UnsignedInts)
      BY <1>1, <2>2 DEF UnsignedInts
    <3>2. Len(w) # 2
      <4> HIDE DEF w
      <4>1. \A n \in Nat : n # 1 => 1 + n # 2
        OBVIOUS
      <4> QED BY <1>1, <2>2, <2>4, <4>1
    <3> QED BY <3>1, <3>2 DEF parse_c_i
  <2> QED BY <2>3, <2>4
<1> QED BY <1>2, <1>3

=============================================================================
