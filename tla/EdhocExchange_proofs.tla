------------------------- MODULE EdhocExchange_proofs -------------------------
(***************************************************************************)
(* For any number of sessions, any credentials, references and             *)
(* identifiers, and any damage: the two ends of a handshake agree, and an  *)
(* ephemeral key is used once.                                             *)
(***************************************************************************)
EXTENDS EdhocExchange, EdhocIdentifiers_proofs

\* None and Garbled are none of the terms that sessions compute.
AtomsAreNoTerms ==
  /\ \A th_2, g_xy : None # hkdf_extract(th_2, g_xy)
  /\ \A th_3, plaintext, cred : None # transcript_4(th_3, plaintext, cred)
  /\ \A prk, th_4, id, peer_id : None # export_context(prk, th_4, id, peer_id)
  /\ \A peer, cred, context :
       None # [peer |-> peer, credential |-> cred, context |-> context]
  /\ \A cred, m : Garbled # sign(cred, m)

-----------------------------------------------------------------------------
\* Terms of a handshake between i and r.

Messages1 == [g_x : Initiators \cup {Garbled}, c_i : Wires]

\* What may have been opened from a message 2.
Plaintexts2 ==
  [c_r : Wires, id_cred : References,
   signature : {m.plaintext.signature : m \in sent[2]} \cup {Garbled}]

Th2(i, r) == transcript_2(r, message_1(i))
PrkOf(i, r) == hkdf_extract(Th2(i, r), diffie_hellman(i, r))

\* TH_3 at the responder, and at the initiator that opened `plaintext`.
Th3Made(r, m) == transcript_3(transcript_2(r, m), Plaintext2(r, m), Self[r])
Th3Read(i, r, plaintext) == transcript_3(Th2(i, r), plaintext, Self[r])

Plain3(i, r, th_3) ==
  Plaintext_3(Self[i],
    sign(Self[i], m_3(PrkOf(i, r), IdCred[Self[i]], th_3, Self[i])))
Th4Of(i, r, th_3) == transcript_4(th_3, Plain3(i, r, th_3), Self[i])

MasterOf(i, r, th_4) == edhoc_kdf(PrkOf(i, r), "PRK_OUT", th_4)

InitiatorHolds(i, r, th_3) ==
  [peer |-> r, credential |-> Self[r],
   context |-> export_context(PrkOf(i, r), Th4Of(i, r, th_3), Id[r], Id[i])]
ResponderHolds(r, i, th_3) ==
  [peer |-> i, credential |-> Self[i],
   context |-> export_context(PrkOf(i, r), Th4Of(i, r, th_3), Id[i], Id[r])]

-----------------------------------------------------------------------------
\* The invariant.

IsInitiatorState(s) ==
  s = [lifecycle |-> s.lifecycle, eph_secret |-> s.eph_secret, g_y |-> s.g_y,
       c_r |-> s.c_r, prk_3e2m |-> s.prk_3e2m, prk_4e3m |-> s.prk_4e3m,
       th_2 |-> s.th_2, th_3 |-> s.th_3, th_4 |-> s.th_4, completed |-> s.completed]
IsResponderState(s) ==
  s = [lifecycle |-> s.lifecycle, eph_secret |-> s.eph_secret, g_x |-> s.g_x,
       c_i |-> s.c_i, prk_3e2m |-> s.prk_3e2m, prk_4e3m |-> s.prk_4e3m,
       th_3 |-> s.th_3, th_4 |-> s.th_4, completed |-> s.completed]

\* Every variable is a function of the sessions, and every state a record.
Shape ==
  /\ sent = [n \in 1..3 |-> sent[n]]
  /\ initiator = [i \in Initiators |-> initiator[i]]
  /\ responder = [r \in Responders |-> responder[r]]
  /\ pending_message_2 = [i \in Initiators |-> pending_message_2[i]]
  /\ pending_message_3 = [r \in Responders |-> pending_message_3[r]]
  /\ exchanged = [s \in Sessions |-> exchanged[s]]
  /\ agreed = [s \in Sessions |-> agreed[s]]
  /\ disturbed \subseteq Sessions
  /\ \A i \in Initiators : IsInitiatorState(initiator[i])
  /\ \A r \in Responders : IsResponderState(responder[r])

\* What each state of an initiator holds, and when it may still use its key.
InitiatorOk(i) ==
  LET s == initiator[i]
  IN  /\ s.lifecycle \in
           {"Created", "Message1Created", "PendingMessage2", "Complete", "Failed", "Zeroized"}
      /\ s.eph_secret \in BOOLEAN /\ s.completed \in BOOLEAN
      /\ s.eph_secret <=> (s.lifecycle \in {"Created", "Message1Created"})
      /\ s.completed <=> (s.lifecycle = "Complete")
      /\ s.c_r \in ConnectionIds
      /\ s.eph_secret => exchanged[i] = {}
      /\ \A x, y \in exchanged[i] : x = y
      /\ s.lifecycle \in {"Created", "Message1Created", "PendingMessage2"} =>
           agreed[i] = None
      /\ IF s.lifecycle \in {"PendingMessage2", "Complete"}
         THEN /\ s.g_y \in EphemeralKeys
              /\ s.th_2 = transcript_2(s.g_y, message_1(i))
              /\ s.prk_3e2m = hkdf_extract(s.th_2, diffie_hellman(i, s.g_y))
         ELSE s.prk_3e2m = None /\ s.th_2 = None
      /\ IF s.lifecycle = "Complete"
         THEN /\ s.prk_4e3m = s.prk_3e2m
              /\ s.th_4 # None
              /\ agreed[i] # None
              /\ agreed[i].context = export_context(s.prk_4e3m, s.th_4, s.c_r, Id[i])
         ELSE s.prk_4e3m = None /\ s.th_3 = None /\ s.th_4 = None

\* The same of a responder.
ResponderOk(r) ==
  LET s == responder[r]
  IN  /\ s.lifecycle \in
           {"Created", "AwaitingMessage3", "PendingMessage3", "Complete", "Failed", "Zeroized"}
      /\ s.eph_secret \in BOOLEAN /\ s.completed \in BOOLEAN
      /\ s.eph_secret <=> (s.lifecycle = "Created")
      /\ s.completed <=> (s.lifecycle = "Complete")
      /\ s.c_i \in ConnectionIds
      /\ s.eph_secret => exchanged[r] = {}
      /\ \A x, y \in exchanged[r] : x = y
      /\ s.lifecycle \in {"Created", "AwaitingMessage3", "PendingMessage3"} =>
           agreed[r] = None
      /\ IF s.lifecycle \in {"AwaitingMessage3", "PendingMessage3", "Complete"}
         THEN \E m \in Messages1 :
                /\ Message2(r, m) \in sent[2]
                /\ s.g_x = m.g_x
                /\ s.prk_3e2m = Prk(r, m)
                /\ s.th_3 = Th3Made(r, m)
         ELSE s.prk_3e2m = None /\ s.th_3 = None
      /\ IF s.lifecycle = "Complete"
         THEN /\ s.prk_4e3m = s.prk_3e2m
              /\ s.th_4 # None
              /\ agreed[r] # None
              /\ agreed[r].context = export_context(s.prk_4e3m, s.th_4, s.c_i, Id[r])
         ELSE s.prk_4e3m = None /\ s.th_4 = None

Sent1Sound == sent[1] \subseteq {message_1(i) : i \in Initiators}

\* A message 2 was made by its responder with its one ephemeral key, for a
\* message 1 with another identifier than its own.
Sent2Sound ==
  /\ \A m \in sent[2] : \E r \in Responders, m1 \in Messages1 : m = Message2(r, m1)
  /\ \A r \in Responders, m1 \in Messages1 :
       Message2(r, m1) \in sent[2] =>
         /\ ~responder[r].eph_secret
         /\ exchanged[r] = {m1.g_x}
         /\ parse_c_i(m1.c_i) # Unreadable
         /\ parse_c_i(m1.c_i) # Id[r]
         /\ responder[r].c_i = parse_c_i(m1.c_i)
         /\ \A m2 \in Messages1 : Message2(r, m2) \in sent[2] => m2 = m1

\* A message 3 was made by an initiator when it completed.
Sent3Sound ==
  \A m \in sent[3] :
    \E i \in Initiators, r \in Responders, plaintext \in Plaintexts2 :
      LET th_3 == Th3Read(i, r, plaintext)
      IN  /\ m = message_3(PrkOf(i, r), th_3, Plain3(i, r, th_3))
          /\ agreed[i] = InitiatorHolds(i, r, th_3)

\* What an initiator opened came from some message 2, if damaged.
Opened2Ok(i) ==
  pending_message_2[i] # None =>
    \E plaintext \in Plaintexts2, g_y \in EphemeralKeys :
      /\ parse_identifier(plaintext.c_r) # Unreadable
      /\ pending_message_2[i] =
           PendingMessage2(plaintext, parse_identifier(plaintext.c_r).id,
                           transcript_2(g_y, message_1(i)))

Opened3Ok(r) ==
  pending_message_3[r] # None =>
    \E m \in sent[3], th_3 \in {Th3Made(q, m1) : q \in Responders, m1 \in Messages1} :
      pending_message_3[r] = PendingMessage3(m.plaintext, th_3)

\* An initiator that completed did so with a responder that answered it; the
\* plaintext it read may be spelled otherwise than the one sent.
InitiatorAgreed ==
  \A i \in Initiators : agreed[i] # None =>
    \E r \in Responders, plaintext \in Plaintexts2 :
      /\ Message2(r, message_1(i)) \in sent[2]
      /\ parse_identifier(plaintext.c_r) # Unreadable
      /\ parse_identifier(plaintext.c_r).id = Id[r]
      /\ plaintext.id_cred = IdCred[Self[r]]
      /\ plaintext.signature = Plaintext2(r, message_1(i)).signature
      /\ agreed[i] = InitiatorHolds(i, r, Th3Read(i, r, plaintext))

\* A responder that completed did so with an initiator that had completed.
ResponderAgreed ==
  \A r \in Responders : agreed[r] # None =>
    \E i \in Initiators :
      /\ Message2(r, message_1(i)) \in sent[2]
      /\ agreed[i] = InitiatorHolds(i, r, Th3Made(r, message_1(i)))
      /\ agreed[r] = ResponderHolds(r, i, Th3Made(r, message_1(i)))

IInv ==
  /\ Shape
  /\ \A i \in Initiators : InitiatorOk(i) /\ Opened2Ok(i)
  /\ \A r \in Responders : ResponderOk(r) /\ Opened3Ok(r)
  /\ Sent1Sound /\ Sent2Sound /\ Sent3Sound
  /\ InitiatorAgreed /\ ResponderAgreed

-----------------------------------------------------------------------------
\* Terms come apart into what they were made of.

LEMMA HashParts ==
  /\ \A g_y, m : transcript_2(g_y, m).g_y = g_y /\ transcript_2(g_y, m).msg1 = m
  /\ \A th, p, c : /\ transcript_3(th, p, c).th_2 = th
                   /\ transcript_3(th, p, c).plaintext_2 = p
                   /\ transcript_3(th, p, c).cred_r = c
  /\ \A th, p, c : /\ transcript_4(th, p, c).th_3 = th
                   /\ transcript_4(th, p, c).plaintext_3 = p
                   /\ transcript_4(th, p, c).cred_i = c
  BY DEF transcript_2, transcript_3, transcript_4

LEMMA KeyParts ==
  /\ \A th, g : hkdf_extract(th, g).th_2 = th /\ hkdf_extract(th, g).g_xy = g
  /\ \A prk, label, c : /\ edhoc_kdf(prk, label, c).prk = prk
                        /\ edhoc_kdf(prk, label, c).context = c
  /\ \A prk, th, id, peer :
       /\ export_context(prk, th, id, peer).master = edhoc_kdf(prk, "PRK_OUT", th)
       /\ export_context(prk, th, id, peer).sender_id = id
       /\ export_context(prk, th, id, peer).recipient_id = peer
  BY DEF hkdf_extract, edhoc_kdf, export_context

LEMMA MessageParts ==
  /\ \A i : message_1(i).g_x = i /\ message_1(i).c_i = encode_identifier(Id[i])
  /\ \A r, m : /\ Message2(r, m).g_y = r
               /\ Message2(r, m).prk = Prk(r, m)
               /\ Message2(r, m).plaintext = Plaintext2(r, m)
               /\ Prk(r, m).th_2 = transcript_2(r, m)
  /\ \A prk, th, p : /\ message_3(prk, th, p).k_3 = edhoc_kdf(prk, "K_3", th)
                     /\ message_3(prk, th, p).plaintext = p
  BY KeyParts DEF message_1, Message2, message_2, Prk, message_3

LEMMA SignatureParts ==
  \A c, m : sign(c, m).signer = c /\ sign(c, m).m = m
  BY DEF sign

\* A signature over message 2 covers the key, the identifier, the reference, the
\* transcript and the credential.
\* (build_context_2, build_signature_structure)
LEMMA Signed2Apart ==
  ASSUME NEW prk, NEW c, NEW id, NEW th, NEW cred,
         NEW prk2, NEW c2, NEW id2, NEW th2, NEW cred2,
         m_2(prk, c, id, th, cred) = m_2(prk2, c2, id2, th2, cred2)
  PROVE  /\ prk = prk2 /\ encode_identifier(c) = encode_identifier(c2)
         /\ id = id2 /\ th = th2 /\ cred = cred2
<1> DEFINE context == build_context_2(c, id, th, cred)
           context2 == build_context_2(c2, id2, th2, cred2)
           mac == edhoc_kdf(prk, "MAC_2", context)
           mac2 == edhoc_kdf(prk2, "MAC_2", context2)
<1>1. mac = mac2 /\ id = id2 /\ th = th2 /\ cred = cred2
  <2> HIDE DEF mac, mac2
  <2>1. build_signature_structure(id, th, cred, mac) =
          build_signature_structure(id2, th2, cred2, mac2)
    BY DEF m_2, mac, mac2
  <2> QED BY <2>1 DEF build_signature_structure
<1>2. prk = prk2 /\ context = context2
  <2> HIDE DEF context, context2
  <2> QED BY <1>1, KeyParts
<1>3. encode_identifier(c) = encode_identifier(c2)
  BY <1>2 DEF build_context_2
<1> QED BY <1>1, <1>2, <1>3

\* The same of message 3.
\* (build_context_3, build_signature_structure)
LEMMA Signed3Apart ==
  ASSUME NEW prk, NEW id, NEW th, NEW cred,
         NEW prk2, NEW id2, NEW th2, NEW cred2,
         m_3(prk, id, th, cred) = m_3(prk2, id2, th2, cred2)
  PROVE  prk = prk2 /\ id = id2 /\ th = th2 /\ cred = cred2
<1> DEFINE mac == edhoc_kdf(prk, "MAC_3", build_context_3(id, th, cred))
           mac2 == edhoc_kdf(prk2, "MAC_3", build_context_3(id2, th2, cred2))
<1>1. mac = mac2 /\ id = id2 /\ th = th2 /\ cred = cred2
  <2> HIDE DEF mac, mac2
  <2>1. build_signature_structure(id, th, cred, mac) =
          build_signature_structure(id2, th2, cred2, mac2)
    BY DEF m_3, mac, mac2
  <2> QED BY <2>1 DEF build_signature_structure
<1> QED BY <1>1, KeyParts

-----------------------------------------------------------------------------
\* Identifiers on the wire.

LEMMA EncodedType ==
  ASSUME NEW id \in ConnectionIds
  PROVE  encode_identifier(id) \in Seq(Byte)
<1>1. id \in Seq(Byte) /\ Len(id) \in Nat /\ Len(id) <= CONNECTION_ID_CAPACITY
  BY DEF ConnectionIds
<1>2. 64 + Len(id) \in Byte
  BY <1>1, HeadByte
<1>3. encode_bstr(id) \in Seq(Byte)
  BY <1>1, <1>2, ConcatProperties DEF encode_bstr
<1> QED BY <1>1, <1>3 DEF encode_identifier

\* No two identifiers look alike on the wire.
\* (encode_identifier)
LEMMA EncodeApart ==
  ASSUME NEW id \in ConnectionIds, NEW other \in ConnectionIds,
         encode_identifier(id) = encode_identifier(other)
  PROVE  id = other
<1> DEFINE Short(x) == Len(x) = 1 /\ x[1] \in UnsignedInts \cup NegativeInts
<1>1. \A x \in {id, other} : x \in Seq(Byte) /\ Len(x) \in Nat /\ Len(x) <= 7
  BY DEF ConnectionIds, CONNECTION_ID_CAPACITY
<1>2. ASSUME NEW x \in {id, other}
      PROVE  /\ Len(encode_bstr(x)) = 1 + Len(x)
             /\ encode_bstr(x)[1] = 64 + Len(x)
             /\ StringAt(encode_bstr(x), 1, Len(x)) = [id |-> x, consumed |-> 1 + Len(x)]
  <2>1. x \in ConnectionIds
    OBVIOUS
  <2>2. <<>> \in Seq(Byte) /\ encode_bstr(x) \in Seq(Byte)
    <3>1. 64 + Len(x) \in Byte
      BY <1>1, HeadByte DEF CONNECTION_ID_CAPACITY
    <3> QED BY <1>1, <3>1, ConcatProperties DEF encode_bstr
  <2>3. encode_bstr(x) \o <<>> = encode_bstr(x)
    BY <2>2, ConcatEmptySeq
  <2>4. Len(encode_bstr(x)) = 1 + Len(x)
    BY <1>1 DEF encode_bstr, Byte
  <2>5. /\ (encode_bstr(x) \o <<>>)[1] = 64 + Len(x)
        /\ StringAt(encode_bstr(x) \o <<>>, 1, Len(x)) = [id |-> x, consumed |-> 1 + Len(x)]
    BY <2>1, <2>2, StringBack
  <2> QED BY <2>3, <2>4, <2>5
<1>3. CASE Short(id) /\ Short(other)
  BY <1>3 DEF encode_identifier
<1>4. CASE Short(id) /\ ~Short(other)
  <2>1. id = encode_bstr(other)
    BY <1>4 DEF encode_identifier
  <2>2. id[1] = 64 + Len(other)
    BY <1>2, <2>1
  <2> QED BY <1>1, <1>4, <2>2, HeadByte DEF CONNECTION_ID_CAPACITY
<1>5. CASE ~Short(id) /\ Short(other)
  <2>1. other = encode_bstr(id)
    BY <1>5 DEF encode_identifier
  <2>2. other[1] = 64 + Len(id)
    BY <1>2, <2>1
  <2> QED BY <1>1, <1>5, <2>2, HeadByte DEF CONNECTION_ID_CAPACITY
<1>6. CASE ~Short(id) /\ ~Short(other)
  <2>1. encode_bstr(id) = encode_bstr(other)
    BY <1>6 DEF encode_identifier
  <2>2. Len(id) = Len(other)
    BY <1>1, <1>2, <2>1
  <2>3. [id |-> id, consumed |-> 1 + Len(id)] = [id |-> other, consumed |-> 1 + Len(other)]
    BY <1>2, <2>1, <2>2
  <2> QED BY <2>3
<1> QED BY <1>3, <1>4, <1>5, <1>6

\* What is read from the wire is an identifier.
\* (parse_identifier)
LEMMA ParsedType ==
  ASSUME NEW w \in Seq(Byte), parse_identifier(w) # Unreadable
  PROVE  parse_identifier(w).id \in ConnectionIds
<1>1. w # <<>>
  BY DEF parse_identifier
<1>2. w[1] \in Byte /\ Len(w) \in Nat
  BY <1>1
<1>3. ASSUME NEW b \in Byte PROVE <<b>> \in ConnectionIds
  BY DEF ConnectionIds, CONNECTION_ID_CAPACITY
<1>4. ASSUME NEW h \in {1, 2}, NEW n \in Nat, StringAt(w, h, n) # Unreadable
      PROVE  StringAt(w, h, n).id \in ConnectionIds
  <2>1. Len(w) >= h + n /\ n <= CONNECTION_ID_CAPACITY
    BY <1>4 DEF StringAt
  <2>2. StringAt(w, h, n).id = SubSeq(w, h + 1, h + n)
    BY <2>1 DEF StringAt
  <2>3. SubSeq(w, h + 1, h + n) \in Seq(Byte) /\ Len(SubSeq(w, h + 1, h + n)) = n
    BY <1>2, <2>1, SubSeqProperties
  <2> QED BY <2>1, <2>2, <2>3 DEF ConnectionIds
<1>5. CASE w[1] \in UnsignedInts
  <2>1. parse_identifier(w) = [id |-> <<w[1]>>, consumed |-> 1]
    BY <1>1, <1>5, ParseInteger
  <2> QED BY <1>2, <1>3, <2>1
<1>6. CASE w[1] \in NegativeInts
  <2>1. w[1] \notin UnsignedInts
    BY <1>6, FirstBytes
  <2>2. w[1] \notin 64..87 /\ w[1] # 88
    <3>1. \A b \in NegativeInts : b \notin 64..87 /\ b # 88
      BY DEF NegativeInts
    <3> QED BY <1>6, <3>1
  <2>3. parse_identifier(w) = [id |-> <<256 - (w[1] - 32 + 1)>>, consumed |-> 1]
    BY <1>1, <1>6, <2>1, <2>2, Zenon DEF parse_identifier
  <2>4. 256 - (w[1] - 32 + 1) \in Byte
    <3>1. \A b \in NegativeInts : 256 - (b - 32 + 1) \in Byte
      BY DEF NegativeInts, Byte
    <3> QED BY <1>6, <3>1
  <2> QED BY <1>3, <2>3, <2>4
<1>7. CASE w[1] \in 64..87
  <2>1. ~(w[1] = 65 /\ Len(w) >= 2 /\ w[2] <= 23)
    <3> SUFFICES ASSUME w[1] = 65 /\ Len(w) >= 2 /\ w[2] <= 23 PROVE FALSE
      OBVIOUS
    <3>1. w[1] \notin UnsignedInts /\ w[1] \notin NegativeInts /\ w[1] # 88
      BY <1>7, FirstBytes
    <3> QED BY <1>1, <3>1, Zenon DEF parse_identifier
  <2>2. parse_identifier(w) = StringAt(w, 1, w[1] - 64)
    BY <1>1, <1>7, <2>1, ParseString
  <2>3. w[1] - 64 \in Nat
    <3>1. \A b \in 64..87 : b - 64 \in Nat
      OBVIOUS
    <3> QED BY <1>7, <3>1
  <2> QED BY <1>4, <2>2, <2>3
<1>8. CASE w[1] = 88
  <2>1. w[1] \notin UnsignedInts /\ w[1] \notin NegativeInts /\ w[1] \notin 64..87
    BY <1>8 DEF UnsignedInts, NegativeInts
  <2>2. Len(w) >= 2
    BY <1>1, <1>8, <2>1, Zenon DEF parse_identifier
  <2>3. parse_identifier(w) = StringAt(w, 2, w[2])
    BY <1>1, <1>8, <2>1, <2>2, Zenon DEF parse_identifier
  <2>4. w[2] \in Nat
    <3>1. 2 \in 1..Len(w) /\ \A b \in Byte : b \in Nat
      BY <1>2, <2>2 DEF Byte
    <3> QED BY <3>1, ElementOfSeq
  <2> QED BY <1>4, <2>3, <2>4
<1>9. w[1] \in UnsignedInts \/ w[1] \in NegativeInts \/ w[1] \in 64..87 \/ w[1] = 88
  BY <1>1, Zenon DEF parse_identifier
<1> QED BY <1>5, <1>6, <1>7, <1>8, <1>9

\* (process_message_1)
LEMMA ParsedC_IType ==
  ASSUME NEW w \in Seq(Byte), parse_c_i(w) # Unreadable
  PROVE  parse_c_i(w) \in ConnectionIds
<1>1. CASE Len(w) = 1 /\ w[1] \in UnsignedInts
  BY <1>1 DEF parse_c_i, ConnectionIds, CONNECTION_ID_CAPACITY
<1>2. CASE Len(w) = 2 /\ w[1] = 65
  <2>1. w[2] \in Byte
    <3>1. 2 \in 1..Len(w)
      BY <1>2
    <3> QED BY <3>1, ElementOfSeq
  <2>2. parse_c_i(w) = <<w[2]>>
    BY <1>2 DEF parse_c_i, UnsignedInts
  <2> QED BY <2>1, <2>2 DEF ConnectionIds, CONNECTION_ID_CAPACITY
<1> QED BY <1>1, <1>2, Zenon DEF parse_c_i

LEMMA WiresType ==
  /\ Wires \subseteq Seq(Byte)
  /\ \A s \in Sessions : Id[s] \in ConnectionIds /\ encode_identifier(Id[s]) \in Wires
  /\ \A i \in Initiators : message_1(i) \in Messages1
<1>1. \A s \in Sessions : Id[s] \in ConnectionIds
  BY SessionAssumption
<1>2. Wires \subseteq Seq(Byte)
  BY <1>1, EncodedType DEF Wires
<1>3. \A s \in Sessions : encode_identifier(Id[s]) \in Wires
  BY DEF Wires
<1>4. \A i \in Initiators : message_1(i) \in Messages1
  BY <1>3 DEF message_1, Messages1, Sessions
<1> QED BY <1>1, <1>2, <1>3, <1>4

-----------------------------------------------------------------------------
\* What arrives.

LEMMA Plaintext2Parts ==
  ASSUME NEW r \in Responders, NEW m
  PROVE  /\ Plaintext2(r, m).c_r = encode_identifier(Id[r])
         /\ Plaintext2(r, m).id_cred = IdCred[Self[r]]
         /\ Plaintext2(r, m).signature =
              sign(Self[r], m_2(Prk(r, m), Id[r], IdCred[Self[r]],
                                transcript_2(r, m), Self[r]))
         /\ Plaintext2(r, m) =
              [c_r |-> Plaintext2(r, m).c_r, id_cred |-> Plaintext2(r, m).id_cred,
               signature |-> Plaintext2(r, m).signature]
  BY DEF Plaintext2, Plaintext_2

LEMMA Plain3Parts ==
  ASSUME NEW i \in Initiators, NEW r, NEW th_3
  PROVE  /\ Plain3(i, r, th_3).id_cred = IdCred[Self[i]]
         /\ Plain3(i, r, th_3).signature =
              sign(Self[i], m_3(PrkOf(i, r), IdCred[Self[i]], th_3, Self[i]))
  BY DEF Plain3, Plaintext_3

LEMMA SelfType ==
  ASSUME NEW s \in Sessions
  PROVE  Self[s] \in Credentials /\ IdCred[Self[s]] \in References
  BY SessionAssumption DEF References

LEMMA RolesApart ==
  /\ \A i \in Initiators : i \in Sessions /\ i \notin Responders /\ i # Garbled
  /\ \A r \in Responders : r \in Sessions /\ r \notin Initiators /\ r # Garbled
  BY SessionAssumption DEF Sessions

LEMMA SentPlaintext ==
  ASSUME Sent2Sound, NEW m \in sent[2]
  PROVE  /\ m.plaintext \in Plaintexts2 /\ m.g_y \in EphemeralKeys
         /\ m = [g_y |-> m.g_y, prk |-> m.prk, plaintext |-> m.plaintext]
         /\ m.plaintext = [c_r |-> m.plaintext.c_r, id_cred |-> m.plaintext.id_cred,
                           signature |-> m.plaintext.signature]
<1>1. PICK r \in Responders, m1 \in Messages1 : m = Message2(r, m1)
  BY DEF Sent2Sound
<1>2. m.plaintext = Plaintext2(r, m1) /\ m.g_y = r
  BY <1>1, MessageParts
<1>3. m.plaintext.c_r \in Wires /\ m.plaintext.id_cred \in References
  BY <1>2, Plaintext2Parts, WiresType, SelfType, RolesApart
<1>4. m.plaintext.signature \in {n.plaintext.signature : n \in sent[2]} \cup {Garbled}
  OBVIOUS
<1>5. m.plaintext = [c_r |-> m.plaintext.c_r, id_cred |-> m.plaintext.id_cred,
                     signature |-> m.plaintext.signature]
  BY <1>2, Plaintext2Parts
<1>6. m = [g_y |-> m.g_y, prk |-> m.prk, plaintext |-> m.plaintext]
  BY <1>1 DEF Message2, message_2
<1>7. m.g_y \in EphemeralKeys
  BY <1>2, RolesApart DEF EphemeralKeys
<1>8. m.plaintext \in Plaintexts2
  <2> DEFINE p == m.plaintext
  <2> HIDE DEF p
  <2>1. p.c_r \in Wires /\ p.id_cred \in References
        /\ p.signature \in {n.plaintext.signature : n \in sent[2]} \cup {Garbled}
        /\ p = [c_r |-> p.c_r, id_cred |-> p.id_cred, signature |-> p.signature]
    BY <1>3, <1>4, <1>5 DEF p
  <2>2. p \in Plaintexts2
    BY <2>1 DEF Plaintexts2
  <2> QED BY <2>2 DEF p
<1> QED BY <1>5, <1>6, <1>7, <1>8

LEMMA Arrives1 ==
  ASSUME Sent1Sound, NEW m \in Received1
  PROVE  m \in Messages1
<1>1. \A n \in sent[1] : n \in Messages1
  BY WiresType DEF Sent1Sound
<1>2. CASE m \in sent[1]
  BY <1>1, <1>2
<1>3. ASSUME NEW n \in sent[1], m \in Damaged1(n) PROVE m \in Messages1
  <2>1. n \in Messages1
    BY <1>1
  <2>2. CASE m \in Damaged(n, "g_x", {Garbled})
    <3>1. m = [n EXCEPT !["g_x"] = Garbled]
      BY <2>2 DEF Damaged
    <3> QED BY <2>1, <3>1 DEF Messages1
  <2>3. CASE m \in Damaged(n, "c_i", Wires)
    <3>1. PICK w \in Wires : m = [n EXCEPT !["c_i"] = w]
      BY <2>3 DEF Damaged
    <3> QED BY <2>1, <3>1 DEF Messages1
  <2> QED BY <1>3, <2>2, <2>3 DEF Damaged1
<1> QED BY <1>2, <1>3 DEF Received1

LEMMA Arrives2 ==
  ASSUME Sent2Sound, NEW m \in Received2
  PROVE  /\ m.plaintext \in Plaintexts2 /\ m.g_y \in EphemeralKeys
         /\ \E n \in sent[2] : m.prk = n.prk
<1>1. CASE m \in sent[2]
  BY <1>1, SentPlaintext
<1>2. ASSUME NEW n \in sent[2], m \in Damaged2(n)
      PROVE  m.plaintext \in Plaintexts2 /\ m.g_y \in EphemeralKeys /\ m.prk = n.prk
  <2>1. /\ n.plaintext \in Plaintexts2 /\ n.g_y \in EphemeralKeys
        /\ n = [g_y |-> n.g_y, prk |-> n.prk, plaintext |-> n.plaintext]
    BY SentPlaintext
  <2>2. CASE m \in Damaged(n, "g_y", {Garbled})
    <3>1. m = [n EXCEPT !["g_y"] = Garbled]
      BY <2>2 DEF Damaged
    <3> QED BY <2>1, <3>1 DEF EphemeralKeys
  <2>3. CASE \E p \in Damaged(n.plaintext, "c_r", Wires) \cup
                      Damaged(n.plaintext, "id_cred", References) \cup
                      Damaged(n.plaintext, "signature", {Garbled}) :
               m = [n EXCEPT !.plaintext = p]
    <3>1. PICK p \in Damaged(n.plaintext, "c_r", Wires) \cup
                      Damaged(n.plaintext, "id_cred", References) \cup
                      Damaged(n.plaintext, "signature", {Garbled}) :
               m = [n EXCEPT !.plaintext = p]
      BY <2>3
    <3>2. p \in Plaintexts2
      <4> DEFINE q == n.plaintext
      <4> HIDE DEF q
      <4>1. q \in Plaintexts2
        BY <2>1 DEF q
      <4>2. CASE p \in Damaged(q, "c_r", Wires)
        <5>1. PICK w \in Wires : p = [q EXCEPT !["c_r"] = w]
          BY <4>2 DEF Damaged
        <5> QED BY <4>1, <5>1 DEF Plaintexts2
      <4>3. CASE p \in Damaged(q, "id_cred", References)
        <5>1. PICK w \in References : p = [q EXCEPT !["id_cred"] = w]
          BY <4>3 DEF Damaged
        <5> QED BY <4>1, <5>1 DEF Plaintexts2
      <4>4. CASE p \in Damaged(q, "signature", {Garbled})
        <5>1. p = [q EXCEPT !["signature"] = Garbled]
          BY <4>4 DEF Damaged
        <5> QED BY <4>1, <5>1 DEF Plaintexts2
      <4> QED BY <3>1, <4>2, <4>3, <4>4 DEF q
    <3> QED BY <2>1, <3>1, <3>2
  <2> QED BY <1>2, <2>2, <2>3 DEF Damaged2
<1> QED BY <1>1, <1>2 DEF Received2

LEMMA Arrives3 ==
  ASSUME Sent3Sound, NEW m \in Received3
  PROVE  \E n \in sent[3] : m.plaintext = n.plaintext /\ m.k_3 \in {n.k_3, Garbled}
<1>1. CASE m \in sent[3]
  BY <1>1
<1>2. ASSUME NEW n \in sent[3], m \in Damaged3(n)
      PROVE  m.plaintext = n.plaintext /\ m.k_3 \in {n.k_3, Garbled}
  <2>1. m = [n EXCEPT !.k_3 = Garbled]
    BY <1>2 DEF Damaged3
  <2>2. \E k, p : n = [k_3 |-> k, plaintext |-> p]
    BY DEF Sent3Sound, message_3
  <2> QED BY <2>1, <2>2
<1> QED BY <1>1, <1>2 DEF Received3

-----------------------------------------------------------------------------
\* Calls that change nothing but one object, and no message 2 or 3.

LEMMA FrameInitiator ==
  ASSUME IInv, NEW i \in Initiators,
         UNCHANGED <<responder, pending_message_3, agreed>>,
         sent' = [n \in 1..3 |-> sent'[n]], sent'[2] = sent[2], sent'[3] = sent[3],
         Sent1Sound', disturbed' \subseteq Sessions,
         initiator' = [initiator EXCEPT ![i] = initiator'[i]],
         pending_message_2' = [pending_message_2 EXCEPT ![i] = pending_message_2'[i]],
         exchanged' = [exchanged EXCEPT ![i] = exchanged'[i]],
         IsInitiatorState(initiator'[i]), InitiatorOk(i)', Opened2Ok(i)'
  PROVE  IInv'
<1>1. Plaintexts2' = Plaintexts2
  BY DEF Plaintexts2
<1>2. \A j \in Initiators : j # i =>
        /\ initiator'[j] = initiator[j]
        /\ pending_message_2'[j] = pending_message_2[j]
  BY DEF IInv, Shape
<1>3. \A s \in Sessions : s # i => exchanged'[s] = exchanged[s]
  BY DEF IInv, Shape
<1>4. Shape'
  BY <1>2 DEF IInv, Shape
<1>5. ASSUME NEW j \in Initiators PROVE InitiatorOk(j)' /\ Opened2Ok(j)'
  <2>1. CASE j = i
    BY <2>1
  <2>2. CASE j # i
    <3>1. InitiatorOk(j) /\ Opened2Ok(j) /\ j \in Sessions
      BY RolesApart DEF IInv
    <3>2. InitiatorOk(j)'
      BY <1>2, <1>3, <2>2, <3>1 DEF InitiatorOk
    <3>3. Opened2Ok(j)'
      BY <1>1, <1>2, <2>2, <3>1 DEF Opened2Ok
    <3> QED BY <3>2, <3>3
  <2> QED BY <2>1, <2>2
<1>6. ASSUME NEW r \in Responders PROVE ResponderOk(r)' /\ Opened3Ok(r)'
  <2>1. ResponderOk(r) /\ Opened3Ok(r) /\ exchanged'[r] = exchanged[r]
    BY <1>3, RolesApart DEF IInv
  <2>2. ResponderOk(r)'
    BY <2>1 DEF ResponderOk
  <2>3. Opened3Ok(r)'
    BY <2>1 DEF Opened3Ok
  <2> QED BY <2>2, <2>3
<1>7. Sent2Sound'
  BY <1>3, RolesApart DEF IInv, Sent2Sound
<1>8. Sent3Sound'
  BY <1>1 DEF IInv, Sent3Sound
<1>9. InitiatorAgreed' /\ ResponderAgreed'
  BY <1>1 DEF IInv, InitiatorAgreed, ResponderAgreed
<1> QED BY <1>4, <1>5, <1>6, <1>7, <1>8, <1>9 DEF IInv

LEMMA FrameResponder ==
  ASSUME IInv, NEW r \in Responders,
         UNCHANGED <<initiator, pending_message_2, sent, agreed>>,
         disturbed' \subseteq Sessions,
         responder' = [responder EXCEPT ![r] = responder'[r]],
         pending_message_3' = [pending_message_3 EXCEPT ![r] = pending_message_3'[r]],
         exchanged' = [exchanged EXCEPT ![r] = exchanged'[r]],
         ~responder[r].eph_secret =>
           /\ exchanged'[r] = exchanged[r]
           /\ ~responder'[r].eph_secret
           /\ responder'[r].c_i = responder[r].c_i,
         IsResponderState(responder'[r]), ResponderOk(r)', Opened3Ok(r)'
  PROVE  IInv'
<1>1. Plaintexts2' = Plaintexts2
  BY DEF Plaintexts2
<1>2. \A q \in Responders : q # r =>
        /\ responder'[q] = responder[q]
        /\ pending_message_3'[q] = pending_message_3[q]
  BY DEF IInv, Shape
<1>3. \A s \in Sessions : s # r => exchanged'[s] = exchanged[s]
  BY DEF IInv, Shape
<1>4. Shape'
  BY <1>2 DEF IInv, Shape
<1>5. ASSUME NEW q \in Responders PROVE ResponderOk(q)' /\ Opened3Ok(q)'
  <2>1. CASE q = r
    BY <2>1
  <2>2. CASE q # r
    <3>1. ResponderOk(q) /\ Opened3Ok(q) /\ q \in Sessions
      BY RolesApart DEF IInv
    <3>2. ResponderOk(q)'
      BY <1>2, <1>3, <2>2, <3>1 DEF ResponderOk
    <3>3. Opened3Ok(q)'
      BY <1>2, <2>2, <3>1 DEF Opened3Ok
    <3> QED BY <3>2, <3>3
  <2> QED BY <2>1, <2>2
<1>6. ASSUME NEW i \in Initiators PROVE InitiatorOk(i)' /\ Opened2Ok(i)'
  <2>1. InitiatorOk(i) /\ Opened2Ok(i) /\ exchanged'[i] = exchanged[i]
    BY <1>3, RolesApart DEF IInv
  <2>2. InitiatorOk(i)'
    BY <2>1 DEF InitiatorOk
  <2>3. Opened2Ok(i)'
    BY <1>1, <2>1 DEF Opened2Ok
  <2> QED BY <2>2, <2>3
<1>7. Sent2Sound'
  <2>1. \A m \in sent'[2] : \E q \in Responders, m1 \in Messages1 : m = Message2(q, m1)
    BY DEF IInv, Sent2Sound
  <2>2. ASSUME NEW q \in Responders, NEW m1 \in Messages1, Message2(q, m1) \in sent'[2]
        PROVE  /\ ~responder'[q].eph_secret
               /\ exchanged'[q] = {m1.g_x}
               /\ parse_c_i(m1.c_i) # Unreadable
               /\ parse_c_i(m1.c_i) # Id[q]
               /\ responder'[q].c_i = parse_c_i(m1.c_i)
               /\ \A m2 \in Messages1 : Message2(q, m2) \in sent'[2] => m2 = m1
    <3>1. /\ ~responder[q].eph_secret
          /\ exchanged[q] = {m1.g_x}
          /\ parse_c_i(m1.c_i) # Unreadable
          /\ parse_c_i(m1.c_i) # Id[q]
          /\ responder[q].c_i = parse_c_i(m1.c_i)
          /\ \A m2 \in Messages1 : Message2(q, m2) \in sent[2] => m2 = m1
      BY <2>2 DEF IInv, Sent2Sound
    <3>2. /\ ~responder'[q].eph_secret /\ exchanged'[q] = exchanged[q]
          /\ responder'[q].c_i = responder[q].c_i
      BY <1>2, <1>3, <3>1, RolesApart
    <3> QED BY <3>1, <3>2
  <2> QED BY <2>1, <2>2 DEF Sent2Sound
<1>8. Sent1Sound' /\ Sent3Sound'
  BY <1>1 DEF IInv, Sent1Sound, Sent3Sound
<1>9. InitiatorAgreed' /\ ResponderAgreed'
  BY <1>1 DEF IInv, InitiatorAgreed, ResponderAgreed
<1> QED BY <1>4, <1>5, <1>6, <1>7, <1>8, <1>9 DEF IInv

-----------------------------------------------------------------------------
\* The calls of an initiator.

LEMMA WipedInitiator ==
  ASSUME IInv, NEW i \in Initiators, NEW lifecycle \in {"Failed", "Zeroized"},
         initiator' = [initiator EXCEPT ![i] = WipeInitiator(@, lifecycle)],
         \A x, y \in exchanged'[i] : x = y
  PROVE  /\ initiator' = [initiator EXCEPT ![i] = initiator'[i]]
         /\ IsInitiatorState(initiator'[i])
         /\ InitiatorOk(i)'
         /\ initiator'[i].lifecycle = lifecycle
<1>1. initiator'[i] = WipeInitiator(initiator[i], lifecycle)
  BY DEF IInv, Shape
<1>2. /\ initiator'[i] = [FreshInitiator EXCEPT !.lifecycle = lifecycle,
                            !.eph_secret = FALSE, !.c_r = initiator[i].c_r]
      /\ IsInitiatorState(FreshInitiator)
      /\ FreshInitiator.completed = FALSE
      /\ FreshInitiator.g_y = None
      /\ FreshInitiator.prk_3e2m = None /\ FreshInitiator.prk_4e3m = None
      /\ FreshInitiator.th_2 = None /\ FreshInitiator.th_3 = None /\ FreshInitiator.th_4 = None
  <2>1. initiator'[i] = [FreshInitiator EXCEPT !.lifecycle = lifecycle,
                           !.eph_secret = FALSE, !.c_r = initiator[i].c_r]
    BY <1>1 DEF WipeInitiator
  <2> QED BY <2>1 DEF FreshInitiator, IsInitiatorState
<1>3. initiator'[i] =
        [lifecycle |-> lifecycle, eph_secret |-> FALSE, g_y |-> None,
         c_r |-> initiator[i].c_r, prk_3e2m |-> None, prk_4e3m |-> None,
         th_2 |-> None, th_3 |-> None, th_4 |-> None, completed |-> FALSE]
  <2>1. ASSUME NEW s, IsInitiatorState(s), NEW u,
               u = [s EXCEPT !.lifecycle = lifecycle, !.eph_secret = FALSE,
                             !.c_r = initiator[i].c_r]
        PROVE  u = [lifecycle |-> lifecycle, eph_secret |-> FALSE, g_y |-> s.g_y,
                    c_r |-> initiator[i].c_r,
                    prk_3e2m |-> s.prk_3e2m, prk_4e3m |-> s.prk_4e3m,
                    th_2 |-> s.th_2, th_3 |-> s.th_3, th_4 |-> s.th_4,
                    completed |-> s.completed]
    BY <2>1 DEF IsInitiatorState
  <2> DEFINE f == FreshInitiator
  <2>2. /\ IsInitiatorState(f)
        /\ initiator'[i] = [f EXCEPT !.lifecycle = lifecycle, !.eph_secret = FALSE,
                                     !.c_r = initiator[i].c_r]
        /\ f.completed = FALSE /\ f.g_y = None
        /\ f.prk_3e2m = None /\ f.prk_4e3m = None
        /\ f.th_2 = None /\ f.th_3 = None /\ f.th_4 = None
    BY <1>2
  <2> HIDE DEF f
  <2>3. initiator'[i] =
          [lifecycle |-> lifecycle, eph_secret |-> FALSE, g_y |-> f.g_y,
           c_r |-> initiator[i].c_r,
           prk_3e2m |-> f.prk_3e2m, prk_4e3m |-> f.prk_4e3m,
           th_2 |-> f.th_2, th_3 |-> f.th_3, th_4 |-> f.th_4,
           completed |-> f.completed]
    BY <2>1, <2>2
  <2> QED BY <2>2, <2>3
<1>4. initiator[i].c_r \in ConnectionIds
  BY DEF IInv, InitiatorOk
<1>5. /\ initiator'[i].lifecycle = lifecycle
      /\ initiator'[i].eph_secret = FALSE /\ initiator'[i].completed = FALSE
      /\ initiator'[i].c_r \in ConnectionIds
      /\ initiator'[i].prk_3e2m = None /\ initiator'[i].prk_4e3m = None
      /\ initiator'[i].th_2 = None /\ initiator'[i].th_3 = None /\ initiator'[i].th_4 = None
  BY <1>3, <1>4
<1>6. lifecycle \notin {"Created", "Message1Created", "PendingMessage2", "Complete"}
  OBVIOUS
<1>7. InitiatorOk(i)'
  BY <1>5, <1>6 DEF InitiatorOk
<1>8. IsInitiatorState(initiator'[i])
  BY <1>3 DEF IsInitiatorState
<1>9. initiator' = [initiator EXCEPT ![i] = initiator'[i]]
  BY <1>1
<1> QED BY <1>5, <1>7, <1>8, <1>9

\* What a pending message says does not depend on its initiator's state.
LEMMA KeepsOpened2 ==
  ASSUME IInv, NEW i \in Initiators,
         Plaintexts2' = Plaintexts2,
         pending_message_2'[i] \in {pending_message_2[i], None}
  PROVE  Opened2Ok(i)'
  BY DEF IInv, Opened2Ok

LEMMA SentGrows ==
  ASSUME sent = [n \in 1..3 |-> sent[n]], NEW k \in 1..3, NEW m,
         sent' = [sent EXCEPT ![k] = @ \cup {m}]
  PROVE  /\ sent' = [n \in 1..3 |-> sent'[n]]
         /\ sent'[k] = sent[k] \cup {m}
         /\ \A n \in 1..3 : n # k => sent'[n] = sent[n]
  OBVIOUS

LEMMA StepCreateMessage1 ==
  ASSUME IInv, NEW i \in Initiators, CreateMessage1(i)
  PROVE  IInv'
<1> USE DEF CreateMessage1, create_message_1, Send
<1>1. /\ UNCHANGED <<responder, pending_message_3, agreed, exchanged, disturbed, pending_message_2>>
      /\ initiator[i].lifecycle = "Created"
      /\ initiator' = [initiator EXCEPT ![i].lifecycle = "Message1Created"]
      /\ sent' = [sent EXCEPT ![1] = @ \cup {message_1(i)}]
  BY DEF responderVars, historyVars
<1>2. /\ sent' = [n \in 1..3 |-> sent'[n]]
      /\ sent'[2] = sent[2] /\ sent'[3] = sent[3]
      /\ sent'[1] = sent[1] \cup {message_1(i)}
  <2>1. sent = [n \in 1..3 |-> sent[n]]
    BY DEF IInv, Shape
  <2>2. 1 \in 1..3 /\ 2 \in 1..3 /\ 3 \in 1..3 /\ 2 # 1 /\ 3 # 1
    OBVIOUS
  <2> DEFINE m1 == message_1(i)
  <2>3. sent' = [sent EXCEPT ![1] = @ \cup {m1}]
    BY <1>1
  <2> HIDE DEF m1
  <2>4. /\ sent' = [n \in 1..3 |-> sent'[n]]
        /\ sent'[1] = sent[1] \cup {m1}
        /\ sent'[2] = sent[2] /\ sent'[3] = sent[3]
    BY <2>1, <2>2, <2>3, SentGrows
  <2> QED BY <2>4 DEF m1
<1>3. initiator'[i] = [initiator[i] EXCEPT !.lifecycle = "Message1Created"]
  BY <1>1 DEF IInv, Shape
<1>4. IsInitiatorState(initiator[i]) /\ InitiatorOk(i)
  BY DEF IInv, Shape
<1>5. initiator'[i] =
        [lifecycle |-> "Message1Created", eph_secret |-> initiator[i].eph_secret,
         g_y |-> initiator[i].g_y, c_r |-> initiator[i].c_r,
         prk_3e2m |-> initiator[i].prk_3e2m, prk_4e3m |-> initiator[i].prk_4e3m,
         th_2 |-> initiator[i].th_2, th_3 |-> initiator[i].th_3,
         th_4 |-> initiator[i].th_4, completed |-> initiator[i].completed]
  BY <1>3, <1>4 DEF IsInitiatorState
<1>6. InitiatorOk(i)' /\ IsInitiatorState(initiator'[i])
  BY <1>1, <1>4, <1>5 DEF InitiatorOk, IsInitiatorState
<1>7. Sent1Sound'
  BY <1>2 DEF IInv, Sent1Sound
<1>8. Opened2Ok(i)'
  BY <1>1, <1>2, KeepsOpened2 DEF Plaintexts2
<1>9. /\ initiator' = [initiator EXCEPT ![i] = initiator'[i]]
      /\ pending_message_2' = [pending_message_2 EXCEPT ![i] = pending_message_2'[i]]
      /\ exchanged' = [exchanged EXCEPT ![i] = exchanged'[i]]
      /\ disturbed' \subseteq Sessions
  BY <1>1, <1>3 DEF IInv, Shape
<1> QED BY <1>1, <1>2, <1>6, <1>7, <1>8, <1>9, FrameInitiator

\* Calls that only destroy the object.
LEMMA StepWipeInitiator ==
  ASSUME IInv, NEW i \in Initiators, NEW lifecycle \in {"Failed", "Zeroized"},
         initiator' = [initiator EXCEPT ![i] = WipeInitiator(@, lifecycle)],
         UNCHANGED <<responderVars, pending_message_2, sent, exchanged, agreed>>,
         disturbed' \subseteq Sessions
  PROVE  IInv'
<1>1. UNCHANGED <<responder, pending_message_3>>
  BY DEF responderVars
<1>2. \A x, y \in exchanged'[i] : x = y
  BY DEF IInv, InitiatorOk
<1>3. /\ initiator' = [initiator EXCEPT ![i] = initiator'[i]]
      /\ IsInitiatorState(initiator'[i]) /\ InitiatorOk(i)'
  BY <1>2, WipedInitiator
<1>4. Opened2Ok(i)'
  BY KeepsOpened2 DEF Plaintexts2
<1>5. Sent1Sound' /\ sent' = [n \in 1..3 |-> sent'[n]]
  BY DEF IInv, Sent1Sound, Shape
<1>6. /\ pending_message_2' = [pending_message_2 EXCEPT ![i] = pending_message_2'[i]]
      /\ exchanged' = [exchanged EXCEPT ![i] = exchanged'[i]]
  BY DEF IInv, Shape
<1> QED BY <1>1, <1>3, <1>4, <1>5, <1>6, FrameInitiator

LEMMA DisturbedType ==
  ASSUME disturbed \subseteq Sessions, NEW s \in Sessions, NEW proper,
         DisturbedUnless(s, proper) \/ disturbed' = disturbed \cup {s}
  PROVE  disturbed' \subseteq Sessions
  BY DEF DisturbedUnless

LEMMA StepReceiveSuitesError ==
  ASSUME IInv, NEW i \in Initiators, ReceiveSuitesError(i)
  PROVE  IInv'
<1>1. disturbed' \subseteq Sessions
  BY RolesApart DEF ReceiveSuitesError, IInv, Shape
<1> QED BY <1>1, StepWipeInitiator DEF ReceiveSuitesError, receive_suites_error, PoisonInitiator

LEMMA StepZeroizeInitiator ==
  ASSUME IInv, NEW i \in Initiators, ZeroizeInitiator(i)
  PROVE  IInv'
  BY StepWipeInitiator DEF ZeroizeInitiator, zeroize_initiator, historyVars, IInv, Shape

LEMMA StepDropMessage2 ==
  ASSUME IInv, NEW i \in Initiators, DropMessage2(i)
  PROVE  IInv'
<1> USE DEF DropMessage2, drop_pending_message_2
<1>1. /\ UNCHANGED <<responder, pending_message_3, agreed, exchanged, sent, initiator>>
      /\ disturbed' \subseteq Sessions
  BY RolesApart DEF responderVars, IInv, Shape
<1>2. pending_message_2'[i] = None /\ InitiatorOk(i) /\ IsInitiatorState(initiator[i])
  BY DEF IInv, Shape
<1>3. InitiatorOk(i)' /\ IsInitiatorState(initiator'[i]) /\ Opened2Ok(i)'
  BY <1>1, <1>2 DEF InitiatorOk, Opened2Ok
<1>4. Sent1Sound' /\ sent' = [n \in 1..3 |-> sent'[n]]
  BY <1>1 DEF IInv, Sent1Sound, Shape
<1>5. /\ initiator' = [initiator EXCEPT ![i] = initiator'[i]]
      /\ pending_message_2' = [pending_message_2 EXCEPT ![i] = pending_message_2'[i]]
      /\ exchanged' = [exchanged EXCEPT ![i] = exchanged'[i]]
  BY <1>1, <1>2 DEF IInv, Shape
<1> QED BY <1>1, <1>3, <1>4, <1>5, FrameInitiator

\* Either the key is gone and nothing else is left, or the object holds what
\* follows from the key.
LEMMA StepBeginMessage2 ==
  ASSUME IInv, NEW i \in Initiators, NEW m \in Received2, BeginMessage2(i, m)
  PROVE  IInv'
<1> DEFINE th_2 == transcript_2(m.g_y, message_1(i))
           prk == hkdf_extract(th_2, diffie_hellman(i, m.g_y))
           c_r == parse_identifier(m.plaintext.c_r)
<1> USE DEF BeginMessage2
<1>1. /\ UNCHANGED <<responder, pending_message_3, agreed, sent>>
      /\ exchanged' = [exchanged EXCEPT ![i] = @ \cup {m.g_y}]
  BY DEF responderVars, Exchange
<1>2. disturbed' \subseteq Sessions
  BY DisturbedType, RolesApart DEF IInv, Shape
<1>3. initiator[i].lifecycle = "Message1Created" /\ initiator[i].eph_secret
  BY DEF begin_process_message_2, AwaitsMessage2
<1>4. InitiatorOk(i) /\ IsInitiatorState(initiator[i])
  BY DEF IInv, Shape
<1>5. exchanged'[i] = {m.g_y} /\ exchanged' = [exchanged EXCEPT ![i] = exchanged'[i]]
  <2>1. exchanged[i] = {}
    BY <1>3, <1>4 DEF InitiatorOk
  <2> QED BY <1>1, <2>1, RolesApart DEF IInv, Shape
<1>6. Sent1Sound' /\ sent' = [n \in 1..3 |-> sent'[n]] /\ Plaintexts2' = Plaintexts2
  BY <1>1 DEF IInv, Sent1Sound, Shape, Plaintexts2
<1>7. m.plaintext \in Plaintexts2 /\ m.g_y \in EphemeralKeys
  BY Arrives2 DEF IInv
<1>8. CASE /\ c_r # Unreadable
           /\ initiator' = [initiator EXCEPT ![i] =
                [@ EXCEPT !.lifecycle = "PendingMessage2", !.eph_secret = FALSE,
                          !.g_y = m.g_y, !.th_2 = th_2, !.prk_3e2m = prk]]
           /\ pending_message_2' = [pending_message_2 EXCEPT ![i] =
                PendingMessage2(m.plaintext, c_r.id, th_2)]
  <2>1. initiator'[i] =
          [lifecycle |-> "PendingMessage2", eph_secret |-> FALSE,
           g_y |-> m.g_y, c_r |-> initiator[i].c_r,
           prk_3e2m |-> prk, prk_4e3m |-> initiator[i].prk_4e3m,
           th_2 |-> th_2, th_3 |-> initiator[i].th_3,
           th_4 |-> initiator[i].th_4, completed |-> initiator[i].completed]
    <3> HIDE DEF th_2, prk
    <3>1. initiator'[i] =
            [initiator[i] EXCEPT !.lifecycle = "PendingMessage2", !.eph_secret = FALSE,
                          !.g_y = m.g_y, !.th_2 = th_2, !.prk_3e2m = prk]
      BY <1>8 DEF IInv, Shape
    <3> QED BY <1>4, <3>1 DEF IsInitiatorState
  <2>2. InitiatorOk(i)' /\ IsInitiatorState(initiator'[i])
    BY <1>1, <1>3, <1>4, <1>5, <1>7, <2>1 DEF InitiatorOk, IsInitiatorState
  <2>3. pending_message_2'[i] = PendingMessage2(m.plaintext, c_r.id, th_2)
    BY <1>8 DEF IInv, Shape
  <2>4. Opened2Ok(i)'
    BY <1>6, <1>7, <1>8, <2>3 DEF Opened2Ok
  <2>5. /\ initiator' = [initiator EXCEPT ![i] = initiator'[i]]
        /\ pending_message_2' = [pending_message_2 EXCEPT ![i] = pending_message_2'[i]]
    BY <1>8, <2>1, <2>3 DEF IInv, Shape
  <2> QED BY <1>1, <1>2, <1>5, <1>6, <2>2, <2>4, <2>5, FrameInitiator
<1>9. CASE PoisonInitiator(i) /\ UNCHANGED pending_message_2
  <2>1. /\ initiator' = [initiator EXCEPT ![i] = initiator'[i]]
        /\ IsInitiatorState(initiator'[i]) /\ InitiatorOk(i)'
    BY <1>5, <1>9, WipedInitiator DEF PoisonInitiator
  <2>2. Opened2Ok(i)'
    BY <1>6, <1>9, KeepsOpened2
  <2>3. pending_message_2' = [pending_message_2 EXCEPT ![i] = pending_message_2'[i]]
    BY <1>9 DEF IInv, Shape
  <2> QED BY <1>1, <1>2, <1>5, <1>6, <2>1, <2>2, <2>3, FrameInitiator
<1> QED BY <1>8, <1>9 DEF begin_process_message_2

\* What a signature over message 2 that verifies tells the initiator: who sent
\* it, for which message 1, and under which identifier.
LEMMA Verified2Says ==
  ASSUME IInv, AtomsAreNoTerms, NEW i \in Initiators, NEW j \in Initiators,
         NEW p, NEW peer \in Credentials,
         p = pending_message_2[j], p # None,
         CanFinishMessage2(i, p, peer), Verified2(i, p, peer)
  PROVE  \E r \in Responders, plaintext \in Plaintexts2 :
           /\ Message2(r, message_1(i)) \in sent[2]
           /\ parse_identifier(plaintext.c_r) # Unreadable
           /\ parse_identifier(plaintext.c_r).id = Id[r]
           /\ plaintext.id_cred = IdCred[Self[r]]
           /\ plaintext.signature = Plaintext2(r, message_1(i)).signature
           /\ p.c_r = Id[r] /\ p.plaintext = plaintext /\ peer = Self[r]
           /\ initiator[i].g_y = r
           /\ initiator[i].th_2 = Th2(i, r)
           /\ initiator[i].prk_3e2m = PrkOf(i, r)
<1> DEFINE s == initiator[i]
<1>1. s.lifecycle = "PendingMessage2" /\ p.id_cred = IdCred[peer]
  BY DEF CanFinishMessage2
<1>2. /\ s.th_2 = transcript_2(s.g_y, message_1(i))
      /\ s.prk_3e2m = hkdf_extract(s.th_2, diffie_hellman(i, s.g_y))
  BY <1>1 DEF IInv, InitiatorOk
<1>3. PICK plaintext \in Plaintexts2, g_y \in EphemeralKeys :
        /\ parse_identifier(plaintext.c_r) # Unreadable
        /\ p = PendingMessage2(plaintext, parse_identifier(plaintext.c_r).id,
                               transcript_2(g_y, message_1(j)))
  BY DEF IInv, Opened2Ok
<1>4. /\ p.c_r = parse_identifier(plaintext.c_r).id
      /\ p.plaintext = plaintext /\ p.id_cred = plaintext.id_cred
  BY <1>3 DEF PendingMessage2
<1>5. plaintext.signature = sign(peer, m_2(s.prk_3e2m, p.c_r, p.id_cred, s.th_2, peer))
  BY <1>4 DEF Verified2, verify
<1>6. plaintext.c_r \in Wires
      /\ plaintext.signature \in {m.plaintext.signature : m \in sent[2]} \cup {Garbled}
  BY DEF Plaintexts2
<1>7. plaintext.signature # Garbled
  BY <1>5 DEF AtomsAreNoTerms
<1>8. PICK m \in sent[2] : plaintext.signature = m.plaintext.signature
  BY <1>6, <1>7
<1>9. PICK r \in Responders, m1 \in Messages1 : m = Message2(r, m1)
  BY DEF IInv, Sent2Sound
<1> DEFINE signed == m_2(Prk(r, m1), Id[r], IdCred[Self[r]], transcript_2(r, m1), Self[r])
           verified == m_2(s.prk_3e2m, p.c_r, p.id_cred, s.th_2, peer)
<1>10. plaintext.signature = sign(Self[r], signed)
  BY <1>8, <1>9, MessageParts, Plaintext2Parts
<1>11. peer = Self[r] /\ verified = signed
  <2> HIDE DEF signed, verified
  <2>1. sign(peer, verified) = sign(Self[r], signed)
    BY <1>5, <1>10 DEF verified
  <2> QED BY <2>1, SignatureParts
<1>12. /\ s.prk_3e2m = Prk(r, m1) /\ s.th_2 = transcript_2(r, m1)
       /\ encode_identifier(p.c_r) = encode_identifier(Id[r])
  BY <1>11, Signed2Apart
<1>13. s.g_y = r /\ message_1(i) = m1
  <2> DEFINE g == s.g_y
             msg1 == message_1(i)
  <2>1. transcript_2(g, msg1) = transcript_2(r, m1)
    BY <1>2, <1>12
  <2> HIDE DEF g, msg1
  <2>2. g = r /\ msg1 = m1
    BY <2>1, HashParts
  <2> QED BY <2>2 DEF g, msg1
<1>14. p.c_r = Id[r]
  <2>1. p.c_r \in ConnectionIds
    BY <1>3, <1>4, <1>6, WiresType, ParsedType
  <2>2. Id[r] \in ConnectionIds
    BY WiresType, RolesApart
  <2> QED BY <1>12, <2>1, <2>2, EncodeApart
<1>15. s.th_2 = Th2(i, r) /\ s.prk_3e2m = PrkOf(i, r)
  BY <1>2, <1>13, Zenon DEF Th2, PrkOf
<1>16. plaintext.signature = Plaintext2(r, message_1(i)).signature
  BY <1>8, <1>9, <1>13, MessageParts
<1>17. plaintext.id_cred = IdCred[Self[r]]
  BY <1>1, <1>4, <1>11
<1> QED BY <1>3, <1>4, <1>9, <1>11, <1>13, <1>14, <1>15, <1>16, <1>17

\* A completed initiator records what it holds, and sends what was signed with it.
LEMMA StepVerified2 ==
  ASSUME IInv, AtomsAreNoTerms, NEW i \in Initiators, NEW j \in Initiators,
         NEW p, NEW peer \in Credentials,
         p = pending_message_2[j], p # None,
         FinishMessage2(i, p, peer), Verified2(i, p, peer)
  PROVE  IInv'
<1>1. /\ CanFinishMessage2(i, p, peer)
      /\ UNCHANGED <<responder, pending_message_2, pending_message_3, exchanged>>
  BY DEF FinishMessage2, finish_process_message_2, responderVars
<1>2. PICK r \in Responders, plaintext \in Plaintexts2 :
           /\ Message2(r, message_1(i)) \in sent[2]
           /\ parse_identifier(plaintext.c_r) # Unreadable
           /\ parse_identifier(plaintext.c_r).id = Id[r]
           /\ plaintext.id_cred = IdCred[Self[r]]
           /\ plaintext.signature = Plaintext2(r, message_1(i)).signature
           /\ p.c_r = Id[r] /\ p.plaintext = plaintext /\ peer = Self[r]
           /\ initiator[i].g_y = r
           /\ initiator[i].th_2 = Th2(i, r)
           /\ initiator[i].prk_3e2m = PrkOf(i, r)
  BY <1>1, Verified2Says
<1> DEFINE prk == PrkOf(i, r)
           th_2 == Th2(i, r)
           th_3 == Th3Read(i, r, plaintext)
           plain_3 == Plain3(i, r, th_3)
           th_4 == Th4Of(i, r, th_3)
           holds == InitiatorHolds(i, r, th_3)
           m3 == message_3(prk, th_3, plain_3)
<1>3. Th3(i, p, peer) = th_3
  BY <1>2 DEF Th3, Th3Read
<1>4. Plaintext3(i, th_3) = plain_3
  <2> HIDE DEF th_3
  <2> QED BY <1>2 DEF Plaintext3, Plain3
<1>5. Message3(i, p, peer) = m3
  <2> HIDE DEF th_3, plain_3
  <2> QED BY <1>2, <1>3, <1>4, Zenon DEF Message3
<1>6. initiator' = [initiator EXCEPT ![i] =
        [@ EXCEPT !.lifecycle = "Complete", !.completed = TRUE, !.c_r = Id[r],
                  !.th_3 = th_3, !.prk_4e3m = prk, !.th_4 = th_4]]
  <2> HIDE DEF prk
  <2>1. th_4 = transcript_4(th_3, plain_3, Self[i])
    BY DEF Th4Of
  <2> HIDE DEF th_3, plain_3, th_4
  <2> QED BY <1>2, <1>3, <1>4, <2>1
          DEF FinishMessage2, finish_process_message_2, prk
<1>7. initiator[i].lifecycle = "PendingMessage2" /\ InitiatorOk(i)
  BY <1>1 DEF CanFinishMessage2, IInv
<1>8. initiator'[i] =
        [lifecycle |-> "Complete", eph_secret |-> initiator[i].eph_secret,
         g_y |-> r, c_r |-> Id[r],
         prk_3e2m |-> prk, prk_4e3m |-> prk,
         th_2 |-> th_2, th_3 |-> th_3,
         th_4 |-> th_4, completed |-> TRUE]
  <2> HIDE DEF prk, th_2, th_3, th_4
  <2>1. initiator'[i] =
          [initiator[i] EXCEPT !.lifecycle = "Complete", !.completed = TRUE, !.c_r = Id[r],
                  !.th_3 = th_3, !.prk_4e3m = prk, !.th_4 = th_4]
    BY <1>6 DEF IInv, Shape
  <2>2. IsInitiatorState(initiator[i])
    BY DEF IInv, Shape
  <2>3. /\ initiator[i].g_y = r /\ initiator[i].th_2 = th_2
        /\ initiator[i].prk_3e2m = prk
    BY <1>2 DEF prk, th_2
  <2> QED BY <2>1, <2>2, <2>3 DEF IsInitiatorState
<1> DEFINE context == export_context(prk, th_4, Id[r], Id[i])
<1>9. export_oscore_initiator(i)' = context
  <2>1. prk # None
    BY DEF PrkOf, AtomsAreNoTerms
  <2> HIDE DEF prk, th_2, th_3, th_4
  <2>2. /\ initiator'[i].completed = TRUE /\ initiator'[i].prk_4e3m = prk
        /\ initiator'[i].th_4 = th_4 /\ initiator'[i].c_r = Id[r]
    BY <1>8
  <2> QED BY <2>1, <2>2 DEF export_oscore_initiator
<1>10. agreed' = [agreed EXCEPT ![i] = holds]
  <2>1. context # None
    BY DEF AtomsAreNoTerms
  <2>2. holds = [peer |-> r, credential |-> Self[r], context |-> context]
    BY DEF InitiatorHolds
  <2> HIDE DEF context, holds
  <2> QED BY <1>2, <1>9, <2>1, <2>2 DEF FinishMessage2, Agree
<1>11. /\ sent' = [n \in 1..3 |-> sent'[n]]
       /\ sent'[1] = sent[1] /\ sent'[2] = sent[2] /\ sent'[3] = sent[3] \cup {m3}
  <2>1. sent = [n \in 1..3 |-> sent[n]] /\ sent' = [sent EXCEPT ![3] = @ \cup {m3}]
    <3> HIDE DEF m3
    <3> QED BY <1>5 DEF IInv, Shape, FinishMessage2, Send
  <2>2. 1 \in 1..3 /\ 2 \in 1..3 /\ 3 \in 1..3 /\ 1 # 3 /\ 2 # 3
    OBVIOUS
  <2> HIDE DEF m3
  <2> QED BY <2>1, <2>2, SentGrows
<1>12. /\ agreed = [s \in Sessions |-> agreed[s]] /\ agreed' = [s \in Sessions |-> agreed'[s]]
       /\ agreed'[i] = holds /\ i \in Sessions /\ i \notin Responders
       /\ \A s \in Sessions : s # i => agreed'[s] = agreed[s]
  <2> HIDE DEF holds
  <2> QED BY <1>10, RolesApart DEF IInv, Shape
<1>13. agreed[i] = None /\ holds # None
  <2>1. agreed[i] = None
    BY <1>7 DEF InitiatorOk
  <2> QED BY <2>1 DEF InitiatorHolds, AtomsAreNoTerms
<1>14. Plaintexts2' = Plaintexts2
  BY <1>11 DEF Plaintexts2
<1> HIDE DEF holds
<1>15. ASSUME NEW k \in Initiators PROVE agreed[k] # None => agreed'[k] = agreed[k]
  BY <1>12, <1>13, RolesApart
<1>16. \A k \in Initiators : k # i => initiator'[k] = initiator[k]
  <2> HIDE DEF prk, th_3, th_4
  <2> QED BY <1>6 DEF IInv, Shape
<1>17. Shape'
  <2>1. disturbed' \subseteq Sessions
    BY DisturbedType, RolesApart DEF FinishMessage2, IInv, Shape
  <2>2. IsInitiatorState(initiator'[i])
    <3> HIDE DEF prk, th_2, th_3, th_4
    <3> QED BY <1>8 DEF IsInitiatorState
  <2>3. \A k \in Initiators : IsInitiatorState(initiator'[k])
    BY <1>16, <2>2 DEF IInv, Shape
  <2>4. initiator' = [k \in Initiators |-> initiator'[k]]
    <3> HIDE DEF prk, th_3, th_4
    <3> QED BY <1>6 DEF IInv, Shape
  <2> QED BY <1>1, <1>11, <1>12, <2>1, <2>3, <2>4 DEF IInv, Shape
<1>18. InitiatorOk(i)'
  <2>1. holds.context = context /\ th_4 # None
    BY DEF holds, InitiatorHolds, AtomsAreNoTerms, Th4Of
  <2>2. th_2 = transcript_2(r, message_1(i)) /\ prk = hkdf_extract(th_2, diffie_hellman(i, r))
    BY DEF Th2, PrkOf
  <2>3. r \in EphemeralKeys /\ Id[r] \in ConnectionIds
    BY RolesApart, WiresType DEF EphemeralKeys
  <2> HIDE DEF prk, th_2, th_3, th_4
  <2>4. /\ initiator'[i].lifecycle = "Complete"
        /\ initiator'[i].eph_secret = initiator[i].eph_secret
        /\ initiator'[i].completed = TRUE
        /\ initiator'[i].g_y = r /\ initiator'[i].c_r = Id[r]
        /\ initiator'[i].prk_3e2m = prk /\ initiator'[i].prk_4e3m = prk
        /\ initiator'[i].th_2 = th_2 /\ initiator'[i].th_4 = th_4
    BY <1>8
  <2>5. /\ initiator[i].eph_secret \in BOOLEAN /\ ~initiator[i].eph_secret
        /\ \A x, y \in exchanged'[i] : x = y
    BY <1>1, <1>7 DEF InitiatorOk
  <2> QED BY <1>12, <1>13, <2>1, <2>2, <2>3, <2>4, <2>5 DEF InitiatorOk
<1>19. ASSUME NEW k \in Initiators PROVE InitiatorOk(k)' /\ Opened2Ok(k)'
  <2>1. InitiatorOk(k) /\ Opened2Ok(k)
    BY DEF IInv
  <2>2. Opened2Ok(k)'
    BY <1>1, <1>14, <2>1 DEF Opened2Ok
  <2>3. CASE k = i
    BY <1>18, <2>2, <2>3
  <2>4. CASE k # i
    <3>1. agreed'[k] = agreed[k]
      BY <1>12, <2>4, RolesApart
    <3> QED BY <1>1, <1>16, <2>1, <2>2, <2>4, <3>1 DEF InitiatorOk
  <2> QED BY <2>3, <2>4
<1>20. ASSUME NEW q \in Responders PROVE ResponderOk(q)' /\ Opened3Ok(q)'
  <2>1. agreed'[q] = agreed[q]
    BY <1>12, RolesApart
  <2>2. ResponderOk(q) /\ Opened3Ok(q)
    BY DEF IInv
  <2>3. ResponderOk(q)'
    BY <1>1, <1>11, <2>1, <2>2 DEF ResponderOk
  <2>4. Opened3Ok(q)'
    <3> HIDE DEF m3
    <3> QED BY <1>1, <1>11, <2>2 DEF Opened3Ok
  <2> QED BY <2>3, <2>4
<1>21. Sent1Sound' /\ Sent2Sound'
  BY <1>1, <1>11 DEF IInv, Sent1Sound, Sent2Sound
<1>22. Sent3Sound'
  <2> SUFFICES ASSUME NEW m \in sent'[3]
               PROVE  \E k \in Initiators, q \in Responders, plain \in Plaintexts2 :
                        /\ m = message_3(PrkOf(k, q), Th3Read(k, q, plain),
                                         Plain3(k, q, Th3Read(k, q, plain)))
                        /\ agreed'[k] = InitiatorHolds(k, q, Th3Read(k, q, plain))
    BY <1>14, ZenonT(40) DEF Sent3Sound
  <2>1. CASE m \in sent[3]
    <3>1. PICK k \in Initiators, q \in Responders, plain \in Plaintexts2 :
                        /\ m = message_3(PrkOf(k, q), Th3Read(k, q, plain),
                                         Plain3(k, q, Th3Read(k, q, plain)))
                        /\ agreed[k] = InitiatorHolds(k, q, Th3Read(k, q, plain))
      BY <2>1 DEF IInv, Sent3Sound
    <3>2. agreed[k] # None
      BY <3>1 DEF InitiatorHolds, AtomsAreNoTerms
    <3> QED BY <1>15, <3>1, <3>2
  <2>2. CASE m = m3
    <3>1. agreed'[i] = InitiatorHolds(i, r, Th3Read(i, r, plaintext))
      BY <1>12 DEF holds
    <3> QED BY <2>2, <3>1
  <2>3. m \in sent[3] \/ m = m3
    <3> HIDE DEF m3
    <3> QED BY <1>11
  <2> QED BY <2>1, <2>2, <2>3
<1>23. InitiatorAgreed'
  <2> SUFFICES ASSUME NEW k \in Initiators, agreed'[k] # None
               PROVE  \E q \in Responders, plain \in Plaintexts2 :
                        /\ Message2(q, message_1(k)) \in sent[2]
                        /\ parse_identifier(plain.c_r) # Unreadable
                        /\ parse_identifier(plain.c_r).id = Id[q]
                        /\ plain.id_cred = IdCred[Self[q]]
                        /\ plain.signature = Plaintext2(q, message_1(k)).signature
                        /\ agreed'[k] = InitiatorHolds(k, q, Th3Read(k, q, plain))
    BY <1>11, <1>14, Zenon DEF InitiatorAgreed
  <2>1. CASE k = i
    BY <1>2, <1>12, <2>1 DEF holds
  <2>2. CASE k # i
    <3>1. agreed'[k] = agreed[k]
      BY <1>12, <2>2, RolesApart
    <3> QED BY <3>1 DEF IInv, InitiatorAgreed
  <2> QED BY <2>1, <2>2
<1>24. ResponderAgreed'
  <2> SUFFICES ASSUME NEW q \in Responders, agreed'[q] # None
               PROVE  \E k \in Initiators :
                        /\ Message2(q, message_1(k)) \in sent[2]
                        /\ agreed'[k] = InitiatorHolds(k, q, Th3Made(q, message_1(k)))
                        /\ agreed'[q] = ResponderHolds(q, k, Th3Made(q, message_1(k)))
    BY <1>11, Zenon DEF ResponderAgreed
  <2>1. agreed'[q] = agreed[q]
    BY <1>12, RolesApart
  <2>2. PICK k \in Initiators :
          /\ Message2(q, message_1(k)) \in sent[2]
          /\ agreed[k] = InitiatorHolds(k, q, Th3Made(q, message_1(k)))
          /\ agreed[q] = ResponderHolds(q, k, Th3Made(q, message_1(k)))
    BY <2>1 DEF IInv, ResponderAgreed
  <2>3. agreed[k] # None
    BY <2>2 DEF InitiatorHolds, AtomsAreNoTerms
  <2> QED BY <1>15, <2>1, <2>2, <2>3
<1> QED BY <1>17, <1>19, <1>20, <1>21, <1>22, <1>23, <1>24 DEF IInv

LEMMA StepFinishMessage2 ==
  ASSUME IInv, AtomsAreNoTerms, NEW i \in Initiators, NEW j \in Initiators,
         NEW peer \in Credentials,
         pending_message_2[j] # None, FinishMessage2(i, pending_message_2[j], peer)
  PROVE  IInv'
<1>1. PICK p : p = pending_message_2[j]
  OBVIOUS
<1>2. FinishMessage2(i, p, peer) /\ p # None
  BY <1>1
<1>3. CASE Verified2(i, p, peer)
  BY <1>1, <1>2, <1>3, StepVerified2
<1>4. CASE ~Verified2(i, p, peer)
  <2>1. /\ initiator' = [initiator EXCEPT ![i] = WipeInitiator(@, "Failed")]
        /\ UNCHANGED <<responderVars, pending_message_2, sent, exchanged>>
        /\ Agree(i, initiator[i].g_y, peer, export_oscore_initiator(i)')
    BY <1>2, <1>4 DEF FinishMessage2, finish_process_message_2, PoisonInitiator
  <2>2. disturbed' \subseteq Sessions
    BY <1>2, DisturbedType, RolesApart DEF FinishMessage2, IInv, Shape
  <2>3. \A x, y \in exchanged'[i] : x = y
    BY <2>1 DEF IInv, InitiatorOk
  <2>4. initiator'[i].lifecycle = "Failed" /\ InitiatorOk(i)'
    BY <2>1, <2>3, WipedInitiator
  <2>5. ~initiator'[i].completed
    BY <2>4 DEF InitiatorOk
  <2>6. UNCHANGED agreed
    BY <2>1, <2>5 DEF Agree, export_oscore_initiator
  <2> QED BY <2>1, <2>2, <2>6, StepWipeInitiator
<1> QED BY <1>3, <1>4

-----------------------------------------------------------------------------
\* The calls of a responder.

\* `c_i` is what the object holds as C_I when it is wiped.
LEMMA WipedResponder ==
  ASSUME IInv, NEW r \in Responders, NEW lifecycle \in {"Failed", "Zeroized"},
         NEW c_i \in ConnectionIds,
         responder'[r] = [FreshResponder EXCEPT !.lifecycle = lifecycle,
                                                !.eph_secret = FALSE, !.c_i = c_i],
         \A x, y \in exchanged'[r] : x = y
  PROVE  /\ IsResponderState(responder'[r])
         /\ ResponderOk(r)'
         /\ ~responder'[r].eph_secret
         /\ ~responder'[r].completed
         /\ responder'[r].c_i = c_i
<1> DEFINE f == FreshResponder
<1>1. /\ IsResponderState(f)
      /\ responder'[r] = [f EXCEPT !.lifecycle = lifecycle, !.eph_secret = FALSE, !.c_i = c_i]
      /\ f.completed = FALSE /\ f.g_x = None
      /\ f.prk_3e2m = None /\ f.prk_4e3m = None
      /\ f.th_3 = None /\ f.th_4 = None
  BY DEF FreshResponder, IsResponderState
<1> HIDE DEF f
<1>2. responder'[r] =
        [lifecycle |-> lifecycle, eph_secret |-> FALSE, g_x |-> f.g_x, c_i |-> c_i,
         prk_3e2m |-> f.prk_3e2m, prk_4e3m |-> f.prk_4e3m,
         th_3 |-> f.th_3, th_4 |-> f.th_4, completed |-> f.completed]
  BY <1>1 DEF IsResponderState
<1>3. /\ responder'[r].lifecycle = lifecycle
      /\ responder'[r].eph_secret = FALSE /\ responder'[r].completed = FALSE
      /\ responder'[r].c_i = c_i
      /\ responder'[r].prk_3e2m = None /\ responder'[r].prk_4e3m = None
      /\ responder'[r].th_3 = None /\ responder'[r].th_4 = None
  BY <1>1, <1>2
<1>4. lifecycle \notin {"Created", "AwaitingMessage3", "PendingMessage3", "Complete"}
  OBVIOUS
<1>5. ResponderOk(r)'
  BY <1>3, <1>4 DEF ResponderOk
<1>6. IsResponderState(responder'[r])
  BY <1>2 DEF IsResponderState
<1> QED BY <1>3, <1>5, <1>6

LEMMA StepWipeResponder ==
  ASSUME IInv, NEW r \in Responders, NEW lifecycle \in {"Failed", "Zeroized"},
         responder' = [responder EXCEPT ![r] = WipeResponder(@, lifecycle)],
         UNCHANGED <<initiatorVars, pending_message_3, sent, exchanged, agreed>>,
         disturbed' \subseteq Sessions
  PROVE  IInv'
<1>1. UNCHANGED <<initiator, pending_message_2>>
  BY DEF initiatorVars
<1>2. \A x, y \in exchanged'[r] : x = y
  BY DEF IInv, ResponderOk
<1>3. responder'[r] = [FreshResponder EXCEPT !.lifecycle = lifecycle,
                         !.eph_secret = FALSE, !.c_i = responder[r].c_i]
  <2>1. responder'[r] = WipeResponder(responder[r], lifecycle)
    BY DEF IInv, Shape
  <2> QED BY <2>1 DEF WipeResponder
<1>4. responder[r].c_i \in ConnectionIds
  BY DEF IInv, ResponderOk
<1>5. /\ IsResponderState(responder'[r]) /\ ResponderOk(r)'
      /\ ~responder'[r].eph_secret /\ responder'[r].c_i = responder[r].c_i
  BY <1>2, <1>3, <1>4, WipedResponder, ZenonT(40)
<1>6. Opened3Ok(r)'
  BY DEF IInv, Opened3Ok
<1>7. /\ responder' = [responder EXCEPT ![r] = responder'[r]]
      /\ pending_message_3' = [pending_message_3 EXCEPT ![r] = pending_message_3'[r]]
      /\ exchanged' = [exchanged EXCEPT ![r] = exchanged'[r]]
  <2>1. responder' = [responder EXCEPT ![r] = responder'[r]]
    BY <1>3 DEF IInv, Shape
  <2> QED BY <2>1 DEF IInv, Shape
<1> QED BY <1>1, <1>5, <1>6, <1>7, FrameResponder

LEMMA StepZeroizeResponder ==
  ASSUME IInv, NEW r \in Responders, ZeroizeResponder(r)
  PROVE  IInv'
  BY StepWipeResponder DEF ZeroizeResponder, zeroize_responder, historyVars, IInv, Shape

LEMMA StepDropMessage3 ==
  ASSUME IInv, NEW r \in Responders, DropMessage3(r)
  PROVE  IInv'
<1> USE DEF DropMessage3, drop_pending_message_3
<1>1. /\ UNCHANGED <<initiator, pending_message_2, agreed, exchanged, sent, responder>>
      /\ disturbed' \subseteq Sessions
  BY RolesApart DEF initiatorVars, IInv, Shape
<1>2. pending_message_3'[r] = None /\ ResponderOk(r) /\ IsResponderState(responder[r])
  BY DEF IInv, Shape
<1>3. ResponderOk(r)' /\ IsResponderState(responder'[r]) /\ Opened3Ok(r)'
  BY <1>1, <1>2 DEF ResponderOk, Opened3Ok
<1>4. /\ responder' = [responder EXCEPT ![r] = responder'[r]]
      /\ pending_message_3' = [pending_message_3 EXCEPT ![r] = pending_message_3'[r]]
      /\ exchanged' = [exchanged EXCEPT ![r] = exchanged'[r]]
  BY <1>1, <1>2 DEF IInv, Shape
<1> QED BY <1>1, <1>3, <1>4, FrameResponder

LEMMA StepRefuseMessage1 ==
  ASSUME IInv, NEW r \in Responders, NEW m \in Received1, RefuseMessage1(r, m)
  PROVE  IInv'
<1>1. /\ UNCHANGED <<initiator, pending_message_2, pending_message_3, sent, agreed>>
      /\ disturbed' \subseteq Sessions
  BY RolesApart DEF RefuseMessage1, refuse_own_identifier, refuse_low_order, initiatorVars,
                    IInv, Shape
<1>2. responder[r].eph_secret /\ parse_c_i(m.c_i) # Unreadable
  BY DEF RefuseMessage1, refuse_own_identifier, refuse_low_order, CanProcessMessage1
<1>3. parse_c_i(m.c_i) \in ConnectionIds
  <2>1. m.c_i \in Seq(Byte)
    BY Arrives1, WiresType DEF IInv, Messages1
  <2> QED BY <1>2, <2>1, ParsedC_IType
<1>4. exchanged[r] = {} /\ responder[r].c_i \in ConnectionIds
  BY <1>2 DEF IInv, ResponderOk
<1>5. /\ exchanged' = [exchanged EXCEPT ![r] = exchanged'[r]]
      /\ \A x, y \in exchanged'[r] : x = y
  <2>1. CASE UNCHANGED exchanged
    BY <1>4, <2>1 DEF IInv, Shape
  <2>2. CASE Exchange(r, m.g_x)
    <3>1. exchanged' = [exchanged EXCEPT ![r] = @ \cup {m.g_x}]
      BY <2>2 DEF Exchange
    <3> QED BY <1>4, <3>1, RolesApart DEF IInv, Shape
  <2> QED BY <2>1, <2>2 DEF RefuseMessage1
<1>6. \E c_i \in ConnectionIds :
         responder' = [responder EXCEPT ![r] =
           [FreshResponder EXCEPT !.lifecycle = "Failed", !.eph_secret = FALSE, !.c_i = c_i]]
  <2>1. CASE refuse_own_identifier(r, m)
    <3>1. responder' = [responder EXCEPT ![r] =
            [FreshResponder EXCEPT !.lifecycle = "Failed", !.eph_secret = FALSE,
                                   !.c_i = responder[r].c_i]]
      BY <2>1 DEF refuse_own_identifier, PoisonResponder, WipeResponder
    <3> QED BY <1>4, <3>1
  <2>2. CASE refuse_low_order(r, m)
    <3> DEFINE c_i == parse_c_i(m.c_i)
    <3>1. responder' = [responder EXCEPT ![r] =
            WipeResponder([responder[r] EXCEPT !.c_i = c_i], "Failed")]
      BY <2>2 DEF refuse_low_order
    <3> HIDE DEF c_i
    <3>2. [responder[r] EXCEPT !.c_i = c_i].c_i = c_i
      BY DEF IInv, Shape, IsResponderState
    <3>3. responder' = [responder EXCEPT ![r] =
            [FreshResponder EXCEPT !.lifecycle = "Failed", !.eph_secret = FALSE,
                                   !.c_i = c_i]]
      BY <3>1, <3>2, Zenon DEF WipeResponder
    <3>4. c_i \in ConnectionIds
      BY <1>3 DEF c_i
    <3> QED BY <3>3, <3>4
  <2> QED BY <2>1, <2>2 DEF RefuseMessage1
<1>7. PICK c_i \in ConnectionIds :
         responder' = [responder EXCEPT ![r] =
           [FreshResponder EXCEPT !.lifecycle = "Failed", !.eph_secret = FALSE, !.c_i = c_i]]
  BY <1>6
<1>8. /\ responder'[r] =
           [FreshResponder EXCEPT !.lifecycle = "Failed", !.eph_secret = FALSE, !.c_i = c_i]
      /\ responder' = [responder EXCEPT ![r] = responder'[r]]
  BY <1>7 DEF IInv, Shape
<1>9. IsResponderState(responder'[r]) /\ ResponderOk(r)'
  BY <1>5, <1>8, WipedResponder
<1>10. pending_message_3' = [pending_message_3 EXCEPT ![r] = pending_message_3'[r]]
  BY <1>1 DEF IInv, Shape
<1>11. Opened3Ok(r)'
  BY <1>1 DEF IInv, Opened3Ok
<1> QED BY <1>1, <1>2, <1>5, <1>8, <1>9, <1>10, <1>11, FrameResponder

\* A message 2 says what it was made from.
LEMMA Message2Apart ==
  ASSUME NEW r, NEW m, NEW q, NEW m1, Message2(r, m) = Message2(q, m1)
  PROVE  r = q /\ m = m1
<1>1. r = q /\ Prk(r, m) = Prk(q, m1)
  BY MessageParts
<1>2. transcript_2(r, m) = transcript_2(q, m1)
  BY <1>1, MessageParts
<1> QED BY <1>1, <1>2, HashParts

\* A responder answers one message 1, with the only use of its key.
LEMMA StepProcessMessage1 ==
  ASSUME IInv, NEW r \in Responders, NEW m \in Received1, ProcessMessage1(r, m)
  PROVE  IInv'
<1> DEFINE m2 == Message2(r, m)
           c_i == parse_c_i(m.c_i)
           prk == Prk(r, m)
           th_3 == Th3Made(r, m)
<1>1. /\ UNCHANGED <<initiator, pending_message_2, pending_message_3, agreed>>
      /\ exchanged' = [exchanged EXCEPT ![r] = @ \cup {m.g_x}]
      /\ sent' = [sent EXCEPT ![2] = @ \cup {m2}]
  BY DEF ProcessMessage1, process_message_1, initiatorVars, Exchange, Send
<1>2. /\ responder[r].lifecycle = "Created" /\ responder[r].eph_secret
      /\ c_i # Unreadable /\ c_i # Id[r]
  BY DEF ProcessMessage1, process_message_1, CanProcessMessage1
<1>3. m \in Messages1
  BY Arrives1 DEF IInv
<1>4. c_i \in ConnectionIds
  <2>1. m.c_i \in Seq(Byte)
    BY <1>3, WiresType DEF Messages1
  <2> QED BY <1>2, <2>1, ParsedC_IType
<1>5. ResponderOk(r) /\ IsResponderState(responder[r]) /\ r \in Sessions
  BY RolesApart DEF IInv, Shape
<1>6. responder' = [responder EXCEPT ![r] =
        [@ EXCEPT !.lifecycle = "AwaitingMessage3", !.eph_secret = FALSE,
                  !.g_x = m.g_x, !.c_i = c_i, !.prk_3e2m = prk, !.th_3 = th_3]]
  BY DEF ProcessMessage1, process_message_1, Th3Made
<1>7. responder'[r] =
        [lifecycle |-> "AwaitingMessage3", eph_secret |-> FALSE, g_x |-> m.g_x,
         c_i |-> c_i, prk_3e2m |-> prk, prk_4e3m |-> responder[r].prk_4e3m,
         th_3 |-> th_3, th_4 |-> responder[r].th_4,
         completed |-> responder[r].completed]
  <2> HIDE DEF c_i, prk, th_3
  <2>1. responder'[r] =
          [responder[r] EXCEPT !.lifecycle = "AwaitingMessage3", !.eph_secret = FALSE,
                  !.g_x = m.g_x, !.c_i = c_i, !.prk_3e2m = prk, !.th_3 = th_3]
    BY <1>6 DEF IInv, Shape
  <2> QED BY <1>5, <2>1 DEF IsResponderState
<1>8. /\ \A q \in Responders : q # r => responder'[q] = responder[q]
      /\ responder' = [q \in Responders |-> responder'[q]]
  <2> HIDE DEF c_i, prk, th_3
  <2> QED BY <1>6 DEF IInv, Shape
<1>9. /\ sent' = [n \in 1..3 |-> sent'[n]]
      /\ sent'[1] = sent[1] /\ sent'[2] = sent[2] \cup {m2} /\ sent'[3] = sent[3]
  <2>1. sent = [n \in 1..3 |-> sent[n]]
    BY DEF IInv, Shape
  <2>2. 1 \in 1..3 /\ 2 \in 1..3 /\ 3 \in 1..3 /\ 1 # 2 /\ 3 # 2
    OBVIOUS
  <2> HIDE DEF m2
  <2> QED BY <1>1, <2>1, <2>2, SentGrows
<1>10. /\ exchanged[r] = {} /\ exchanged'[r] = {m.g_x}
       /\ exchanged' = [s \in Sessions |-> exchanged'[s]]
       /\ \A s \in Sessions : s # r => exchanged'[s] = exchanged[s]
  <2>1. exchanged[r] = {}
    BY <1>2, <1>5 DEF ResponderOk
  <2> QED BY <1>1, <1>5, <2>1 DEF IInv, Shape
<1>11. Plaintexts2 \subseteq Plaintexts2'
  <2> DEFINE Old == {n.plaintext.signature : n \in sent[2]} \cup {Garbled}
             New == {n.plaintext.signature : n \in sent'[2]} \cup {Garbled}
  <2>1. Old \subseteq New
    <3> HIDE DEF m2
    <3> QED BY <1>9
  <2>2. /\ Plaintexts2 = [c_r : Wires, id_cred : References, signature : Old]
        /\ Plaintexts2' = [c_r : Wires, id_cred : References, signature : New]
    BY DEF Plaintexts2
  <2> HIDE DEF Old, New
  <2> QED BY <2>1, <2>2
<1>12. \A n \in sent[2] : n \in sent'[2]
  <2> HIDE DEF m2
  <2> QED BY <1>9
<1>13. Shape'
  <2>1. disturbed' \subseteq Sessions
    BY DisturbedType, <1>5 DEF ProcessMessage1, IInv, Shape
  <2>2. IsResponderState(responder'[r])
    <3> HIDE DEF c_i, prk, th_3
    <3> QED BY <1>7 DEF IsResponderState
  <2>3. \A q \in Responders : IsResponderState(responder'[q])
    BY <1>8, <2>2 DEF IInv, Shape
  <2> QED BY <1>1, <1>8, <1>9, <1>10, <2>1, <2>3 DEF IInv, Shape
<1>14. ResponderOk(r)'
  <2>1. m2 \in sent'[2]
    <3> HIDE DEF m2
    <3> QED BY <1>9
  <2>2. \E n \in Messages1 :
          /\ Message2(r, n) \in sent'[2] /\ m.g_x = n.g_x
          /\ prk = Prk(r, n) /\ th_3 = Th3Made(r, n)
    BY <1>3, <2>1
  <2>3. /\ responder[r].prk_4e3m = None /\ responder[r].th_4 = None
        /\ responder[r].completed \in BOOLEAN
        /\ ~responder[r].completed /\ agreed[r] = None
    BY <1>2, <1>5 DEF ResponderOk
  <2> HIDE DEF c_i, prk, th_3
  <2>4. /\ responder'[r].lifecycle = "AwaitingMessage3"
        /\ responder'[r].eph_secret = FALSE
        /\ responder'[r].completed \in BOOLEAN /\ ~responder'[r].completed
        /\ responder'[r].c_i = c_i /\ responder'[r].g_x = m.g_x
        /\ responder'[r].prk_3e2m = prk /\ responder'[r].th_3 = th_3
        /\ responder'[r].prk_4e3m = None /\ responder'[r].th_4 = None
    BY <1>7, <2>3
  <2>5. agreed'[r] = None /\ \A x, y \in exchanged'[r] : x = y
    BY <1>1, <1>10, <2>3
  <2>6. c_i \in ConnectionIds
    BY <1>4 DEF c_i
  <2> QED BY <2>2, <2>4, <2>5, <2>6 DEF ResponderOk
<1>15. ASSUME NEW q \in Responders PROVE ResponderOk(q)' /\ Opened3Ok(q)'
  <2>1. ResponderOk(q) /\ Opened3Ok(q) /\ q \in Sessions
    BY RolesApart DEF IInv
  <2>2. Opened3Ok(q)'
    BY <1>1, <1>9, <2>1 DEF Opened3Ok
  <2>3. CASE q = r
    BY <1>14, <2>2, <2>3
  <2>4. CASE q # r
    <3>1. responder'[q] = responder[q] /\ exchanged'[q] = exchanged[q]
      BY <1>8, <1>10, <2>1, <2>4
    <3>2. ResponderOk(q)'
      BY <1>1, <1>12, <2>1, <3>1 DEF ResponderOk
    <3> QED BY <2>2, <3>2
  <2> QED BY <2>3, <2>4
<1>16. ASSUME NEW i \in Initiators PROVE InitiatorOk(i)' /\ Opened2Ok(i)'
  <2>1. InitiatorOk(i) /\ Opened2Ok(i) /\ exchanged'[i] = exchanged[i]
    BY <1>10, RolesApart DEF IInv
  <2>2. InitiatorOk(i)'
    BY <1>1, <2>1 DEF InitiatorOk
  <2>3. Opened2Ok(i)'
    BY <1>1, <1>11, <2>1 DEF Opened2Ok
  <2> QED BY <2>2, <2>3
<1>17. Sent1Sound'
  BY <1>9 DEF IInv, Sent1Sound
<1>18. Sent2Sound'
  <2>1. \A n \in sent'[2] : \E q \in Responders, m1 \in Messages1 : n = Message2(q, m1)
    <3>1. \A n \in sent[2] : \E q \in Responders, m1 \in Messages1 : n = Message2(q, m1)
      BY DEF IInv, Sent2Sound
    <3>2. \E q \in Responders, m1 \in Messages1 : m2 = Message2(q, m1)
      BY <1>3
    <3> HIDE DEF m2
    <3> QED BY <1>9, <3>1, <3>2
  <2>2. ASSUME NEW q \in Responders, NEW m1 \in Messages1, Message2(q, m1) \in sent'[2]
        PROVE  IF q = r THEN m1 = m ELSE Message2(q, m1) \in sent[2]
    <3>1. CASE Message2(q, m1) = m2
      BY <3>1, Message2Apart
    <3>2. CASE Message2(q, m1) \in sent[2]
      <4>1. ~responder[q].eph_secret
        BY <3>2 DEF IInv, Sent2Sound
      <4>2. q # r
        BY <1>2, <4>1
      <4> QED BY <3>2, <4>2
    <3>3. Message2(q, m1) \in sent[2] \cup {m2}
      BY <1>9, <2>2
    <3> QED BY <3>1, <3>2, <3>3
  <2>3. ASSUME NEW q \in Responders, NEW m1 \in Messages1, Message2(q, m1) \in sent'[2]
        PROVE  /\ ~responder'[q].eph_secret
               /\ exchanged'[q] = {m1.g_x}
               /\ parse_c_i(m1.c_i) # Unreadable
               /\ parse_c_i(m1.c_i) # Id[q]
               /\ responder'[q].c_i = parse_c_i(m1.c_i)
               /\ \A n \in Messages1 : Message2(q, n) \in sent'[2] => n = m1
    <3>1. CASE q = r
      <4>1. m1 = m /\ \A n \in Messages1 : Message2(q, n) \in sent'[2] => n = m
        BY <2>2, <2>3, <3>1
      <4>2. responder'[r].eph_secret = FALSE /\ responder'[r].c_i = c_i
        <5> HIDE DEF c_i, prk, th_3
        <5> QED BY <1>7
      <4> QED BY <1>2, <1>10, <3>1, <4>1, <4>2
    <3>2. CASE q # r
      <4>1. Message2(q, m1) \in sent[2]
            /\ \A n \in Messages1 : Message2(q, n) \in sent'[2] => Message2(q, n) \in sent[2]
        BY <2>2, <2>3, <3>2
      <4>2. /\ ~responder[q].eph_secret
            /\ exchanged[q] = {m1.g_x}
            /\ parse_c_i(m1.c_i) # Unreadable
            /\ parse_c_i(m1.c_i) # Id[q]
            /\ responder[q].c_i = parse_c_i(m1.c_i)
            /\ \A n \in Messages1 : Message2(q, n) \in sent[2] => n = m1
        BY <4>1 DEF IInv, Sent2Sound
      <4>3. responder'[q] = responder[q] /\ exchanged'[q] = exchanged[q]
        BY <1>8, <1>10, <3>2, RolesApart
      <4> QED BY <4>1, <4>2, <4>3
    <3> QED BY <3>1, <3>2
  <2> QED BY <2>1, <2>3 DEF Sent2Sound
<1>19. Sent3Sound'
  BY <1>1, <1>9, <1>11 DEF IInv, Sent3Sound
<1>20. InitiatorAgreed'
  BY <1>1, <1>11, <1>12 DEF IInv, InitiatorAgreed
<1>21. ResponderAgreed'
  BY <1>1, <1>12 DEF IInv, ResponderAgreed
<1> QED BY <1>13, <1>15, <1>16, <1>17, <1>18, <1>19, <1>20, <1>21 DEF IInv

LEMMA StepBeginMessage3 ==
  ASSUME IInv, NEW r \in Responders, NEW m \in Received3, BeginMessage3(r, m)
  PROVE  IInv'
<1> DEFINE s == responder[r]
<1>1. /\ UNCHANGED <<initiator, pending_message_2, sent, exchanged, agreed>>
      /\ UNCHANGED <<initiatorVars>>
  BY DEF BeginMessage3, initiatorVars
<1>2. disturbed' \subseteq Sessions
  BY DisturbedType, RolesApart DEF BeginMessage3, IInv, Shape
<1>3. s.lifecycle = "AwaitingMessage3"
  BY DEF BeginMessage3, begin_process_message_3
<1>4. ResponderOk(r) /\ IsResponderState(responder[r])
  BY DEF IInv, Shape
<1>5. exchanged' = [exchanged EXCEPT ![r] = exchanged'[r]]
  BY <1>1 DEF IInv, Shape
<1>6. CASE /\ responder' = [responder EXCEPT ![r].lifecycle = "PendingMessage3"]
           /\ pending_message_3' = [pending_message_3 EXCEPT ![r] =
                PendingMessage3(m.plaintext, s.th_3)]
  <2>1. responder'[r] = [responder[r] EXCEPT !.lifecycle = "PendingMessage3"]
    BY <1>6 DEF IInv, Shape
  <2>2. responder'[r] =
          [lifecycle |-> "PendingMessage3", eph_secret |-> responder[r].eph_secret,
           g_x |-> responder[r].g_x, c_i |-> responder[r].c_i,
           prk_3e2m |-> responder[r].prk_3e2m, prk_4e3m |-> responder[r].prk_4e3m,
           th_3 |-> responder[r].th_3, th_4 |-> responder[r].th_4,
           completed |-> responder[r].completed]
    BY <1>4, <2>1 DEF IsResponderState
  <2>3. ResponderOk(r)' /\ IsResponderState(responder'[r])
    BY <1>1, <1>3, <1>4, <2>2 DEF ResponderOk, IsResponderState
  <2>4. pending_message_3'[r] = PendingMessage3(m.plaintext, s.th_3)
    BY <1>6 DEF IInv, Shape
  <2>5. \E n \in sent[3] : m.plaintext = n.plaintext
    BY Arrives3 DEF IInv
  <2>6. s.th_3 \in {Th3Made(q, m1) : q \in Responders, m1 \in Messages1}
    <3>1. \E m1 \in Messages1 : s.th_3 = Th3Made(r, m1)
      BY <1>3, <1>4 DEF ResponderOk
    <3> QED BY <3>1
  <2>7. Opened3Ok(r)'
    BY <1>1, <2>4, <2>5, <2>6 DEF Opened3Ok
  <2>8. /\ responder' = [responder EXCEPT ![r] = responder'[r]]
        /\ pending_message_3' = [pending_message_3 EXCEPT ![r] = pending_message_3'[r]]
    BY <1>6, <2>1, <2>4 DEF IInv, Shape
  <2>9. responder'[r].eph_secret = responder[r].eph_secret
        /\ responder'[r].c_i = responder[r].c_i
    BY <2>2
  <2> QED BY <1>1, <1>2, <1>5, <2>3, <2>7, <2>8, <2>9, FrameResponder
<1>7. CASE PoisonResponder(r) /\ UNCHANGED pending_message_3
  BY <1>1, <1>2, <1>7, StepWipeResponder DEF PoisonResponder
<1> QED BY <1>6, <1>7 DEF BeginMessage3, begin_process_message_3

\* What a signature over message 3 that verifies tells the responder: who sent
\* it, that it answers this very message 2, and what its sender holds.
LEMMA Verified3Says ==
  ASSUME IInv, NEW r \in Responders, NEW q \in Responders,
         NEW p, NEW peer \in Credentials,
         p = pending_message_3[q], p # None,
         responder[r].lifecycle = "PendingMessage3", Verified3(r, p, peer)
  PROVE  \E i \in Initiators :
           /\ Message2(r, message_1(i)) \in sent[2]
           /\ agreed[i] = InitiatorHolds(i, r, Th3Made(r, message_1(i)))
           /\ p.plaintext = Plain3(i, r, Th3Made(r, message_1(i)))
           /\ peer = Self[i]
           /\ responder[r].g_x = i /\ responder[r].c_i = Id[i]
           /\ responder[r].prk_3e2m = PrkOf(i, r)
           /\ responder[r].th_3 = Th3Made(r, message_1(i))
<1> DEFINE s == responder[r]
<1>1. PICK m1 \in Messages1 :
        /\ Message2(r, m1) \in sent[2]
        /\ s.g_x = m1.g_x /\ s.prk_3e2m = Prk(r, m1) /\ s.th_3 = Th3Made(r, m1)
  BY DEF IInv, ResponderOk
<1>2. PICK m \in sent[3], th_3 \in {Th3Made(o, n) : o \in Responders, n \in Messages1} :
        p = PendingMessage3(m.plaintext, th_3)
  BY DEF IInv, Opened3Ok
<1>3. p.plaintext = m.plaintext
  BY <1>2 DEF PendingMessage3
<1>4. PICK i \in Initiators, o \in Responders, plaintext \in Plaintexts2 :
        /\ m = message_3(PrkOf(i, o), Th3Read(i, o, plaintext),
                         Plain3(i, o, Th3Read(i, o, plaintext)))
        /\ agreed[i] = InitiatorHolds(i, o, Th3Read(i, o, plaintext))
  BY DEF IInv, Sent3Sound
<1> DEFINE t == Th3Read(i, o, plaintext)
           signed == m_3(PrkOf(i, o), IdCred[Self[i]], t, Self[i])
           verified == m_3(s.prk_3e2m, p.id_cred, s.th_3, peer)
<1>5. p.plaintext = Plain3(i, o, t)
  <2> HIDE DEF t
  <2>1. m = message_3(PrkOf(i, o), t, Plain3(i, o, t))
    BY <1>4 DEF t
  <2> QED BY <1>3, <2>1, MessageParts
<1>6. sign(Self[i], signed) = sign(peer, verified)
  <2>1. p.plaintext.signature = sign(Self[i], signed)
    BY <1>5, Plain3Parts
  <2>2. p.plaintext.signature = sign(peer, verified)
    BY DEF Verified3, verify
  <2> QED BY <2>1, <2>2
<1>7. peer = Self[i] /\ verified = signed
  <2> HIDE DEF signed, verified
  <2> QED BY <1>6, SignatureParts
<1>8. s.prk_3e2m = PrkOf(i, o) /\ s.th_3 = t
  BY <1>7, Signed3Apart
<1>9. o = r /\ m1 = message_1(i)
  <2>1. Prk(r, m1) = hkdf_extract(Th2(i, o), diffie_hellman(i, o))
    BY <1>1, <1>8 DEF PrkOf
  <2>2. Prk(r, m1).th_2 = Th2(i, o)
    BY <2>1, KeyParts
  <2>3. transcript_2(r, m1) = transcript_2(o, message_1(i))
    BY <2>2, MessageParts DEF Th2
  <2> DEFINE msg1 == message_1(i)
  <2>4. transcript_2(r, m1) = transcript_2(o, msg1)
    BY <2>3
  <2> HIDE DEF msg1
  <2>5. o = r /\ m1 = msg1
    BY <2>4, HashParts
  <2> QED BY <2>5 DEF msg1
<1>10. Message2(r, message_1(i)) \in sent[2] /\ s.g_x = i
  BY <1>1, <1>9, MessageParts
<1>11. s.c_i = Id[i]
  <2>1. /\ s.c_i = parse_c_i(encode_identifier(Id[i]))
        /\ parse_c_i(encode_identifier(Id[i])) # Unreadable
    BY <1>10, WiresType, MessageParts DEF IInv, Sent2Sound
  <2>2. Id[i] \in ConnectionIds
    BY WiresType, RolesApart
  <2> QED BY <2>1, <2>2, ResponderNeverMisreads
<1>12. t = Th3Made(r, message_1(i))
  <2> HIDE DEF t
  <2>1. t = Th3Made(r, m1)
    BY <1>1, <1>8
  <2> DEFINE msg1 == message_1(i)
  <2>2. m1 = msg1
    BY <1>9
  <2> HIDE DEF msg1
  <2>3. t = Th3Made(r, msg1)
    BY <2>1, <2>2
  <2> QED BY <2>3 DEF msg1
<1>13. agreed[i] = InitiatorHolds(i, r, t) /\ p.plaintext = Plain3(i, r, t)
       /\ s.prk_3e2m = PrkOf(i, r)
  BY <1>4, <1>5, <1>8, <1>9
<1> HIDE DEF t
<1> QED BY <1>7, <1>8, <1>10, <1>11, <1>12, <1>13

LEMMA StepFinishMessage3 ==
  ASSUME IInv, AtomsAreNoTerms, NEW r \in Responders, NEW q \in Responders,
         NEW p, NEW peer \in Credentials,
         p = pending_message_3[q], p # None,
         FinishMessage3(r, p, peer)
  PROVE  IInv'
<1> DEFINE s == responder[r]
           accepted == /\ s.lifecycle = "PendingMessage3"
                       /\ p.transcript_binding = s.th_3
                       /\ p.id_cred = IdCred[peer]
                       /\ Verified3(r, p, peer)
<1>1. /\ UNCHANGED <<initiatorVars, initiator, pending_message_2, pending_message_3, sent, exchanged>>
      /\ Agree(r, s.g_x, peer, export_oscore_responder(r)')
  BY DEF FinishMessage3, finish_process_message_3, initiatorVars
<1>2. disturbed' \subseteq Sessions
  BY DisturbedType, RolesApart DEF FinishMessage3, IInv, Shape
<1>3. CASE PoisonResponder(r)
  <2>1. responder' = [responder EXCEPT ![r] = WipeResponder(@, "Failed")]
    BY <1>3 DEF PoisonResponder
  <2>2. responder'[r] = [FreshResponder EXCEPT !.lifecycle = "Failed",
                           !.eph_secret = FALSE, !.c_i = responder[r].c_i]
    <3>1. responder'[r] = WipeResponder(responder[r], "Failed")
      BY <2>1 DEF IInv, Shape
    <3> QED BY <3>1 DEF WipeResponder
  <2>3. responder[r].c_i \in ConnectionIds /\ \A x, y \in exchanged'[r] : x = y
    BY <1>1 DEF IInv, ResponderOk
  <2>4. ~responder'[r].completed
    BY <2>2, <2>3, WipedResponder
  <2>5. UNCHANGED agreed
    BY <1>1, <2>4 DEF Agree, export_oscore_responder
  <2> QED BY <1>1, <1>2, <2>1, <2>5, StepWipeResponder
<1>4. CASE /\ accepted
           /\ responder' = [responder EXCEPT ![r] =
                [@ EXCEPT !.lifecycle = "Complete", !.completed = TRUE,
                          !.prk_4e3m = s.prk_3e2m,
                          !.th_4 = transcript_4(s.th_3, p.plaintext, peer)]]
  <2>1. PICK i \in Initiators :
           /\ Message2(r, message_1(i)) \in sent[2]
           /\ agreed[i] = InitiatorHolds(i, r, Th3Made(r, message_1(i)))
           /\ p.plaintext = Plain3(i, r, Th3Made(r, message_1(i)))
           /\ peer = Self[i]
           /\ responder[r].g_x = i /\ responder[r].c_i = Id[i]
           /\ responder[r].prk_3e2m = PrkOf(i, r)
           /\ responder[r].th_3 = Th3Made(r, message_1(i))
    BY <1>4, Verified3Says
  <2> DEFINE prk == PrkOf(i, r)
             th_3 == Th3Made(r, message_1(i))
             th_4 == Th4Of(i, r, th_3)
             holds == ResponderHolds(r, i, th_3)
             context == export_context(prk, th_4, Id[i], Id[r])
  <2>2. transcript_4(s.th_3, p.plaintext, peer) = th_4
    <3> HIDE DEF th_3
    <3>1. s.th_3 = th_3 /\ p.plaintext = Plain3(i, r, th_3) /\ peer = Self[i]
      BY <2>1 DEF th_3
    <3> QED BY <3>1, Zenon DEF Th4Of
  <2>3. responder' = [responder EXCEPT ![r] =
          [@ EXCEPT !.lifecycle = "Complete", !.completed = TRUE,
                    !.prk_4e3m = prk, !.th_4 = th_4]]
    <3>1. s.prk_3e2m = prk
      BY <2>1
    <3> HIDE DEF prk, th_4
    <3> QED BY <1>4, <2>2, <3>1
  <2>4. ResponderOk(r) /\ IsResponderState(responder[r]) /\ r \in Sessions
    BY RolesApart DEF IInv, Shape
  <2>5. responder'[r] =
          [lifecycle |-> "Complete", eph_secret |-> responder[r].eph_secret,
           g_x |-> responder[r].g_x, c_i |-> responder[r].c_i,
           prk_3e2m |-> responder[r].prk_3e2m, prk_4e3m |-> prk,
           th_3 |-> responder[r].th_3, th_4 |-> th_4, completed |-> TRUE]
    <3> HIDE DEF prk, th_4
    <3>1. responder'[r] =
            [responder[r] EXCEPT !.lifecycle = "Complete", !.completed = TRUE,
                                 !.prk_4e3m = prk, !.th_4 = th_4]
      BY <2>3 DEF IInv, Shape
    <3> QED BY <2>4, <3>1 DEF IsResponderState
  <2>6. export_oscore_responder(r)' = context
    <3>1. prk # None
      BY DEF PrkOf, AtomsAreNoTerms
    <3> HIDE DEF prk, th_4
    <3>2. /\ responder'[r].completed = TRUE /\ responder'[r].prk_4e3m = prk
          /\ responder'[r].th_4 = th_4 /\ responder'[r].c_i = Id[i]
      BY <2>1, <2>5
    <3> QED BY <3>1, <3>2 DEF export_oscore_responder
  <2>7. agreed' = [agreed EXCEPT ![r] = holds]
    <3>1. context # None
      BY DEF AtomsAreNoTerms
    <3>2. holds = [peer |-> i, credential |-> Self[i], context |-> context]
      BY DEF ResponderHolds
    <3> HIDE DEF context, holds
    <3> QED BY <1>1, <2>1, <2>6, <3>1, <3>2 DEF Agree
  <2>8. /\ agreed' = [o \in Sessions |-> agreed'[o]] /\ agreed'[r] = holds
        /\ \A o \in Sessions : o # r => agreed'[o] = agreed[o]
    <3> HIDE DEF holds
    <3> QED BY <2>4, <2>7 DEF IInv, Shape
  <2>9. /\ \A o \in Responders : o # r => responder'[o] = responder[o]
        /\ responder' = [o \in Responders |-> responder'[o]]
    <3> HIDE DEF prk, th_4
    <3> QED BY <2>3 DEF IInv, Shape
  <2>10. Plaintexts2' = Plaintexts2
    BY <1>1 DEF Plaintexts2
  <2>11. \A k \in Initiators : agreed'[k] = agreed[k]
    BY <2>8, RolesApart
  <2>12. Shape'
    <3>1. IsResponderState(responder'[r])
      <4> HIDE DEF prk, th_4
      <4> QED BY <2>5 DEF IsResponderState
    <3>2. \A o \in Responders : IsResponderState(responder'[o])
      BY <2>9, <3>1 DEF IInv, Shape
    <3> QED BY <1>1, <1>2, <2>8, <2>9, <3>2 DEF IInv, Shape
  <2>13. ResponderOk(r)'
    <3>1. holds.context = context /\ holds # None /\ th_4 # None
      BY DEF ResponderHolds, AtomsAreNoTerms, Th4Of
    <3>2. /\ responder[r].eph_secret \in BOOLEAN
          /\ ~responder[r].eph_secret /\ responder[r].prk_3e2m = prk
          /\ \A x, y \in exchanged'[r] : x = y
          /\ \E m \in Messages1 :
               /\ Message2(r, m) \in sent[2]
               /\ responder[r].g_x = m.g_x
               /\ responder[r].prk_3e2m = Prk(r, m)
               /\ responder[r].th_3 = Th3Made(r, m)
      BY <1>1, <1>4, <2>1, <2>4 DEF ResponderOk
    <3> HIDE DEF prk, th_4, holds
    <3>3. /\ responder'[r].lifecycle = "Complete" /\ responder'[r].completed = TRUE
          /\ responder'[r].eph_secret = responder[r].eph_secret
          /\ responder'[r].g_x = responder[r].g_x /\ responder'[r].c_i = Id[i]
          /\ responder'[r].prk_3e2m = responder[r].prk_3e2m
          /\ responder'[r].prk_4e3m = prk
          /\ responder'[r].th_3 = responder[r].th_3 /\ responder'[r].th_4 = th_4
      BY <2>1, <2>5
    <3>4. Id[i] \in ConnectionIds
      BY WiresType, RolesApart
    <3> QED BY <1>1, <2>8, <3>1, <3>2, <3>3, <3>4 DEF ResponderOk
  <2>14. ASSUME NEW o \in Responders PROVE ResponderOk(o)' /\ Opened3Ok(o)'
    <3>1. ResponderOk(o) /\ Opened3Ok(o) /\ o \in Sessions
      BY RolesApart DEF IInv
    <3>2. Opened3Ok(o)'
      BY <1>1, <3>1 DEF Opened3Ok
    <3>3. CASE o = r
      BY <2>13, <3>2, <3>3
    <3>4. CASE o # r
      <4>1. responder'[o] = responder[o] /\ agreed'[o] = agreed[o]
        BY <2>8, <2>9, <3>1, <3>4
      <4>2. ResponderOk(o)'
        BY <1>1, <3>1, <4>1 DEF ResponderOk
      <4> QED BY <3>2, <4>2
    <3> QED BY <3>3, <3>4
  <2>15. ASSUME NEW k \in Initiators PROVE InitiatorOk(k)' /\ Opened2Ok(k)'
    <3>1. InitiatorOk(k) /\ Opened2Ok(k)
      BY DEF IInv
    <3>2. InitiatorOk(k)'
      BY <1>1, <2>11, <3>1 DEF InitiatorOk
    <3>3. Opened2Ok(k)'
      BY <1>1, <2>10, <3>1 DEF Opened2Ok
    <3> QED BY <3>2, <3>3
  <2>16. Sent1Sound'
    BY <1>1 DEF IInv, Sent1Sound
  <2>17. Sent2Sound'
    <3>1. responder'[r].eph_secret = responder[r].eph_secret
          /\ responder'[r].c_i = responder[r].c_i
      <4> HIDE DEF prk, th_4
      <4> QED BY <2>5
    <3>2. \A o \in Responders :
            /\ responder'[o].eph_secret = responder[o].eph_secret
            /\ responder'[o].c_i = responder[o].c_i
      BY <2>9, <3>1
    <3> QED BY <1>1, <3>2 DEF IInv, Sent2Sound
  <2>18. Sent3Sound'
    BY <1>1, <2>10, <2>11 DEF IInv, Sent3Sound
  <2>19. InitiatorAgreed'
    BY <1>1, <2>10, <2>11 DEF IInv, InitiatorAgreed
  <2>20. ResponderAgreed'
    <3> SUFFICES ASSUME NEW o \in Responders, agreed'[o] # None
                 PROVE  \E k \in Initiators :
                          /\ Message2(o, message_1(k)) \in sent[2]
                          /\ agreed'[k] = InitiatorHolds(k, o, Th3Made(o, message_1(k)))
                          /\ agreed'[o] = ResponderHolds(o, k, Th3Made(o, message_1(k)))
      BY <1>1, Zenon DEF ResponderAgreed
    <3>1. CASE o = r
      BY <2>1, <2>8, <2>11, <3>1
    <3>2. CASE o # r
      <4>1. agreed'[o] = agreed[o]
        BY <2>8, <3>2, RolesApart
      <4> QED BY <2>11, <4>1 DEF IInv, ResponderAgreed
    <3> QED BY <3>1, <3>2
  <2> QED BY <2>12, <2>14, <2>15, <2>16, <2>17, <2>18, <2>19, <2>20 DEF IInv
<1> QED BY <1>3, <1>4 DEF FinishMessage3, finish_process_message_3

-----------------------------------------------------------------------------
\* The invariant holds.

LEMMA InitIsIInv ==
  ASSUME Init
  PROVE  IInv
<1> USE DEF Init, InitiatorInit, ResponderInit
<1>1. \A i \in Initiators : initiator[i] = FreshInitiator /\ pending_message_2[i] = None
  OBVIOUS
<1>2. \A r \in Responders : responder[r] = FreshResponder /\ pending_message_3[r] = None
  OBVIOUS
<1>3. /\ sent[1] = {} /\ sent[2] = {} /\ sent[3] = {}
      /\ \A s \in Sessions : exchanged[s] = {} /\ agreed[s] = None
  OBVIOUS
<1>4. <<>> \in ConnectionIds
  BY DEF ConnectionIds, CONNECTION_ID_CAPACITY
<1>5. /\ IsInitiatorState(FreshInitiator) /\ FreshInitiator.lifecycle = "Created"
      /\ FreshInitiator.eph_secret = TRUE /\ FreshInitiator.completed = FALSE
      /\ FreshInitiator.c_r = <<>>
      /\ FreshInitiator.prk_3e2m = None /\ FreshInitiator.prk_4e3m = None
      /\ FreshInitiator.th_2 = None /\ FreshInitiator.th_3 = None /\ FreshInitiator.th_4 = None
  BY DEF FreshInitiator, IsInitiatorState
<1>6. /\ IsResponderState(FreshResponder) /\ FreshResponder.lifecycle = "Created"
      /\ FreshResponder.eph_secret = TRUE /\ FreshResponder.completed = FALSE
      /\ FreshResponder.c_i = <<>>
      /\ FreshResponder.prk_3e2m = None /\ FreshResponder.prk_4e3m = None
      /\ FreshResponder.th_3 = None /\ FreshResponder.th_4 = None
  BY DEF FreshResponder, IsResponderState
<1>7. Shape
  <2>1. initiator = [i \in Initiators |-> initiator[i]]
    OBVIOUS
  <2>2. responder = [r \in Responders |-> responder[r]]
    OBVIOUS
  <2> QED BY <1>1, <1>2, <1>5, <1>6, <2>1, <2>2 DEF Shape
<1>8. \A i \in Initiators : InitiatorOk(i) /\ Opened2Ok(i)
  <2> TAKE i \in Initiators
  <2>1. initiator[i] = FreshInitiator /\ exchanged[i] = {} /\ agreed[i] = None
    BY <1>1, <1>3, RolesApart
  <2>2. InitiatorOk(i)
    BY <1>4, <1>5, <2>1 DEF InitiatorOk
  <2> QED BY <1>1, <2>2 DEF Opened2Ok
<1>9. \A r \in Responders : ResponderOk(r) /\ Opened3Ok(r)
  <2> TAKE r \in Responders
  <2>1. responder[r] = FreshResponder /\ exchanged[r] = {} /\ agreed[r] = None
    BY <1>2, <1>3, RolesApart
  <2>2. ResponderOk(r)
    BY <1>4, <1>6, <2>1 DEF ResponderOk
  <2> QED BY <1>2, <2>2 DEF Opened3Ok
<1>10. Sent1Sound /\ Sent2Sound /\ Sent3Sound
  BY <1>3 DEF Sent1Sound, Sent2Sound, Sent3Sound
<1>11. InitiatorAgreed /\ ResponderAgreed
  BY <1>3, RolesApart DEF InitiatorAgreed, ResponderAgreed
<1> QED BY <1>7, <1>8, <1>9, <1>10, <1>11 DEF IInv

LEMMA StutterKeepsIInv ==
  ASSUME IInv, UNCHANGED vars
  PROVE  IInv'
<1>1. UNCHANGED <<initiator, responder, pending_message_2, pending_message_3, sent,
                  exchanged, agreed, disturbed>>
  BY DEF vars, initiatorVars, responderVars, historyVars
<1>2. Plaintexts2' = Plaintexts2
  BY <1>1 DEF Plaintexts2
<1>3. Shape'
  BY <1>1 DEF IInv, Shape
<1>4. ASSUME NEW i \in Initiators PROVE InitiatorOk(i)' /\ Opened2Ok(i)'
  BY <1>1, <1>2 DEF IInv, InitiatorOk, Opened2Ok
<1>5. ASSUME NEW r \in Responders PROVE ResponderOk(r)' /\ Opened3Ok(r)'
  BY <1>1 DEF IInv, ResponderOk, Opened3Ok
<1>6. Sent1Sound' /\ Sent2Sound' /\ Sent3Sound'
  BY <1>1, <1>2 DEF IInv, Sent1Sound, Sent2Sound, Sent3Sound
<1>7. InitiatorAgreed' /\ ResponderAgreed'
  BY <1>1, <1>2 DEF IInv, InitiatorAgreed, ResponderAgreed
<1> QED BY <1>3, <1>4, <1>5, <1>6, <1>7 DEF IInv

LEMMA StepKeepsIInv ==
  ASSUME IInv, AtomsAreNoTerms, [Next]_vars
  PROVE  IInv'
<1>1. CASE UNCHANGED vars
  BY <1>1, StutterKeepsIInv
<1>2. ASSUME NEW i \in Initiators, InitiatorStep(i) PROVE IInv'
  <2>1. CASE CreateMessage1(i)
    BY <2>1, StepCreateMessage1
  <2>2. CASE ReceiveSuitesError(i)
    BY <2>2, StepReceiveSuitesError
  <2>3. ASSUME NEW m \in Received2, BeginMessage2(i, m) PROVE IInv'
    BY <2>3, StepBeginMessage2
  <2>4. ASSUME NEW j \in Initiators, NEW peer \in Credentials,
               pending_message_2[j] # None, FinishMessage2(i, pending_message_2[j], peer)
        PROVE  IInv'
    BY <2>4, StepFinishMessage2
  <2>5. CASE DropMessage2(i)
    BY <2>5, StepDropMessage2
  <2>6. CASE ZeroizeInitiator(i)
    BY <2>6, StepZeroizeInitiator
  <2> QED BY <1>2, <2>1, <2>2, <2>3, <2>4, <2>5, <2>6 DEF InitiatorStep
<1>3. ASSUME NEW r \in Responders, ResponderStep(r) PROVE IInv'
  <2>1. ASSUME NEW m \in Received1, ProcessMessage1(r, m) PROVE IInv'
    BY <2>1, StepProcessMessage1
  <2>2. ASSUME NEW m \in Received1, RefuseMessage1(r, m) PROVE IInv'
    BY <2>2, StepRefuseMessage1
  <2>3. ASSUME NEW m \in Received3, BeginMessage3(r, m) PROVE IInv'
    BY <2>3, StepBeginMessage3
  <2>4. ASSUME NEW q \in Responders, NEW peer \in Credentials,
               pending_message_3[q] # None, FinishMessage3(r, pending_message_3[q], peer)
        PROVE  IInv'
    <3>1. PICK p : p = pending_message_3[q]
      OBVIOUS
    <3> QED BY <2>4, <3>1, StepFinishMessage3
  <2>5. CASE DropMessage3(r)
    BY <2>5, StepDropMessage3
  <2>6. CASE ZeroizeResponder(r)
    BY <2>6, StepZeroizeResponder
  <2> QED BY <1>3, <2>1, <2>2, <2>3, <2>4, <2>5, <2>6 DEF ResponderStep
<1> QED BY <1>1, <1>2, <1>3 DEF Next

\* What the two roles do keeps every session in one of the situations that
\* IInv describes.
THEOREM ExchangeInductive ==
  ASSUME AtomsAreNoTerms
  PROVE  Spec => []IInv
<1>1. Init => IInv
  BY InitIsIInv
<1>2. IInv /\ [Next]_vars => IInv'
  BY StepKeepsIInv
<1> QED BY <1>1, <1>2, PTL DEF Spec

-----------------------------------------------------------------------------
\* What follows for the applications.

\* An ephemeral key meets one public key: a session that still has its key has
\* used it with none.
\* (initiator.rs:293-300, responder.rs:285-295)
THEOREM EphemeralOnceHolds ==
  ASSUME AtomsAreNoTerms
  PROVE  Spec => []EphemeralOnce
<1>1. IInv => EphemeralOnce
  BY DEF IInv, InitiatorOk, ResponderOk, EphemeralOnce, Sessions
<1> QED BY <1>1, ExchangeInductive, PTL

\* The initiator's half of a handshake that was answered.
LEMMA InitiatorHalf ==
  ASSUME IInv, NEW i \in Initiators, agreed[i] # None
  PROVE  \E r, th_3 :
           /\ r \in Responders
           /\ agreed[i] = InitiatorHolds(i, r, th_3)
           /\ Message2(r, message_1(i)) \in sent[2]
           /\ i \in exchanged[r] /\ responder[r].c_i = Id[i] /\ Id[i] # Id[r]
<1>1. PICK r \in Responders, plaintext \in Plaintexts2 :
        /\ Message2(r, message_1(i)) \in sent[2]
        /\ agreed[i] = InitiatorHolds(i, r, Th3Read(i, r, plaintext))
  BY DEF IInv, InitiatorAgreed
<1>2. /\ exchanged[r] = {message_1(i).g_x}
      /\ parse_c_i(message_1(i).c_i) # Unreadable
      /\ parse_c_i(message_1(i).c_i) # Id[r]
      /\ responder[r].c_i = parse_c_i(message_1(i).c_i)
  BY <1>1, WiresType DEF IInv, Sent2Sound
<1>3. /\ exchanged[r] = {i}
      /\ responder[r].c_i = parse_c_i(encode_identifier(Id[i]))
      /\ parse_c_i(encode_identifier(Id[i])) # Unreadable
      /\ parse_c_i(encode_identifier(Id[i])) # Id[r]
  BY <1>2, MessageParts
<1>4. parse_c_i(encode_identifier(Id[i])) = Id[i]
  BY <1>3, WiresType, RolesApart, ResponderNeverMisreads
<1>5. i \in exchanged[r] /\ responder[r].c_i = Id[i] /\ Id[i] # Id[r]
  BY <1>3, <1>4
<1> QED BY <1>1, <1>5

\* What the two sides hold, field by field.
LEMMA HoldParts ==
  ASSUME NEW i, NEW r, NEW th_3
  PROVE  /\ InitiatorHolds(i, r, th_3).peer = r
         /\ InitiatorHolds(i, r, th_3).credential = Self[r]
         /\ InitiatorHolds(i, r, th_3).context.master =
              MasterOf(i, r, Th4Of(i, r, th_3))
         /\ InitiatorHolds(i, r, th_3).context.sender_id = Id[r]
         /\ InitiatorHolds(i, r, th_3).context.recipient_id = Id[i]
         /\ ResponderHolds(r, i, th_3).peer = i
         /\ ResponderHolds(r, i, th_3).credential = Self[i]
         /\ ResponderHolds(r, i, th_3).context.master =
              MasterOf(i, r, Th4Of(i, r, th_3))
         /\ ResponderHolds(r, i, th_3).context.sender_id = Id[i]
         /\ ResponderHolds(r, i, th_3).context.recipient_id = Id[r]
<1> DEFINE prk == PrkOf(i, r)
           th_4 == Th4Of(i, r, th_3)
           c == export_context(prk, th_4, Id[r], Id[i])
           d == export_context(prk, th_4, Id[i], Id[r])
<1>1. /\ InitiatorHolds(i, r, th_3) = [peer |-> r, credential |-> Self[r], context |-> c]
      /\ ResponderHolds(r, i, th_3) = [peer |-> i, credential |-> Self[i], context |-> d]
  BY DEF InitiatorHolds, ResponderHolds
<1>2. /\ c.master = edhoc_kdf(prk, "PRK_OUT", th_4) /\ d.master = c.master
      /\ c.sender_id = Id[r] /\ c.recipient_id = Id[i]
      /\ d.sender_id = Id[i] /\ d.recipient_id = Id[r]
  BY KeyParts
<1> HIDE DEF prk, th_4, c, d
<1>3. /\ InitiatorHolds(i, r, th_3).peer = r
      /\ InitiatorHolds(i, r, th_3).credential = Self[r]
      /\ InitiatorHolds(i, r, th_3).context = c
      /\ ResponderHolds(r, i, th_3).peer = i
      /\ ResponderHolds(r, i, th_3).credential = Self[i]
      /\ ResponderHolds(r, i, th_3).context = d
  BY <1>1
<1> QED BY <1>2, <1>3 DEF prk, th_4, MasterOf

\* An initiator completes only with a responder that answered its message 1,
\* under the credential and the identifier of that responder.
\* (finish_process_message_2)
LEMMA InitiatorAgreementIn ==
  ASSUME IInv
  PROVE  InitiatorAgreement
<1> SUFFICES ASSUME NEW i \in Initiators, agreed[i] # None
             PROVE  LET r == agreed[i].peer
                    IN  /\ r \in Responders /\ i \in exchanged[r]
                        /\ agreed[i].credential = Self[r]
                        /\ agreed[i].context.sender_id = Id[r]
                        /\ agreed[i].context.recipient_id = Id[i]
                        /\ responder[r].c_i = Id[i]
  BY DEF InitiatorAgreement
<1>1. PICK r, th_3 :
           /\ r \in Responders
           /\ agreed[i] = InitiatorHolds(i, r, th_3)
           /\ i \in exchanged[r] /\ responder[r].c_i = Id[i]
  BY InitiatorHalf
<1> QED BY <1>1, HoldParts

\* Whatever is damaged, an initiator completes only with a responder that
\* answered its message 1: the signature it verified is over TH_2, which only
\* that responder signs.  (finish_process_message_2)
THEOREM InitiatorAgreementHolds ==
  ASSUME AtomsAreNoTerms
  PROVE  Spec => []InitiatorAgreement
BY InitiatorAgreementIn, ExchangeInductive, PTL

\* A responder completes only with an initiator that completed with it, and
\* the two hold mirrored contexts.
\* (finish_process_message_3)
LEMMA ResponderAgreementIn ==
  ASSUME IInv, AtomsAreNoTerms
  PROVE  ResponderAgreement
<1> SUFFICES ASSUME NEW r \in Responders, agreed[r] # None
             PROVE  LET i == agreed[r].peer
                    IN  /\ i \in Initiators /\ agreed[i] # None /\ agreed[i].peer = r
                        /\ Mirrored(agreed[r].context, agreed[i].context)
                        /\ agreed[r].credential = Self[i] /\ agreed[i].credential = Self[r]
                        /\ agreed[r].context.sender_id = Id[i]
                        /\ agreed[i].context.sender_id = Id[r]
  BY DEF ResponderAgreement
<1>1. PICK i \in Initiators :
        /\ agreed[i] = InitiatorHolds(i, r, Th3Made(r, message_1(i)))
        /\ agreed[r] = ResponderHolds(r, i, Th3Made(r, message_1(i)))
  BY DEF IInv, ResponderAgreed
<1>2. agreed[i] # None
  BY <1>1 DEF InitiatorHolds, AtomsAreNoTerms
<1>3. PICK th_3 : th_3 = Th3Made(r, message_1(i))
  OBVIOUS
<1>4. agreed[i] = InitiatorHolds(i, r, th_3) /\ agreed[r] = ResponderHolds(r, i, th_3)
  BY <1>1, <1>3
<1> QED BY <1>2, <1>4, HoldParts DEF Mirrored

\* A responder completes only with an initiator that completed with it, and
\* their contexts mirror each other.  (finish_process_message_3)
THEOREM ResponderAgreementHolds ==
  ASSUME AtomsAreNoTerms
  PROVE  Spec => []ResponderAgreement
<1>1. IInv => ResponderAgreement
  BY ResponderAgreementIn
<1> QED BY <1>1, ExchangeInductive, PTL

\* One master secret belongs to one initiator and one responder.
LEMMA MasterApart ==
  \A i, r, th, j, q, th2 :
    MasterOf(i, r, th) = MasterOf(j, q, th2) =>
      i = j /\ r = q
<1> SUFFICES ASSUME NEW i, NEW r, NEW th, NEW j, NEW q, NEW th2,
                    MasterOf(i, r, th) = MasterOf(j, q, th2)
             PROVE  i = j /\ r = q
  OBVIOUS
<1>1. PrkOf(i, r) = PrkOf(j, q)
  <2> DEFINE a == PrkOf(i, r)
             b == PrkOf(j, q)
  <2>1. edhoc_kdf(a, "PRK_OUT", th) = edhoc_kdf(b, "PRK_OUT", th2)
    BY DEF MasterOf
  <2> HIDE DEF a, b
  <2>2. a = b
    BY <2>1, KeyParts
  <2> QED BY <2>2 DEF a, b
<1>2. Th2(i, r) = Th2(j, q)
  <2>1. PrkOf(i, r).th_2 = Th2(i, r) /\ PrkOf(j, q).th_2 = Th2(j, q)
    BY KeyParts DEF PrkOf
  <2> QED BY <1>1, <2>1
<1>3. r = q /\ message_1(i) = message_1(j)
  <2>1. Th2(i, r).g_y = r /\ Th2(j, q).g_y = q
        /\ Th2(i, r).msg1 = message_1(i) /\ Th2(j, q).msg1 = message_1(j)
    BY HashParts DEF Th2
  <2> QED BY <1>2, <2>1
<1> QED BY <1>3, MessageParts

\* What a session exports is what it recorded when it completed.
LEMMA ExportedIsAgreed ==
  ASSUME IInv, NEW s \in Sessions, Exported(s) # None
  PROVE  agreed[s] # None /\ Exported(s) = agreed[s].context
<1>1. CASE s \in Initiators
  <2>1. export_oscore_initiator(s) # None /\ Exported(s) = export_oscore_initiator(s)
    BY <1>1 DEF Exported
  <2>2. initiator[s].completed /\ InitiatorOk(s)
    BY <1>1, <2>1 DEF export_oscore_initiator, IInv
  <2>3. initiator[s].lifecycle = "Complete"
    BY <2>2 DEF InitiatorOk
  <2>4. /\ agreed[s] # None
        /\ agreed[s].context =
             export_context(initiator[s].prk_4e3m, initiator[s].th_4, initiator[s].c_r, Id[s])
    BY <2>2, <2>3 DEF InitiatorOk
  <2> QED BY <2>1, <2>4 DEF export_oscore_initiator
<1>2. CASE s \in Responders
  <2>1. export_oscore_responder(s) # None /\ Exported(s) = export_oscore_responder(s)
    BY <1>2, RolesApart DEF Exported
  <2>2. responder[s].completed /\ ResponderOk(s)
    BY <1>2, <2>1 DEF export_oscore_responder, IInv
  <2>3. responder[s].lifecycle = "Complete"
    BY <2>2 DEF ResponderOk
  <2>4. /\ agreed[s] # None
        /\ agreed[s].context =
             export_context(responder[s].prk_4e3m, responder[s].th_4, responder[s].c_i, Id[s])
    BY <2>2, <2>3 DEF ResponderOk
  <2> QED BY <2>1, <2>4 DEF export_oscore_responder
<1> QED BY <1>1, <1>2 DEF Sessions

\* Contexts under one master secret are the two ends of one handshake, with
\* different sender identifiers.
\* (export_oscore of both roles, the checks of C_I and C_R)
LEMMA ExportsApartIn ==
  ASSUME IInv, AtomsAreNoTerms
  PROVE  ExportsApart
<1>1. ASSUME NEW i \in Initiators, agreed[i] # None
      PROVE  \E r, th_4 :
               /\ r \in Responders
               /\ agreed[i].context.master = MasterOf(i, r, th_4)
               /\ Id[i] # Id[r]
  BY <1>1, InitiatorHalf, HoldParts
<1>2. ASSUME NEW r \in Responders, agreed[r] # None
      PROVE  \E i, th_4 :
               /\ i \in Initiators
               /\ agreed[r].context.master = MasterOf(i, r, th_4)
               /\ agreed[r].peer = i /\ agreed[i].peer = r
               /\ Mirrored(agreed[r].context, agreed[i].context)
               /\ agreed[r].context.sender_id = Id[i] /\ agreed[i].context.sender_id = Id[r]
  <2>1. PICK i \in Initiators :
          /\ agreed[r] = ResponderHolds(r, i, Th3Made(r, message_1(i)))
    BY <1>2 DEF IInv, ResponderAgreed
  <2>2. agreed[r].peer = i
        /\ agreed[r].context.master =
             MasterOf(i, r, Th4Of(i, r, Th3Made(r, message_1(i))))
    BY <2>1, HoldParts
  <2> QED BY <1>2, <2>2, ResponderAgreementIn DEF ResponderAgreement
<1>3. ASSUME NEW i \in Initiators, NEW r \in Responders, agreed[i] # None, agreed[r] # None,
             agreed[i].context.master = agreed[r].context.master
      PROVE  /\ Mirrored(agreed[i].context, agreed[r].context)
             /\ Mirrored(agreed[r].context, agreed[i].context)
             /\ agreed[i].context.sender_id # agreed[r].context.sender_id
  <2>1. PICK q, th :
               /\ q \in Responders
               /\ agreed[i].context.master = MasterOf(i, q, th)
               /\ Id[i] # Id[q]
    BY <1>1, <1>3
  <2>2. PICK j, th2 :
               /\ j \in Initiators
               /\ agreed[r].context.master = MasterOf(j, r, th2)
               /\ Mirrored(agreed[r].context, agreed[j].context)
               /\ agreed[r].context.sender_id = Id[j] /\ agreed[j].context.sender_id = Id[r]
    BY <1>2, <1>3
  <2>3. i = j /\ q = r
    <3>1. MasterOf(i, q, th) = MasterOf(j, r, th2)
      BY <1>3, <2>1, <2>2
    <3> QED BY <3>1, MasterApart
  <2> QED BY <2>1, <2>2, <2>3 DEF Mirrored
<1> SUFFICES ASSUME NEW s \in Sessions, NEW t \in Sessions, s # t,
                    Exported(s) # None, Exported(t) # None,
                    Exported(s).master = Exported(t).master
             PROVE  /\ s \in Initiators <=> t \in Responders
                    /\ Mirrored(Exported(s), Exported(t))
                    /\ Exported(s).sender_id # Exported(t).sender_id
  BY DEF ExportsApart
<1>4. /\ agreed[s] # None /\ Exported(s) = agreed[s].context
      /\ agreed[t] # None /\ Exported(t) = agreed[t].context
      /\ agreed[s].context.master = agreed[t].context.master
  BY ExportedIsAgreed
<1>5. CASE s \in Initiators /\ t \in Initiators
  <2>1. PICK a, th : a \in Responders /\ agreed[s].context.master = MasterOf(s, a, th)
    BY <1>1, <1>4, <1>5
  <2>2. PICK b, th2 : b \in Responders /\ agreed[t].context.master = MasterOf(t, b, th2)
    BY <1>1, <1>4, <1>5
  <2>3. MasterOf(s, a, th) = MasterOf(t, b, th2)
    BY <1>4, <2>1, <2>2
  <2>4. s = t
    BY <2>3, MasterApart
  <2> QED BY <2>4
<1>6. CASE s \in Responders /\ t \in Responders
  <2>1. PICK a, th : a \in Initiators /\ agreed[s].context.master = MasterOf(a, s, th)
    BY <1>2, <1>4, <1>6
  <2>2. PICK b, th2 : b \in Initiators /\ agreed[t].context.master = MasterOf(b, t, th2)
    BY <1>2, <1>4, <1>6
  <2>3. MasterOf(a, s, th) = MasterOf(b, t, th2)
    BY <1>4, <2>1, <2>2
  <2>4. s = t
    BY <2>3, MasterApart
  <2> QED BY <2>4
<1>7. CASE s \in Initiators /\ t \in Responders
  BY <1>3, <1>4, <1>7
<1>8. CASE s \in Responders /\ t \in Initiators
  BY <1>3, <1>4, <1>8, RolesApart
<1> QED BY <1>5, <1>6, <1>7, <1>8 DEF Sessions

\* One master secret is exported by two partners and nobody else, under two
\* identifiers.  (export_oscore of both roles, the checks of C_I and C_R)
THEOREM ExportsApartHolds ==
  ASSUME AtomsAreNoTerms
  PROVE  Spec => []ExportsApart
<1>1. IInv => ExportsApart
  BY ExportsApartIn
<1> QED BY <1>1, ExchangeInductive, PTL

\* The terms of a session are built from ephemeral keys and identifiers.
LEMMA TermTypes ==
  ASSUME NEW g_y \in EphemeralKeys, NEW m \in Messages1, NEW g
  PROVE  /\ transcript_2(g_y, m) \in Th2s
         /\ hkdf_extract(transcript_2(g_y, m), diffie_hellman(g_y, m.g_x)) \in Prks
         /\ g \in EphemeralKeys =>
              hkdf_extract(transcript_2(g_y, m), diffie_hellman(g, g_y)) \in Prks
<1>1. m.g_x \in EphemeralKeys /\ m.c_i \in Seq(Byte) /\ m = [g_x |-> m.g_x, c_i |-> m.c_i]
  BY WiresType DEF Messages1, EphemeralKeys, Sessions
<1>2. m \in [g_x : EphemeralKeys, c_i : Seq(Byte)]
  BY <1>1
<1>3. transcript_2(g_y, m) \in Th2s
  BY <1>2 DEF transcript_2, Th2s
<1>4. \A x, y \in EphemeralKeys : diffie_hellman(x, y) \in SUBSET EphemeralKeys
  BY DEF diffie_hellman
<1>5. \A th \in Th2s, d \in SUBSET EphemeralKeys : hkdf_extract(th, d) \in Prks
  BY DEF hkdf_extract, Prks
<1> QED BY <1>1, <1>3, <1>4, <1>5

\* A session holds, in each lifecycle, the secrets of that lifecycle and no more.
\* (InitiatorState, ResponderState and their poison)
LEMMA ExchangeTypeIn ==
  ASSUME IInv, AtomsAreNoTerms
  PROVE  ExchangeTypeOK
<1>1. ASSUME NEW i \in Initiators
      PROVE  /\ SharedFields(initiator[i])
             /\ initiator[i].lifecycle \in
                  {"Created", "Message1Created", "PendingMessage2", "Complete", "Failed", "Zeroized"}
             /\ initiator[i].c_r \in ConnectionIds
             /\ initiator[i].th_2 \in Th2s \cup {None}
  <2> DEFINE s == initiator[i]
  <2>1. InitiatorOk(i)
    BY DEF IInv
  <2>2. s.lifecycle \in {"PendingMessage2", "Complete"} =>
          /\ s.th_2 \in Th2s /\ s.prk_3e2m \in Prks /\ s.prk_3e2m # None
    <3> SUFFICES ASSUME s.lifecycle \in {"PendingMessage2", "Complete"}
                 PROVE  /\ s.th_2 \in Th2s /\ s.prk_3e2m \in Prks /\ s.prk_3e2m # None
      OBVIOUS
    <3>1. /\ s.g_y \in EphemeralKeys
          /\ s.th_2 = transcript_2(s.g_y, message_1(i))
          /\ s.prk_3e2m = hkdf_extract(s.th_2, diffie_hellman(i, s.g_y))
      BY <2>1 DEF InitiatorOk
    <3>2. i \in EphemeralKeys /\ message_1(i) \in Messages1
      BY WiresType, RolesApart DEF EphemeralKeys
    <3>3. s.th_2 \in Th2s /\ s.prk_3e2m \in Prks
      BY <3>1, <3>2, TermTypes
    <3>4. s.prk_3e2m # None
      BY <3>1 DEF AtomsAreNoTerms
    <3> QED BY <3>3, <3>4
  <2>3. SharedFields(s)
    BY <2>1, <2>2 DEF InitiatorOk, SharedFields
  <2>4. /\ s.lifecycle \in
             {"Created", "Message1Created", "PendingMessage2", "Complete", "Failed", "Zeroized"}
        /\ s.c_r \in ConnectionIds /\ s.th_2 \in Th2s \cup {None}
    BY <2>1, <2>2 DEF InitiatorOk
  <2> QED BY <2>3, <2>4
<1>2. ASSUME NEW r \in Responders
      PROVE  /\ SharedFields(responder[r])
             /\ responder[r].lifecycle \in
                  {"Created", "AwaitingMessage3", "PendingMessage3", "Complete", "Failed", "Zeroized"}
             /\ responder[r].c_i \in ConnectionIds
  <2> DEFINE s == responder[r]
  <2>1. ResponderOk(r)
    BY DEF IInv
  <2>2. s.lifecycle \in {"AwaitingMessage3", "PendingMessage3", "Complete"} =>
          s.prk_3e2m \in Prks /\ s.prk_3e2m # None
    <3> SUFFICES ASSUME s.lifecycle \in {"AwaitingMessage3", "PendingMessage3", "Complete"}
                 PROVE  s.prk_3e2m \in Prks /\ s.prk_3e2m # None
      OBVIOUS
    <3>1. PICK m \in Messages1 : s.prk_3e2m = Prk(r, m)
      BY <2>1 DEF ResponderOk
    <3>2. r \in EphemeralKeys
      BY RolesApart DEF EphemeralKeys
    <3>3. s.prk_3e2m = hkdf_extract(transcript_2(r, m), diffie_hellman(r, m.g_x))
      BY <3>1 DEF Prk
    <3>4. s.prk_3e2m # None
      BY <3>3 DEF AtomsAreNoTerms
    <3> QED BY <3>2, <3>3, <3>4, TermTypes
  <2>3. SharedFields(s)
    BY <2>1, <2>2 DEF ResponderOk, SharedFields
  <2>4. /\ s.lifecycle \in
             {"Created", "AwaitingMessage3", "PendingMessage3", "Complete", "Failed", "Zeroized"}
        /\ s.c_i \in ConnectionIds
    BY <2>1 DEF ResponderOk
  <2> QED BY <2>3, <2>4
<1>3. disturbed \subseteq Sessions
  BY DEF IInv, Shape
<1> QED BY <1>1, <1>2, <1>3 DEF ExchangeTypeOK

\* Every field of every session holds a term of its type, after any calls and
\* any damage.  (InitiatorState, ResponderState and their pending messages)
THEOREM ExchangeTypeHolds ==
  ASSUME AtomsAreNoTerms
  PROVE  Spec => []ExchangeTypeOK
<1>1. IInv => ExchangeTypeOK
  BY ExchangeTypeIn
<1> QED BY <1>1, ExchangeInductive, PTL

-----------------------------------------------------------------------------
\* The sessions do what KeyAgreement promises.

GaveUp == {"Failed", "Zeroized"}

\* A step of a session changes no other, and what is given up stays so.
LEMMA InitiatorAlone ==
  ASSUME IInv, NEW i \in Initiators, InitiatorStep(i)
  PROVE  /\ UNCHANGED responder
         /\ \A j \in Initiators : j # i => initiator'[j] = initiator[j]
         /\ initiator[i].lifecycle \in GaveUp => initiator'[i].lifecycle \in GaveUp
<1> USE DEF GaveUp
<1>1. initiator = [j \in Initiators |-> initiator[j]] /\ IsInitiatorState(initiator[i])
  BY DEF IInv, Shape
<1>2. \A lifecycle : WipeInitiator(initiator[i], lifecycle).lifecycle = lifecycle
  BY DEF WipeInitiator, FreshInitiator
<1>3. CASE CreateMessage1(i)
  BY <1>1, <1>3 DEF CreateMessage1, create_message_1, responderVars
<1>4. CASE ReceiveSuitesError(i)
  BY <1>1, <1>2, <1>4 DEF ReceiveSuitesError, receive_suites_error, PoisonInitiator, responderVars
<1>5. ASSUME NEW m \in Received2, BeginMessage2(i, m)
      PROVE  /\ UNCHANGED responder
             /\ \A j \in Initiators : j # i => initiator'[j] = initiator[j]
             /\ initiator[i].lifecycle \notin GaveUp
  <2>1. initiator[i].lifecycle \notin GaveUp /\ UNCHANGED responder
    BY <1>5 DEF BeginMessage2, begin_process_message_2, AwaitsMessage2, responderVars
  <2>2. \E s : initiator' = [initiator EXCEPT ![i] = s]
    BY <1>5 DEF BeginMessage2, begin_process_message_2, PoisonInitiator
  <2> QED BY <1>1, <2>1, <2>2
<1>6. ASSUME NEW p, NEW peer, FinishMessage2(i, p, peer)
      PROVE  /\ UNCHANGED responder
             /\ \A j \in Initiators : j # i => initiator'[j] = initiator[j]
             /\ initiator[i].lifecycle \notin GaveUp
  <2>1. initiator[i].lifecycle \notin GaveUp /\ UNCHANGED responder
    BY <1>6 DEF FinishMessage2, finish_process_message_2, CanFinishMessage2, responderVars
  <2>2. \E s : initiator' = [initiator EXCEPT ![i] = s]
    BY <1>6 DEF FinishMessage2, finish_process_message_2, PoisonInitiator
  <2> QED BY <1>1, <2>1, <2>2
<1>7. CASE DropMessage2(i)
  BY <1>7 DEF DropMessage2, drop_pending_message_2, responderVars
<1>8. CASE ZeroizeInitiator(i)
  BY <1>1, <1>2, <1>8 DEF ZeroizeInitiator, zeroize_initiator, responderVars
<1> QED BY <1>3, <1>4, <1>5, <1>6, <1>7, <1>8 DEF InitiatorStep

LEMMA ResponderAlone ==
  ASSUME IInv, NEW r \in Responders, ResponderStep(r)
  PROVE  /\ UNCHANGED initiator
         /\ \A q \in Responders : q # r => responder'[q] = responder[q]
         /\ responder[r].lifecycle \in GaveUp => responder'[r].lifecycle \in GaveUp
<1> USE DEF GaveUp
<1>1. responder = [q \in Responders |-> responder[q]] /\ IsResponderState(responder[r])
  BY DEF IInv, Shape
<1>2. \A lifecycle : WipeResponder(responder[r], lifecycle).lifecycle = lifecycle
  BY DEF WipeResponder, FreshResponder
<1>3. ASSUME NEW m \in Received1, ProcessMessage1(r, m) \/ RefuseMessage1(r, m)
      PROVE  /\ UNCHANGED initiator
             /\ \A q \in Responders : q # r => responder'[q] = responder[q]
             /\ responder[r].lifecycle \notin GaveUp
  <2>1. responder[r].lifecycle \notin GaveUp /\ UNCHANGED initiator
    BY <1>3 DEF ProcessMessage1, process_message_1, RefuseMessage1, refuse_own_identifier,
                refuse_low_order, CanProcessMessage1, initiatorVars
  <2>2. \E s : responder' = [responder EXCEPT ![r] = s]
    BY <1>3 DEF ProcessMessage1, process_message_1, RefuseMessage1, refuse_own_identifier,
                refuse_low_order, PoisonResponder
  <2> QED BY <1>1, <2>1, <2>2
<1>4. ASSUME NEW m \in Received3, BeginMessage3(r, m)
      PROVE  /\ UNCHANGED initiator
             /\ \A q \in Responders : q # r => responder'[q] = responder[q]
             /\ responder[r].lifecycle \notin GaveUp
  <2>1. responder[r].lifecycle \notin GaveUp /\ UNCHANGED initiator
    BY <1>4 DEF BeginMessage3, begin_process_message_3, initiatorVars
  <2>2. \E s : responder' = [responder EXCEPT ![r] = s]
    BY <1>4 DEF BeginMessage3, begin_process_message_3, PoisonResponder
  <2> QED BY <1>1, <2>1, <2>2
<1>5. ASSUME NEW p, NEW peer, FinishMessage3(r, p, peer)
      PROVE  /\ UNCHANGED initiator
             /\ \A q \in Responders : q # r => responder'[q] = responder[q]
             /\ responder[r].lifecycle \in GaveUp => responder'[r].lifecycle \in GaveUp
  <2>1. UNCHANGED initiator /\ \E s : responder' = [responder EXCEPT ![r] = s]
    BY <1>5 DEF FinishMessage3, finish_process_message_3, PoisonResponder, initiatorVars
  <2>2. responder[r].lifecycle = "PendingMessage3" \/ PoisonResponder(r)
    BY <1>5 DEF FinishMessage3, finish_process_message_3
  <2>3. PoisonResponder(r) => responder'[r].lifecycle \in GaveUp
    BY <1>1, <1>2 DEF PoisonResponder
  <2> QED BY <1>1, <2>1, <2>2, <2>3
<1>6. CASE DropMessage3(r)
  BY <1>6 DEF DropMessage3, drop_pending_message_3, initiatorVars
<1>7. CASE ZeroizeResponder(r)
  BY <1>1, <1>2, <1>7 DEF ZeroizeResponder, zeroize_responder, initiatorVars
<1> QED BY <1>3, <1>4, <1>5, <1>6, <1>7 DEF ResponderStep

SessionStep(s) ==
  \/ s \in Initiators /\ InitiatorStep(s)
  \/ s \in Responders /\ ResponderStep(s)

LEMMA StepsAreSessions ==
  /\ \A i \in Initiators : i \in Sessions /\ (InitiatorStep(i) => SessionStep(i))
  /\ \A r \in Responders : r \in Sessions /\ (ResponderStep(r) => SessionStep(r))
  BY RolesApart DEF SessionStep

LEMMA GivenUpGrows ==
  ASSUME IInv, NEW s \in Sessions,
         SessionStep(s)
  PROVE  GivenUp' \in {GivenUp, GivenUp \cup {s}}
<1> USE DEF SessionStep
<1>1. CASE s \in Initiators /\ InitiatorStep(s)
  <2>1. /\ UNCHANGED responder
        /\ \A j \in Initiators : j # s => initiator'[j] = initiator[j]
        /\ initiator[s].lifecycle \in GaveUp => initiator'[s].lifecycle \in GaveUp
    BY <1>1, InitiatorAlone
  <2>2. GivenUp = {i \in Initiators : initiator[i].lifecycle \in GaveUp} \cup
                    {r \in Responders : responder[r].lifecycle \in GaveUp}
        /\ GivenUp' = {i \in Initiators : initiator'[i].lifecycle \in GaveUp} \cup
                    {r \in Responders : responder'[r].lifecycle \in GaveUp}
    BY DEF GivenUp, GaveUp
  <2> QED BY <1>1, <2>1, <2>2
<1>2. CASE s \in Responders /\ ResponderStep(s)
  <2>1. /\ UNCHANGED initiator
        /\ \A j \in Responders : j # s => responder'[j] = responder[j]
        /\ responder[s].lifecycle \in GaveUp => responder'[s].lifecycle \in GaveUp
    BY <1>2, ResponderAlone
  <2>2. GivenUp = {i \in Initiators : initiator[i].lifecycle \in GaveUp} \cup
                    {r \in Responders : responder[r].lifecycle \in GaveUp}
        /\ GivenUp' = {i \in Initiators : initiator'[i].lifecycle \in GaveUp} \cup
                    {r \in Responders : responder'[r].lifecycle \in GaveUp}
    BY DEF GivenUp, GaveUp
  <2> QED BY <1>2, <2>1, <2>2
<1> QED BY <1>1, <1>2

\* Who completes takes somebody; nothing else does.
LEMMA AgreeTakes ==
  ASSUME IInv, IInv', AtomsAreNoTerms, NEW s \in Sessions, NEW peer \in Sessions,
         NEW credential, NEW context,
         agreed[s] = None,
         agreed' = [agreed EXCEPT ![s] =
                     [peer |-> peer, credential |-> credential, context |-> context]]
  PROVE  Partner[s] = None /\ Partner' = [Partner EXCEPT ![s] = peer]
<1> DEFINE held == [peer |-> peer, credential |-> credential, context |-> context]
<1>1. held # None /\ held.peer = peer
  BY DEF AtomsAreNoTerms
<1> HIDE DEF held
<1>2. /\ agreed'[s] = held
      /\ \A t \in Sessions : t # s => agreed'[t] = agreed[t]
  BY DEF held, IInv, Shape
<1>3. /\ Partner'[s] = peer
      /\ \A t \in Sessions : t # s => Partner'[t] = Partner[t]
      /\ Partner[s] = None
      /\ Partner = [t \in Sessions |-> Partner[t]]
      /\ Partner' = [t \in Sessions |-> Partner'[t]]
  BY <1>1, <1>2 DEF Partner
<1> QED BY <1>3

LEMMA KeepsPartners ==
  ASSUME IInv, NEW s \in Sessions,
         SessionStep(s),
         UNCHANGED agreed
  PROVE  [Abstract!Next]_(Abstract!vars)
<1>1. UNCHANGED Partner
  BY DEF Partner
<1>2. GivenUp' \in {GivenUp, GivenUp \cup {s}}
  BY GivenUpGrows
<1> QED BY <1>1, <1>2 DEF Abstract!Next, Abstract!GiveUp, Abstract!vars, Abstract!Sessions, Sessions

LEMMA CompleteHasNotGivenUp ==
  /\ \A i \in Initiators : i \in GivenUp <=> initiator[i].lifecycle \in {"Failed", "Zeroized"}
  /\ \A r \in Responders : r \in GivenUp <=> responder[r].lifecycle \in {"Failed", "Zeroized"}
  BY RolesApart DEF GivenUp

\* Finishing message 2 is a stutter, giving up, or taking the responder that
\* answered, which no other initiator has: it answered one message 1.
LEMMA InitiatorTakesOne ==
  ASSUME IInv, IInv', AtomsAreNoTerms, NEW i \in Initiators, NEW j \in Initiators,
         NEW p, NEW peer \in Credentials, InitiatorStep(i),
         p = pending_message_2[j], p # None, FinishMessage2(i, p, peer)
  PROVE  [Abstract!Next]_(Abstract!vars)
<1>1. CASE UNCHANGED agreed
  BY <1>1, KeepsPartners, StepsAreSessions
<1>2. CASE agreed' # agreed
  <2>1. /\ export_oscore_initiator(i)' # None
        /\ agreed' = [agreed EXCEPT ![i] =
                       [peer |-> initiator[i].g_y, credential |-> peer,
                        context |-> export_oscore_initiator(i)']]
        /\ initiator[i].lifecycle = "PendingMessage2"
        /\ CanFinishMessage2(i, p, peer)
    BY <1>2 DEF FinishMessage2, Agree, finish_process_message_2, CanFinishMessage2
  <2>2. initiator'[i].completed
    BY <2>1 DEF export_oscore_initiator
  <2>3. initiator'[i].lifecycle = "Complete"
    BY <2>2 DEF IInv, InitiatorOk
  <2>4. Verified2(i, p, peer)
    <3> SUFFICES ASSUME ~Verified2(i, p, peer) PROVE FALSE
      OBVIOUS
    <3>1. initiator'[i] = WipeInitiator(initiator[i], "Failed")
      BY DEF FinishMessage2, finish_process_message_2, PoisonInitiator, IInv, Shape
    <3>2. initiator'[i].lifecycle = "Failed"
      BY <3>1 DEF WipeInitiator, FreshInitiator
    <3> QED BY <2>3, <3>2
  <2>5. PICK r \in Responders :
          initiator[i].g_y = r /\ Message2(r, message_1(i)) \in sent[2]
    BY <2>1, <2>4, Verified2Says
  <2>6. agreed[i] = None
    BY <2>1 DEF IInv, InitiatorOk
  <2>7. Partner[i] = None /\ Partner' = [Partner EXCEPT ![i] = r]
    BY <2>1, <2>5, <2>6, AgreeTakes, RolesApart
  <2>8. \A k \in Initiators : Partner[k] # r
    <3> SUFFICES ASSUME NEW k \in Initiators, Partner[k] = r PROVE FALSE
      OBVIOUS
    <3>1. agreed[k] # None /\ agreed[k].peer = r
      BY RolesApart, SessionAssumption DEF Partner
    <3>2. PICK q, th_3 :
            q \in Responders /\ agreed[k] = InitiatorHolds(k, q, th_3) /\ Message2(q, message_1(k)) \in sent[2]
      BY <3>1, InitiatorHalf
    <3>3. q = r
      BY <3>1, <3>2, HoldParts
    <3>4. message_1(k) = message_1(i)
      BY <2>5, <3>2, <3>3, WiresType DEF IInv, Sent2Sound
    <3>5. k = i
      BY <3>4, MessageParts
    <3> QED BY <2>6, <3>1, <3>5
  <2>9. i \notin GivenUp /\ i \notin GivenUp'
    BY <2>1, <2>3, CompleteHasNotGivenUp, RolesApart DEF GivenUp
  <2>10. UNCHANGED GivenUp
    BY <2>9, GivenUpGrows, StepsAreSessions
  <2>11. Abstract!InitiatorTakes(i, r)
    BY <2>7, <2>8, <2>9, <2>10 DEF Abstract!InitiatorTakes, Abstract!Take
  <2> QED BY <2>11 DEF Abstract!Next
<1> QED BY <1>1, <1>2

LEMMA ResponderTakesBack ==
  ASSUME IInv, IInv', AtomsAreNoTerms, NEW r \in Responders, NEW q \in Responders,
         NEW p, NEW peer \in Credentials, ResponderStep(r),
         p = pending_message_3[q], p # None, FinishMessage3(r, p, peer)
  PROVE  [Abstract!Next]_(Abstract!vars)
<1>1. CASE UNCHANGED agreed
  BY <1>1, KeepsPartners, StepsAreSessions
<1>2. CASE agreed' # agreed
  <2>1. /\ export_oscore_responder(r)' # None
        /\ agreed' = [agreed EXCEPT ![r] =
                       [peer |-> responder[r].g_x, credential |-> peer,
                        context |-> export_oscore_responder(r)']]
    BY <1>2 DEF FinishMessage3, Agree
  <2>2. responder'[r].completed
    BY <2>1 DEF export_oscore_responder
  <2>3. responder'[r].lifecycle = "Complete"
    BY <2>2 DEF IInv, ResponderOk
  <2>4. responder[r].lifecycle = "PendingMessage3" /\ Verified3(r, p, peer)
    <3> SUFFICES ASSUME PoisonResponder(r) PROVE FALSE
      BY DEF FinishMessage3, finish_process_message_3
    <3>1. responder'[r] = WipeResponder(responder[r], "Failed")
      BY DEF PoisonResponder, IInv, Shape
    <3>2. responder'[r].lifecycle = "Failed"
      BY <3>1 DEF WipeResponder, FreshResponder
    <3> QED BY <2>3, <3>2
  <2>5. PICK i \in Initiators :
          /\ responder[r].g_x = i
          /\ agreed[i] = InitiatorHolds(i, r, Th3Made(r, message_1(i)))
    BY <2>4, Verified3Says
  <2>6. agreed[r] = None
    BY <2>4 DEF IInv, ResponderOk
  <2>7. Partner[r] = None /\ Partner' = [Partner EXCEPT ![r] = i]
    BY <2>1, <2>5, <2>6, AgreeTakes, RolesApart
  <2>8. Partner[i] = r
    <3>1. agreed[i] # None
      BY <2>5 DEF InitiatorHolds, AtomsAreNoTerms
    <3>2. agreed[i].peer = r
      BY <2>5, HoldParts
    <3> QED BY <3>1, <3>2, RolesApart DEF Partner
  <2>9. r \notin GivenUp /\ r \notin GivenUp'
    BY <2>3, <2>4, CompleteHasNotGivenUp, RolesApart DEF GivenUp
  <2>10. UNCHANGED GivenUp
    BY <2>9, GivenUpGrows, StepsAreSessions
  <2>11. Abstract!ResponderTakes(r, i)
    BY <2>7, <2>8, <2>9, <2>10 DEF Abstract!ResponderTakes, Abstract!Take
  <2> QED BY <2>11 DEF Abstract!Next
<1> QED BY <1>1, <1>2

LEMMA StepRefines ==
  ASSUME IInv, IInv', AtomsAreNoTerms, [Next]_vars
  PROVE  [Abstract!Next]_(Abstract!vars)
<1>1. CASE UNCHANGED vars
  BY <1>1 DEF vars, initiatorVars, responderVars, historyVars, Partner, GivenUp, Abstract!vars
<1>2. ASSUME NEW i \in Initiators, InitiatorStep(i)
      PROVE  [Abstract!Next]_(Abstract!vars)
  <2>1. CASE UNCHANGED agreed
    BY <1>2, <2>1, KeepsPartners, StepsAreSessions
  <2>2. ASSUME NEW j \in Initiators, NEW peer \in Credentials,
               pending_message_2[j] # None, FinishMessage2(i, pending_message_2[j], peer)
        PROVE  [Abstract!Next]_(Abstract!vars)
    <3>1. PICK p : p = pending_message_2[j]
      OBVIOUS
    <3> QED BY <1>2, <2>2, <3>1, InitiatorTakesOne
  <2> QED BY <1>2, <2>1, <2>2 DEF InitiatorStep, CreateMessage1, ReceiveSuitesError,
          BeginMessage2, DropMessage2, ZeroizeInitiator, historyVars
<1>3. ASSUME NEW r \in Responders, ResponderStep(r)
      PROVE  [Abstract!Next]_(Abstract!vars)
  <2>1. CASE UNCHANGED agreed
    BY <1>3, <2>1, KeepsPartners, StepsAreSessions
  <2>2. ASSUME NEW q \in Responders, NEW peer \in Credentials,
               pending_message_3[q] # None, FinishMessage3(r, pending_message_3[q], peer)
        PROVE  [Abstract!Next]_(Abstract!vars)
    <3>1. PICK p : p = pending_message_3[q]
      OBVIOUS
    <3> QED BY <1>3, <2>2, <3>1, ResponderTakesBack
  <2> QED BY <1>3, <2>1, <2>2 DEF ResponderStep, ProcessMessage1, RefuseMessage1,
          BeginMessage3, DropMessage3, ZeroizeResponder, historyVars
<1> QED BY <1>1, <1>2, <1>3 DEF Next

\* Whatever the network damages and the applications mix up, an initiator takes
\* a responder nobody else has, a responder takes the initiator that took it,
\* nobody takes twice, and who gave up never does.
\* (the lifecycles of initiator.rs and responder.rs)
THEOREM AgreesOnKeysHolds ==
  ASSUME AtomsAreNoTerms
  PROVE  Spec => AgreesOnKeys
<1>1. Init => Abstract!Init
  BY DEF Init, InitiatorInit, ResponderInit, FreshInitiator, FreshResponder,
         Partner, GivenUp, Abstract!Init, Abstract!Sessions, Sessions
<1>2. IInv /\ IInv' /\ [Next]_vars => [Abstract!Next]_(Abstract!vars)
  BY StepRefines
<1>3. Spec => []IInv
  BY ExchangeInductive
<1> QED BY <1>1, <1>2, <1>3, PTL DEF Spec, AgreesOnKeys, Abstract!Spec

-----------------------------------------------------------------------------
\* Only disturbed sessions fail.

\* Every identifier reads back as itself: none is a byte that CBOR reads as a
\* negative integer, the case in which the code differs.
IdsReadBack ==
  /\ \A s \in Sessions : Faithful(Id[s])
  /\ \A id, consumed : Unreadable # [id |-> id, consumed |-> consumed]

\* What an undisturbed session has pending is what its peer sent.
Calm2(i) ==
  i \notin disturbed =>
    /\ initiator[i].lifecycle # "Failed"
    /\ initiator[i].lifecycle = "PendingMessage2" =>
         \E r \in Responders :
           /\ initiator[i].g_y = r
           /\ Message2(r, message_1(i)) \in sent[2]
           /\ pending_message_2[i] =
                PendingMessage2(Plaintext2(r, message_1(i)), Id[r], Th2(i, r))

Calm3(r) ==
  r \notin disturbed =>
    /\ responder[r].lifecycle # "Failed"
    /\ responder[r].lifecycle = "PendingMessage3" =>
         \E i \in Initiators :
           LET th_3 == Th3Made(r, message_1(i))
           IN  /\ responder[r].g_x = i
               /\ responder[r].prk_3e2m = PrkOf(i, r)
               /\ responder[r].th_3 = th_3
               /\ pending_message_3[r] = PendingMessage3(Plain3(i, r, th_3), th_3)

CalmInv == (\A i \in Initiators : Calm2(i)) /\ (\A r \in Responders : Calm3(r))

LEMMA ReadBack ==
  ASSUME IdsReadBack, NEW s \in Sessions
  PROVE  /\ parse_identifier(encode_identifier(Id[s])) # Unreadable
         /\ parse_identifier(encode_identifier(Id[s])).id = Id[s]
<1> DEFINE w == encode_identifier(Id[s])
<1>1. Id[s] \in ConnectionIds /\ w \in Seq(Byte) /\ <<>> \in Seq(Byte)
  BY WiresType, EncodedType
<1>2. w \o <<>> = w
  BY <1>1, ConcatEmptySeq
<1>3. parse_identifier(w \o <<>>) = [id |-> Id[s], consumed |-> Len(w)]
  BY <1>1, RoundTripAlways DEF IdsReadBack
<1>4. parse_identifier(w) = [id |-> Id[s], consumed |-> Len(w)]
  BY <1>2, <1>3
<1> QED BY <1>4 DEF IdsReadBack

\* Both ends of a handshake derive the same key.
LEMMA SamePrk ==
  ASSUME NEW i, NEW r
  PROVE  Prk(r, message_1(i)) = PrkOf(i, r)
<1>1. diffie_hellman(r, i) = diffie_hellman(i, r)
  BY DEF diffie_hellman
<1>2. Prk(r, message_1(i)) = hkdf_extract(Th2(i, r), diffie_hellman(r, i))
  BY MessageParts DEF Prk, Th2
<1> QED BY <1>1, <1>2 DEF PrkOf

\* A message 2 that answers an initiator opens.
\* (begin_process_message_2)
LEMMA AnswerOpens2 ==
  ASSUME IInv, IdsReadBack, NEW i \in Initiators, NEW m, AnswersInitiator(i, m)
  PROVE  \E r \in Responders :
           /\ m = Message2(r, message_1(i)) /\ m \in sent[2]
           /\ m.g_y = r /\ m.plaintext = Plaintext2(r, message_1(i))
           /\ m.prk = hkdf_extract(transcript_2(m.g_y, message_1(i)), diffie_hellman(i, m.g_y))
           /\ parse_identifier(m.plaintext.c_r) # Unreadable
           /\ parse_identifier(m.plaintext.c_r).id = Id[r]
           /\ Id[r] # Id[i]
<1>1. m \in sent[2] /\ m.prk.th_2.msg1 = message_1(i)
  BY DEF AnswersInitiator
<1>2. PICK r \in Responders, m1 \in Messages1 : m = Message2(r, m1)
  BY <1>1 DEF IInv, Sent2Sound
<1>3. m1 = message_1(i)
  <2>1. m.prk.th_2 = transcript_2(r, m1)
    BY <1>2, MessageParts
  <2> QED BY <1>1, <2>1, HashParts
<1>4. m = Message2(r, message_1(i)) /\ message_1(i) \in Messages1
  BY <1>2, <1>3
<1>5. m.g_y = r /\ m.plaintext = Plaintext2(r, message_1(i)) /\ m.prk = PrkOf(i, r)
  BY <1>4, MessageParts, SamePrk
<1>6. m.plaintext.c_r = encode_identifier(Id[r])
  BY <1>5, Plaintext2Parts
<1>7. Id[r] # Id[i]
  <2>1. /\ parse_c_i(message_1(i).c_i) # Unreadable
        /\ parse_c_i(message_1(i).c_i) # Id[r]
    BY <1>1, <1>4 DEF IInv, Sent2Sound
  <2>2. message_1(i).c_i = encode_identifier(Id[i]) /\ Id[i] \in ConnectionIds
    BY MessageParts, WiresType, RolesApart
  <2> QED BY <2>1, <2>2, ResponderNeverMisreads
<1>8. m.prk = hkdf_extract(transcript_2(m.g_y, message_1(i)), diffie_hellman(i, m.g_y))
  BY <1>5 DEF PrkOf, Th2
<1> QED BY <1>1, <1>4, <1>5, <1>6, <1>7, <1>8, ReadBack, RolesApart

\* A message 3 that answers a responder opens, and holds what its initiator signed.
\* (begin_process_message_3)
LEMMA AnswerOpens3 ==
  ASSUME IInv, IdsReadBack, AtomsAreNoTerms, NEW r \in Responders, NEW m,
         AnswersResponder(r, m), responder[r].lifecycle = "AwaitingMessage3"
  PROVE  \E i \in Initiators :
           /\ responder[r].g_x = i
           /\ responder[r].prk_3e2m = PrkOf(i, r)
           /\ responder[r].th_3 = Th3Made(r, message_1(i))
           /\ m.plaintext = Plain3(i, r, Th3Made(r, message_1(i)))
           /\ m.k_3 = edhoc_kdf(responder[r].prk_3e2m, "K_3", responder[r].th_3)
<1>1. m \in sent[3] /\ m.k_3.prk.th_2.g_y = r
  BY DEF AnswersResponder
<1>2. PICK i \in Initiators, o \in Responders, read \in Plaintexts2 :
        /\ m = message_3(PrkOf(i, o), Th3Read(i, o, read), Plain3(i, o, Th3Read(i, o, read)))
        /\ agreed[i] = InitiatorHolds(i, o, Th3Read(i, o, read))
  BY <1>1 DEF IInv, Sent3Sound
<1> DEFINE t == Th3Read(i, o, read)
<1>3. m.k_3 = edhoc_kdf(PrkOf(i, o), "K_3", t) /\ m.plaintext = Plain3(i, o, t)
  <2> HIDE DEF t
  <2>1. m = message_3(PrkOf(i, o), t, Plain3(i, o, t))
    BY <1>2 DEF t
  <2> QED BY <2>1, MessageParts
<1>4. o = r
  <2>1. m.k_3.prk = PrkOf(i, o)
    BY <1>3, KeyParts
  <2>2. PrkOf(i, o).th_2 = Th2(i, o)
    BY KeyParts DEF PrkOf
  <2>3. Th2(i, o).g_y = o
    BY HashParts DEF Th2
  <2> QED BY <1>1, <2>1, <2>2, <2>3
<1>5. agreed[i] # None
  BY <1>2 DEF InitiatorHolds, AtomsAreNoTerms
<1>6. PICK q \in Responders, plaintext \in Plaintexts2 :
        /\ Message2(q, message_1(i)) \in sent[2]
        /\ parse_identifier(plaintext.c_r) # Unreadable
        /\ parse_identifier(plaintext.c_r).id = Id[q]
        /\ plaintext.id_cred = IdCred[Self[q]]
        /\ plaintext.signature = Plaintext2(q, message_1(i)).signature
        /\ agreed[i] = InitiatorHolds(i, q, Th3Read(i, q, plaintext))
  BY <1>5 DEF IInv, InitiatorAgreed
<1> DEFINE u == Th3Read(i, q, plaintext)
<1>7. q = r
  <2> HIDE DEF t, u
  <2>1. InitiatorHolds(i, o, t) = InitiatorHolds(i, q, u)
    BY <1>2, <1>6 DEF t, u
  <2>2. InitiatorHolds(i, o, t).peer = o /\ InitiatorHolds(i, q, u).peer = q
    BY HoldParts
  <2> QED BY <1>4, <2>1, <2>2
<1>8. t = u
  <2> HIDE DEF t, u
  <2>1. InitiatorHolds(i, o, t) = InitiatorHolds(i, q, u)
    BY <1>2, <1>6 DEF t, u
  <2>2. MasterOf(i, o, Th4Of(i, o, t)) = MasterOf(i, q, Th4Of(i, q, u))
    <3>1. /\ InitiatorHolds(i, o, t).context.master = MasterOf(i, o, Th4Of(i, o, t))
          /\ InitiatorHolds(i, q, u).context.master = MasterOf(i, q, Th4Of(i, q, u))
      BY HoldParts
    <3> QED BY <2>1, <3>1
  <2>3. Th4Of(i, o, t) = Th4Of(i, q, u)
    <3>1. \A a, b, th : MasterOf(a, b, th).context = th
      BY KeyParts DEF MasterOf
    <3> QED BY <2>2, <3>1
  <2>4. Th4Of(i, o, t).th_3 = t /\ Th4Of(i, q, u).th_3 = u
    BY HashParts DEF Th4Of
  <2> QED BY <2>3, <2>4
<1>9. plaintext = Plaintext2(q, message_1(i))
  <2>1. plaintext.c_r = encode_identifier(Id[q])
    <3>1. PICK s \in Sessions : plaintext.c_r = encode_identifier(Id[s])
      BY DEF Plaintexts2, Wires
    <3>2. Id[s] = Id[q]
      BY <1>6, <3>1, ReadBack
    <3> QED BY <3>1, <3>2
  <2>2. plaintext = [c_r |-> plaintext.c_r, id_cred |-> plaintext.id_cred,
                     signature |-> plaintext.signature]
    BY DEF Plaintexts2
  <2> DEFINE made == Plaintext2(q, message_1(i))
  <2>3. /\ made.c_r = encode_identifier(Id[q]) /\ made.id_cred = IdCred[Self[q]]
        /\ made = [c_r |-> made.c_r, id_cred |-> made.id_cred, signature |-> made.signature]
    BY Plaintext2Parts
  <2>4. plaintext.signature = made.signature /\ plaintext.id_cred = IdCred[Self[q]]
    BY <1>6
  <2> HIDE DEF made
  <2>5. plaintext = made
    BY <2>1, <2>2, <2>3, <2>4
  <2> QED BY <2>5 DEF made
<1>10. u = Th3Made(r, message_1(i))
  BY <1>7, <1>9 DEF Th3Read, Th3Made, Th2
<1>11. PICK m1 \in Messages1 :
         /\ Message2(r, m1) \in sent[2]
         /\ responder[r].g_x = m1.g_x
         /\ responder[r].prk_3e2m = Prk(r, m1)
         /\ responder[r].th_3 = Th3Made(r, m1)
  BY DEF IInv, ResponderOk
<1>12. m1 = message_1(i)
  BY <1>6, <1>7, <1>11, WiresType DEF IInv, Sent2Sound
<1> DEFINE msg1 == message_1(i)
           th_3 == Th3Made(r, msg1)
<1>13. /\ responder[r].g_x = i /\ responder[r].prk_3e2m = PrkOf(i, r)
       /\ responder[r].th_3 = th_3
  <2>1. m1 = msg1 /\ msg1.g_x = i /\ Prk(r, msg1) = PrkOf(i, r)
    BY <1>12, MessageParts, SamePrk
  <2> HIDE DEF msg1
  <2> QED BY <1>11, <2>1
<1>14. t = th_3
  BY <1>8, <1>10
<1> HIDE DEF t, th_3
<1>15. m.k_3 = edhoc_kdf(PrkOf(i, r), "K_3", th_3) /\ m.plaintext = Plain3(i, r, th_3)
  BY <1>3, <1>4, <1>14
<1> QED BY <1>13, <1>15 DEF th_3

\* Messages stay sent, and who was disturbed stays so.
LEMMA NothingForgotten ==
  ASSUME IInv, NEW s \in Sessions, SessionStep(s)
  PROVE  disturbed \subseteq disturbed' /\ sent[2] \subseteq sent'[2]
<1>1. ASSUME NEW n \in 1..3, NEW m, Send(n, m) PROVE sent[2] \subseteq sent'[2]
  BY <1>1 DEF Send, IInv, Shape
<1>2. ASSUME NEW x, NEW proper, DisturbedUnless(x, proper) PROVE disturbed \subseteq disturbed'
  BY <1>2 DEF DisturbedUnless
<1>3. ASSUME NEW i \in Initiators, InitiatorStep(i)
      PROVE  disturbed \subseteq disturbed' /\ sent[2] \subseteq sent'[2]
  <2>1. CASE CreateMessage1(i)
    BY <1>1, <2>1 DEF CreateMessage1, historyVars
  <2>2. CASE ReceiveSuitesError(i) \/ DropMessage2(i) \/ ZeroizeInitiator(i)
    BY <2>2 DEF ReceiveSuitesError, DropMessage2, ZeroizeInitiator, historyVars
  <2>3. ASSUME NEW m, BeginMessage2(i, m)
        PROVE  disturbed \subseteq disturbed' /\ sent[2] \subseteq sent'[2]
    BY <1>2, <2>3 DEF BeginMessage2
  <2>4. ASSUME NEW p, NEW peer, FinishMessage2(i, p, peer)
        PROVE  disturbed \subseteq disturbed' /\ sent[2] \subseteq sent'[2]
    <3>1. disturbed \subseteq disturbed'
      BY <1>2, <2>4 DEF FinishMessage2
    <3>2. (\E m : Send(3, m)) \/ UNCHANGED sent
      BY <2>4 DEF FinishMessage2
    <3> QED BY <1>1, <3>1, <3>2
  <2> QED BY <1>3, <2>1, <2>2, <2>3, <2>4 DEF InitiatorStep
<1>4. ASSUME NEW r \in Responders, ResponderStep(r)
      PROVE  disturbed \subseteq disturbed' /\ sent[2] \subseteq sent'[2]
  <2>1. ASSUME NEW m, ProcessMessage1(r, m)
        PROVE  disturbed \subseteq disturbed' /\ sent[2] \subseteq sent'[2]
    BY <1>1, <1>2, <2>1 DEF ProcessMessage1
  <2>2. ASSUME NEW m, RefuseMessage1(r, m)
        PROVE  disturbed \subseteq disturbed' /\ sent[2] \subseteq sent'[2]
    BY <2>2 DEF RefuseMessage1
  <2>3. ASSUME NEW m, BeginMessage3(r, m)
        PROVE  disturbed \subseteq disturbed' /\ sent[2] \subseteq sent'[2]
    BY <1>2, <2>3 DEF BeginMessage3
  <2>4. ASSUME NEW p, NEW peer, FinishMessage3(r, p, peer)
        PROVE  disturbed \subseteq disturbed' /\ sent[2] \subseteq sent'[2]
    BY <1>2, <2>4 DEF FinishMessage3
  <2>5. CASE DropMessage3(r) \/ ZeroizeResponder(r)
    BY <2>5 DEF DropMessage3, ZeroizeResponder, historyVars
  <2> QED BY <1>4, <2>1, <2>2, <2>3, <2>4, <2>5 DEF ResponderStep
<1> QED BY <1>3, <1>4 DEF SessionStep

\* A session that takes no step is as calm as before.
LEMMA InitiatorStaysCalm ==
  ASSUME NEW i \in Initiators, Calm2(i),
         initiator'[i] = initiator[i], pending_message_2'[i] = pending_message_2[i],
         disturbed \subseteq disturbed', sent[2] \subseteq sent'[2]
  PROVE  Calm2(i)'
  BY DEF Calm2

LEMMA ResponderStaysCalm ==
  ASSUME NEW r \in Responders, Calm3(r),
         responder'[r] = responder[r], pending_message_3'[r] = pending_message_3[r],
         disturbed \subseteq disturbed'
  PROVE  Calm3(r)'
  BY DEF Calm3

LEMMA CalmBeginMessage2 ==
  ASSUME IInv, IdsReadBack, NEW i \in Initiators, Calm2(i), NEW m, BeginMessage2(i, m)
  PROVE  Calm2(i)'
<1> SUFFICES ASSUME i \notin disturbed' PROVE Calm2(i)'
  BY DEF Calm2
<1>1. AnswersInitiator(i, m) /\ UNCHANGED sent
  BY DEF BeginMessage2, DisturbedUnless
<1>2. PICK r \in Responders :
        /\ m = Message2(r, message_1(i)) /\ m \in sent[2]
        /\ m.g_y = r /\ m.plaintext = Plaintext2(r, message_1(i))
        /\ m.prk = hkdf_extract(transcript_2(m.g_y, message_1(i)), diffie_hellman(i, m.g_y))
        /\ parse_identifier(m.plaintext.c_r) # Unreadable
        /\ parse_identifier(m.plaintext.c_r).id = Id[r]
        /\ Id[r] # Id[i]
  BY <1>1, AnswerOpens2
<1> DEFINE th_2 == transcript_2(m.g_y, message_1(i))
           prk == hkdf_extract(th_2, diffie_hellman(i, m.g_y))
           c_r == parse_identifier(m.plaintext.c_r)
<1>3. /\ initiator' = [initiator EXCEPT ![i] =
             [@ EXCEPT !.lifecycle = "PendingMessage2", !.eph_secret = FALSE,
                       !.g_y = m.g_y, !.th_2 = th_2, !.prk_3e2m = prk]]
      /\ pending_message_2' = [pending_message_2 EXCEPT ![i] =
             PendingMessage2(m.plaintext, c_r.id, th_2)]
  <2>1. m.prk = prk /\ c_r # Unreadable /\ c_r.id # Id[i]
    BY <1>2
  <2> QED BY <2>1 DEF BeginMessage2, begin_process_message_2
<1>4. th_2 = Th2(i, r)
  BY <1>2 DEF Th2
<1> HIDE DEF th_2, prk
<1>5. initiator'[i] = [initiator[i] EXCEPT !.lifecycle = "PendingMessage2", !.eph_secret = FALSE,
                         !.g_y = m.g_y, !.th_2 = th_2, !.prk_3e2m = prk]
  BY <1>3 DEF IInv, Shape
<1>6. initiator'[i].lifecycle = "PendingMessage2" /\ initiator'[i].g_y = r
  BY <1>2, <1>5 DEF IInv, Shape, IsInitiatorState
<1>7. pending_message_2'[i] = PendingMessage2(Plaintext2(r, message_1(i)), Id[r], Th2(i, r))
  <2>1. pending_message_2'[i] = PendingMessage2(m.plaintext, c_r.id, th_2)
    BY <1>3 DEF IInv, Shape
  <2>2. m.plaintext = Plaintext2(r, message_1(i)) /\ c_r.id = Id[r]
    BY <1>2
  <2> HIDE DEF c_r
  <2> QED BY <1>4, <2>1, <2>2
<1>8. Message2(r, message_1(i)) \in sent'[2]
  BY <1>1, <1>2
<1> QED BY <1>6, <1>7, <1>8 DEF Calm2

\* Naming the peer of what an undisturbed initiator has pending verifies.
LEMMA CalmFinishMessage2 ==
  ASSUME IInv, IdsReadBack, NEW i \in Initiators, NEW j \in Initiators, Calm2(i),
         NEW p, NEW peer, p = pending_message_2[j], p # None, FinishMessage2(i, p, peer)
  PROVE  Calm2(i)'
<1> SUFFICES ASSUME i \notin disturbed' PROVE Calm2(i)'
  BY DEF Calm2
<1>1. /\ i \notin disturbed /\ initiator[i].g_y \in Responders
      /\ peer = Self[initiator[i].g_y]
      /\ initiator[i].lifecycle = "PendingMessage2"
      /\ p.transcript_binding = initiator[i].th_2
  BY DEF FinishMessage2, DisturbedUnless, finish_process_message_2, CanFinishMessage2
<1>2. PICK r \in Responders :
        /\ initiator[i].g_y = r
        /\ Message2(r, message_1(i)) \in sent[2]
        /\ pending_message_2[i] =
             PendingMessage2(Plaintext2(r, message_1(i)), Id[r], Th2(i, r))
  BY <1>1 DEF Calm2
<1>3. initiator[i].th_2 = Th2(i, r) /\ initiator[i].prk_3e2m = PrkOf(i, r)
  <2>1. /\ initiator[i].th_2 = transcript_2(r, message_1(i))
        /\ initiator[i].prk_3e2m = hkdf_extract(initiator[i].th_2, diffie_hellman(i, r))
    BY <1>1, <1>2 DEF IInv, InitiatorOk
  <2> QED BY <2>1 DEF Th2, PrkOf
<1>4. j = i
  <2>1. PICK plaintext \in Plaintexts2, g_y \in EphemeralKeys :
          p = PendingMessage2(plaintext, parse_identifier(plaintext.c_r).id,
                              transcript_2(g_y, message_1(j)))
    BY DEF IInv, Opened2Ok
  <2>2. p.transcript_binding = transcript_2(g_y, message_1(j))
    BY <2>1 DEF PendingMessage2
  <2>3. transcript_2(g_y, message_1(j)) = Th2(i, r)
    BY <1>1, <1>3, <2>2
  <2>4. message_1(j) = message_1(i)
    <3>1. transcript_2(g_y, message_1(j)).msg1 = message_1(j) /\ Th2(i, r).msg1 = message_1(i)
      BY HashParts DEF Th2
    <3> QED BY <2>3, <3>1
  <2> QED BY <2>4, MessageParts
<1>5. /\ p.plaintext = Plaintext2(r, message_1(i)) /\ p.c_r = Id[r]
      /\ p.id_cred = Plaintext2(r, message_1(i)).id_cred
  BY <1>2, <1>4 DEF PendingMessage2
<1>6. Verified2(i, p, peer)
  <2>1. /\ Plaintext2(r, message_1(i)).id_cred = IdCred[Self[r]]
        /\ Plaintext2(r, message_1(i)).signature =
             sign(Self[r], m_2(Prk(r, message_1(i)), Id[r], IdCred[Self[r]],
                               transcript_2(r, message_1(i)), Self[r]))
    BY Plaintext2Parts
  <2>2. Prk(r, message_1(i)) = PrkOf(i, r) /\ transcript_2(r, message_1(i)) = Th2(i, r)
    BY SamePrk DEF Th2
  <2>3. p.plaintext.signature =
          sign(Self[r], m_2(PrkOf(i, r), Id[r], IdCred[Self[r]], Th2(i, r), Self[r]))
    BY <1>5, <2>1, <2>2
  <2>4. peer = Self[r] /\ p.id_cred = IdCred[Self[r]]
    BY <1>1, <1>2, <1>5, <2>1
  <2> QED BY <1>3, <1>5, <2>3, <2>4 DEF Verified2, verify
<1>7. initiator'[i].lifecycle = "Complete"
  <2>1. \E th_3, th_4 : initiator' = [initiator EXCEPT ![i] =
          [@ EXCEPT !.lifecycle = "Complete", !.completed = TRUE, !.c_r = p.c_r,
                    !.th_3 = th_3, !.prk_4e3m = initiator[i].prk_3e2m, !.th_4 = th_4]]
    <3>1. finish_process_message_2(i, p, peer)
      BY DEF FinishMessage2
    <3>2. PICK th_3, th_4 : /\ th_3 = Th3(i, p, peer)
                            /\ th_4 = transcript_4(th_3, Plaintext3(i, th_3), Self[i])
      OBVIOUS
    <3>3. initiator' = [initiator EXCEPT ![i] =
            [@ EXCEPT !.lifecycle = "Complete", !.completed = TRUE, !.c_r = p.c_r,
                      !.th_3 = th_3, !.prk_4e3m = initiator[i].prk_3e2m, !.th_4 = th_4]]
      BY <1>6, <3>1, <3>2, Zenon DEF finish_process_message_2
    <3> QED BY <3>3, Zenon
  <2>2. IsInitiatorState(initiator[i])
    BY DEF IInv, Shape
  <2> QED BY <2>1, <2>2 DEF IInv, Shape, IsInitiatorState
<1> QED BY <1>7 DEF Calm2

LEMMA CalmBeginMessage3 ==
  ASSUME IInv, IdsReadBack, AtomsAreNoTerms, NEW r \in Responders, Calm3(r), NEW m,
         BeginMessage3(r, m)
  PROVE  Calm3(r)'
<1> SUFFICES ASSUME r \notin disturbed' PROVE Calm3(r)'
  BY DEF Calm3
<1>1. AnswersResponder(r, m) /\ responder[r].lifecycle = "AwaitingMessage3"
  BY DEF BeginMessage3, DisturbedUnless, begin_process_message_3
<1>2. PICK i \in Initiators :
        /\ responder[r].g_x = i
        /\ responder[r].prk_3e2m = PrkOf(i, r)
        /\ responder[r].th_3 = Th3Made(r, message_1(i))
        /\ m.plaintext = Plain3(i, r, Th3Made(r, message_1(i)))
        /\ m.k_3 = edhoc_kdf(responder[r].prk_3e2m, "K_3", responder[r].th_3)
  BY <1>1, AnswerOpens3
<1>3. /\ responder' = [responder EXCEPT ![r].lifecycle = "PendingMessage3"]
      /\ pending_message_3' = [pending_message_3 EXCEPT ![r] =
             PendingMessage3(m.plaintext, responder[r].th_3)]
  BY <1>2 DEF BeginMessage3, begin_process_message_3
<1>4. /\ responder'[r].lifecycle = "PendingMessage3"
      /\ responder'[r].g_x = responder[r].g_x
      /\ responder'[r].prk_3e2m = responder[r].prk_3e2m
      /\ responder'[r].th_3 = responder[r].th_3
  <2>1. IsResponderState(responder[r])
    BY DEF IInv, Shape
  <2>2. responder'[r] = [responder[r] EXCEPT !.lifecycle = "PendingMessage3"]
    BY <1>3 DEF IInv, Shape
  <2> QED BY <2>1, <2>2 DEF IsResponderState
<1> DEFINE th_3 == Th3Made(r, message_1(i))
<1>5. pending_message_3'[r] = PendingMessage3(Plain3(i, r, th_3), th_3)
  <2>1. pending_message_3'[r] = PendingMessage3(m.plaintext, responder[r].th_3)
    BY <1>3 DEF IInv, Shape
  <2>2. responder[r].th_3 = th_3 /\ m.plaintext = Plain3(i, r, th_3)
    BY <1>2
  <2> HIDE DEF th_3
  <2> QED BY <2>1, <2>2
<1> QED BY <1>2, <1>4, <1>5 DEF Calm3

LEMMA CalmFinishMessage3 ==
  ASSUME IInv, NEW r \in Responders, Calm3(r), NEW p, NEW peer, FinishMessage3(r, p, peer)
  PROVE  Calm3(r)'
<1> SUFFICES ASSUME r \notin disturbed' PROVE Calm3(r)'
  BY DEF Calm3
<1>1. /\ r \notin disturbed /\ responder[r].lifecycle = "PendingMessage3"
      /\ p = pending_message_3[r] /\ peer = Self[responder[r].g_x]
  BY DEF FinishMessage3, DisturbedUnless
<1>2. PICK i \in Initiators :
        /\ responder[r].g_x = i
        /\ responder[r].prk_3e2m = PrkOf(i, r)
        /\ responder[r].th_3 = Th3Made(r, message_1(i))
        /\ p = PendingMessage3(Plain3(i, r, Th3Made(r, message_1(i))), Th3Made(r, message_1(i)))
  BY <1>1 DEF Calm3
<1> DEFINE th_3 == Th3Made(r, message_1(i))
<1>3. /\ responder[r].th_3 = th_3
      /\ p = PendingMessage3(Plain3(i, r, th_3), th_3)
  BY <1>2
<1> HIDE DEF th_3
<1>4. /\ p.transcript_binding = th_3 /\ p.plaintext = Plain3(i, r, th_3)
      /\ p.id_cred = Plain3(i, r, th_3).id_cred
  BY <1>3 DEF PendingMessage3
<1>5. /\ p.id_cred = IdCred[Self[i]]
      /\ p.plaintext.signature = sign(Self[i], m_3(PrkOf(i, r), IdCred[Self[i]], th_3, Self[i]))
  BY <1>4, Plain3Parts
<1>6. peer = Self[i]
  BY <1>1, <1>2
<1>7. Verified3(r, p, peer)
  BY <1>2, <1>3, <1>5, <1>6 DEF Verified3, verify
<1>8. \E th_4 : responder' = [responder EXCEPT ![r] =
        [@ EXCEPT !.lifecycle = "Complete", !.completed = TRUE,
                  !.prk_4e3m = responder[r].prk_3e2m, !.th_4 = th_4]]
  BY <1>1, <1>3, <1>4, <1>5, <1>6, <1>7 DEF FinishMessage3, finish_process_message_3
<1>9. responder'[r].lifecycle = "Complete"
  <2>1. IsResponderState(responder[r])
    BY DEF IInv, Shape
  <2> QED BY <1>8, <2>1 DEF IInv, Shape, IsResponderState
<1> QED BY <1>9 DEF Calm3

LEMMA InitiatorStepStaysCalm ==
  ASSUME IInv, IdsReadBack, CalmInv, NEW i \in Initiators, InitiatorStep(i)
  PROVE  CalmInv'
<1>1. disturbed \subseteq disturbed' /\ sent[2] \subseteq sent'[2]
  BY NothingForgotten, StepsAreSessions
<1>2. UNCHANGED responder /\ \A j \in Initiators : j # i => initiator'[j] = initiator[j]
  BY InitiatorAlone
<1>3. /\ UNCHANGED pending_message_3
      /\ \A j \in Initiators : j # i => pending_message_2'[j] = pending_message_2[j]
  <2>1. \E x : pending_message_2' = [pending_message_2 EXCEPT ![i] = x] \/ UNCHANGED pending_message_2
    BY DEF InitiatorStep, CreateMessage1, create_message_1, ReceiveSuitesError,
           receive_suites_error, BeginMessage2, begin_process_message_2, FinishMessage2,
           finish_process_message_2, DropMessage2, drop_pending_message_2,
           ZeroizeInitiator, zeroize_initiator
  <2>2. UNCHANGED pending_message_3
    BY DEF InitiatorStep, CreateMessage1, ReceiveSuitesError, BeginMessage2, FinishMessage2,
           DropMessage2, ZeroizeInitiator, responderVars
  <2> QED BY <2>1, <2>2 DEF IInv, Shape
<1>4. Calm2(i)'
  <2>1. Calm2(i) /\ IsInitiatorState(initiator[i])
    BY DEF CalmInv, IInv, Shape
  <2>2. CASE CreateMessage1(i)
    <3>1. initiator'[i] = [initiator[i] EXCEPT !.lifecycle = "Message1Created"]
      BY <2>2 DEF CreateMessage1, create_message_1, IInv, Shape
    <3>2. initiator'[i].lifecycle = "Message1Created"
      BY <2>1, <3>1 DEF IsInitiatorState
    <3> QED BY <3>2 DEF Calm2
  <2>3. CASE ReceiveSuitesError(i) \/ DropMessage2(i)
    BY <2>3 DEF ReceiveSuitesError, DropMessage2, Calm2
  <2>4. ASSUME NEW m, BeginMessage2(i, m) PROVE Calm2(i)'
    BY <2>1, <2>4, CalmBeginMessage2
  <2>5. ASSUME NEW j \in Initiators, NEW peer,
               pending_message_2[j] # None, FinishMessage2(i, pending_message_2[j], peer)
        PROVE  Calm2(i)'
    <3>1. PICK p : p = pending_message_2[j]
      OBVIOUS
    <3> QED BY <2>1, <2>5, <3>1, CalmFinishMessage2
  <2>6. CASE ZeroizeInitiator(i)
    <3>1. initiator'[i] = WipeInitiator(initiator[i], "Zeroized")
      BY <2>6 DEF ZeroizeInitiator, zeroize_initiator, IInv, Shape
    <3>2. initiator'[i].lifecycle = "Zeroized"
      BY <3>1 DEF WipeInitiator, FreshInitiator
    <3> QED BY <3>2 DEF Calm2
  <2> QED BY <2>2, <2>3, <2>4, <2>5, <2>6 DEF InitiatorStep
<1>5. ASSUME NEW j \in Initiators PROVE Calm2(j)'
  BY <1>1, <1>2, <1>3, <1>4, InitiatorStaysCalm DEF CalmInv
<1>6. ASSUME NEW r \in Responders PROVE Calm3(r)'
  BY <1>1, <1>2, <1>3, ResponderStaysCalm DEF CalmInv
<1> QED BY <1>5, <1>6 DEF CalmInv

LEMMA ResponderStepStaysCalm ==
  ASSUME IInv, IdsReadBack, AtomsAreNoTerms, CalmInv, NEW r \in Responders, ResponderStep(r)
  PROVE  CalmInv'
<1>1. disturbed \subseteq disturbed' /\ sent[2] \subseteq sent'[2]
  BY NothingForgotten, StepsAreSessions
<1>2. UNCHANGED initiator /\ \A q \in Responders : q # r => responder'[q] = responder[q]
  BY ResponderAlone
<1>3. /\ UNCHANGED pending_message_2
      /\ \A q \in Responders : q # r => pending_message_3'[q] = pending_message_3[q]
  <2>1. \E x : pending_message_3' = [pending_message_3 EXCEPT ![r] = x] \/ UNCHANGED pending_message_3
    BY DEF ResponderStep, ProcessMessage1, process_message_1, RefuseMessage1,
           refuse_own_identifier, refuse_low_order, BeginMessage3, begin_process_message_3,
           FinishMessage3, finish_process_message_3, DropMessage3, drop_pending_message_3,
           ZeroizeResponder, zeroize_responder
  <2>2. UNCHANGED pending_message_2
    BY DEF ResponderStep, ProcessMessage1, RefuseMessage1, BeginMessage3, FinishMessage3,
           DropMessage3, ZeroizeResponder, initiatorVars
  <2> QED BY <2>1, <2>2, SMTT(30) DEF IInv, Shape
<1>4. Calm3(r)'
  <2>1. Calm3(r) /\ IsResponderState(responder[r])
    BY DEF CalmInv, IInv, Shape
  <2>2. ASSUME NEW m, ProcessMessage1(r, m) PROVE Calm3(r)'
    <3>1. \E g_x, c_i, prk, th_3 : responder' = [responder EXCEPT ![r] =
            [@ EXCEPT !.lifecycle = "AwaitingMessage3", !.eph_secret = FALSE,
                      !.g_x = g_x, !.c_i = c_i, !.prk_3e2m = prk, !.th_3 = th_3]]
      BY <2>2 DEF ProcessMessage1, process_message_1
    <3>2. responder'[r].lifecycle = "AwaitingMessage3"
      BY <2>1, <3>1 DEF IsResponderState, IInv, Shape
    <3> QED BY <3>2 DEF Calm3
  <2>3. ASSUME NEW m, RefuseMessage1(r, m) PROVE Calm3(r)'
    BY <2>3 DEF RefuseMessage1, Calm3
  <2>4. ASSUME NEW m, BeginMessage3(r, m) PROVE Calm3(r)'
    BY <2>1, <2>4, CalmBeginMessage3
  <2>5. ASSUME NEW p, NEW peer, FinishMessage3(r, p, peer) PROVE Calm3(r)'
    BY <2>1, <2>5, CalmFinishMessage3
  <2>6. CASE DropMessage3(r)
    BY <2>6 DEF DropMessage3, Calm3
  <2>7. CASE ZeroizeResponder(r)
    <3>1. responder'[r] = WipeResponder(responder[r], "Zeroized")
      BY <2>7 DEF ZeroizeResponder, zeroize_responder, IInv, Shape
    <3>2. responder'[r].lifecycle = "Zeroized"
      BY <3>1 DEF WipeResponder, FreshResponder
    <3> QED BY <3>2 DEF Calm3
  <2> QED BY <2>2, <2>3, <2>4, <2>5, <2>6, <2>7 DEF ResponderStep
<1>5. ASSUME NEW q \in Responders PROVE Calm3(q)'
  BY <1>1, <1>2, <1>3, <1>4, ResponderStaysCalm DEF CalmInv
<1>6. ASSUME NEW i \in Initiators PROVE Calm2(i)'
  BY <1>1, <1>2, <1>3, InitiatorStaysCalm DEF CalmInv
<1> QED BY <1>5, <1>6 DEF CalmInv

\* Loss, delay, repetition and reordering fail no session, when no identifier
\* is a negative integer to CBOR: with one, OnlyDisturbedFail does not hold.
\* (begin_process_message_2 to finish_process_message_3; cbor.rs, parse_identifier)
THEOREM OnlyDisturbedFailHolds ==
  ASSUME AtomsAreNoTerms, IdsReadBack
  PROVE  Spec => []OnlyDisturbedFail
<1>1. Init => CalmInv
  <2> SUFFICES ASSUME Init PROVE CalmInv
    OBVIOUS
  <2>1. \A i \in Initiators : initiator[i].lifecycle = "Created"
    BY DEF Init, InitiatorInit, FreshInitiator
  <2>2. \A r \in Responders : responder[r].lifecycle = "Created"
    BY DEF Init, ResponderInit, FreshResponder
  <2> QED BY <2>1, <2>2 DEF CalmInv, Calm2, Calm3
<1>2. IInv /\ CalmInv /\ [Next]_vars => CalmInv'
  <2> SUFFICES ASSUME IInv, CalmInv, [Next]_vars PROVE CalmInv'
    OBVIOUS
  <2>1. CASE UNCHANGED vars
    BY <2>1 DEF vars, initiatorVars, responderVars, historyVars, CalmInv, Calm2, Calm3
  <2>2. ASSUME NEW i \in Initiators, InitiatorStep(i) PROVE CalmInv'
    BY <2>2, InitiatorStepStaysCalm
  <2>3. ASSUME NEW r \in Responders, ResponderStep(r) PROVE CalmInv'
    BY <2>3, ResponderStepStaysCalm
  <2> QED BY <2>1, <2>2, <2>3 DEF Next
<1>3. CalmInv => OnlyDisturbedFail
  BY DEF CalmInv, Calm2, Calm3, OnlyDisturbedFail
<1>4. Spec => []IInv
  BY ExchangeInductive
<1> QED BY <1>1, <1>2, <1>3, <1>4, PTL DEF Spec

=============================================================================
