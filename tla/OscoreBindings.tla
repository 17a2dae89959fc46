---------------------------- MODULE OscoreBindings ----------------------------
(***************************************************************************)
(* The byte strings that tie a message to its sender, its number, its      *)
(* request and its keys (src/lib.rs): nonce, additional data, and the      *)
(* inputs of the key derivation and of the context identifier.             *)
(***************************************************************************)
EXTENDS OscoreOption

NONCE_LEN == 13
ALG_AEAD == 10

\* Exclusive or of bits, of pairs of bits, of nibbles, of bytes.
XorBits(a, b) == (a + b) % 2
XorPairs(a, b) == 2 * XorBits(a \div 2, b \div 2) + XorBits(a % 2, b % 2)
XorNibbles(a, b) == 4 * XorPairs(a \div 4, b \div 4) + XorPairs(a % 4, b % 4)
XorBytes(a, b) ==
  16 * XorNibbles(a \div 16, b \div 16) + XorNibbles(a % 16, b % 16)

PadLeft(s, n) == [i \in 1..(n - Len(s)) |-> 0] \o s

\* Mutant of compute_nonce: the length of the sender ID is left out.
NonceWithoutLength(sender_id, piv, common_iv) ==
  LET nonce == <<0>> \o PadLeft(sender_id, NONCE_ID_LEN) \o PadLeft(piv, PIV_MAX_LEN)
  IN [i \in 1..NONCE_LEN |-> XorBytes(nonce[i], common_iv[i])]

compute_nonce(sender_id, piv, common_iv) ==
  LET nonce == <<Len(sender_id)>> \o PadLeft(sender_id, NONCE_ID_LEN)
                 \o PadLeft(piv, PIV_MAX_LEN)
  IN [i \in 1..NONCE_LEN |-> XorBytes(nonce[i], common_iv[i])]

\* A CBOR byte string or text of at most 23 bytes.
ByteString(s) == <<64 + Len(s)>> \o s

\* The inner array of the Enc_structure; what wraps it is the same for all.
build_aad_cbor(request_kid, request_piv) ==
  <<133, 1, 129, ALG_AEAD>>
    \o ByteString(request_kid) \o ByteString(request_piv) \o <<64>>

\* The CBOR texts "Key" and "IV".
KEY == <<99, 75, 101, 121>>
IV == <<98, 73, 86>>

\* Mutant of build_info_cbor: no ID context is written like an empty one.
InfoWithEmpty(id, id_context, type, out_len) ==
  <<133>> \o ByteString(id)
    \o ByteString(IF id_context = Absent THEN <<>> ELSE id_context)
    \o <<ALG_AEAD>> \o type \o <<out_len>>

\* An ID context that is not there is CBOR null.
build_info_cbor(id, id_context, type, out_len) ==
  <<133>> \o ByteString(id)
    \o (IF id_context = Absent THEN <<246>> ELSE ByteString(id_context))
    \o <<ALG_AEAD>> \o type \o <<out_len>>

\* What derive_key and derive_iv expand.
KeyInfo(id, id_context) == build_info_cbor(id, id_context, KEY, 16)
IvInfo(id_context) == build_info_cbor(<<>>, id_context, IV, NONCE_LEN)

\* The text that is hashed, after a constant and the fixed-length secret.
derive_context_id(master_salt, id_context, sender_id) ==
  <<Len(master_salt)>> \o master_salt
    \o (IF id_context = Absent THEN <<0>> ELSE <<1, Len(id_context)>> \o id_context)
    \o <<Len(sender_id)>> \o sender_id

=============================================================================
