------------------------------ MODULE EdhocSizes ------------------------------
(***************************************************************************)
(* Lengths of what an EDHOC handshake builds, against the capacity of the  *)
(* buffer each is built in (src/edhoc/{transcript,kdf,initiator,           *)
(* responder}.rs).  A buffer that is too short fails the call and destroys *)
(* the session.  A credential is given by its length and that of its       *)
(* ID_CRED, an identifier by the length of its encoding.                   *)
(***************************************************************************)
EXTENDS Naturals

\* One length for each of the two signature schemes the crate is built with.
SIG_LEN == {48, 64}
TAG_LEN == 8
HashLen == 32

\* Length of a byte string of n bytes with its head.
BstrSize(n) == n + (IF n <= 23 THEN 1 ELSE IF n <= 255 THEN 2 ELSE 3)

\* An expansion of `length` bytes, and the info it is made from.
edhoc_kdf_fits(context, length) ==
  /\ context <= 255
  /\ 1 + BstrSize(context) + (IF length <= 23 THEN 1 ELSE 2) <= 128
  /\ length <= 128

\* Context of a MAC; id is 0 in context_3, which has no identifier.
ContextSize(id, cred) == id + cred.id_cred + BstrSize(HashLen) + cred.credential
MacFits(id, cred) ==
  ContextSize(id, cred) <= 128 /\ edhoc_kdf_fits(ContextSize(id, cred), HashLen)

\* Mutant of SignatureStructureFits: the structure is built in 128 bytes.
StructureIn128(cred) ==
  12 + BstrSize(cred.id_cred) + BstrSize(BstrSize(HashLen) + cred.credential)
     + BstrSize(HashLen) <= 128

SignatureStructureFits(cred) ==
  LET external_aad == BstrSize(HashLen) + cred.credential
  IN /\ external_aad <= 128
     /\ 12 + BstrSize(cred.id_cred) + BstrSize(external_aad) + BstrSize(HashLen) <= 160

\* transcript_3 and transcript_4.
TranscriptFits(plaintext, cred) ==
  BstrSize(HashLen) + BstrSize(plaintext) + cred.credential <= 1024

\* METHOD, SUITES_I, G_X and C_I; the responder refuses fewer than 37 bytes.
Message1Fits(id) == 2 + BstrSize(HashLen) + id \in 37..64

\* In the responder, which makes it, and the initiator, which reads it and
\* checks the signature over the same credential.
Message2Fits(id, cred, sig) ==
  LET plaintext == id + cred.id_cred + BstrSize(sig)
      g_y_ciphertext == HashLen + plaintext
  IN /\ MacFits(id, cred) /\ SignatureStructureFits(cred)
     /\ plaintext <= 128 /\ edhoc_kdf_fits(HashLen, plaintext)
     /\ g_y_ciphertext <= 144 /\ BstrSize(g_y_ciphertext) <= 160
     /\ g_y_ciphertext >= HashLen + 1 + sig
     /\ TranscriptFits(plaintext, cred)

Message3Fits(cred, sig) ==
  LET plaintext == cred.id_cred + BstrSize(sig)
  IN /\ MacFits(0, cred) /\ SignatureStructureFits(cred)
     /\ plaintext + TAG_LEN <= 128 /\ BstrSize(plaintext + TAG_LEN) <= 128
     /\ TranscriptFits(plaintext, cred)

=============================================================================
