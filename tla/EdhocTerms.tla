------------------------------ MODULE EdhocTerms ------------------------------
(***************************************************************************)
(* What the two EDHOC roles compute (src/edhoc/{transcript,kdf,credential, *)
(* sign}.rs), as terms: a hash, a key, a MAC or a signature is the tuple   *)
(* or record of what went into it, so that two are equal only when their   *)
(* inputs are.  A ciphertext is its plaintext beside the key it needs.     *)
(***************************************************************************)
EXTENDS EdhocIdentifiers

CONSTANTS
  Initiators,    \* EdhocInitiator objects
  Responders,    \* EdhocResponder objects
  Credentials,   \* raw-key credentials, each with its own signing key
  Self,          \* the credential of each object
  Id,            \* the connection identifier of each object
  IdCred,        \* the reference by which a credential is named on the wire
  Garbled,       \* damaged bytes
  None           \* a wiped or unset field

Sessions == Initiators \cup Responders

\* References are the first 8 bytes of a hash, so two credentials may share
\* one: IdCred need not be injective.  The public constructors of a responder
\* take one byte; new_with_rng of an initiator takes any identifier.
ASSUME SessionAssumption ==
  /\ Initiators \cap Responders = {}
  /\ Self \in [Sessions -> Credentials]
  /\ Id \in [Sessions -> ConnectionIds]
  /\ Garbled \notin Sessions /\ None \notin Sessions

\* Every object draws an ephemeral key when it is made and no two draw the
\* same one, so an object's name also stands for its ephemeral key.
diffie_hellman(secret, public) == {secret, public}

transcript_2(g_y, msg1) == [g_y |-> g_y, msg1 |-> msg1]
transcript_3(th_2, plaintext_2, cred_r) ==
  [th_2 |-> th_2, plaintext_2 |-> plaintext_2, cred_r |-> cred_r]
transcript_4(th_3, plaintext_3, cred_i) ==
  [th_3 |-> th_3, plaintext_3 |-> plaintext_3, cred_i |-> cred_i]

\* PRK_2e, which is PRK_3e2m and PRK_4e3m too: both sides sign.
hkdf_extract(th_2, g_xy) == [th_2 |-> th_2, g_xy |-> g_xy]

edhoc_kdf(prk, label, context) == [prk |-> prk, label |-> label, context |-> context]

\* Mutant of build_context_2: MAC_2 does not cover C_R.
ContextWithoutId(c_r, id_cred, th_2, cred) ==
  [c_r |-> None, id_cred |-> id_cred, th |-> th_2, cred |-> cred]

build_context_2(c_r, id_cred, th_2, cred) ==
  [c_r |-> encode_identifier(c_r), id_cred |-> id_cred, th |-> th_2, cred |-> cred]
build_context_3(id_cred, th_3, cred) ==
  [id_cred |-> id_cred, th |-> th_3, cred |-> cred]

build_signature_structure(id_cred, th, cred, mac) ==
  [id_cred |-> id_cred, th |-> th, cred |-> cred, mac |-> mac]

\* Credentials stand for their keys: only the owner of `cred` signs with it.
sign(cred, m) == [signer |-> cred, m |-> m]
\* Mutant of verify: any well-formed signature is taken for good.
VerifyNothing(cred, m, signature) == signature # Garbled

verify(cred, m, signature) == signature = sign(cred, m)

m_2(prk, c_r, id_cred, th_2, cred) ==
  build_signature_structure(id_cred, th_2, cred,
    edhoc_kdf(prk, "MAC_2", build_context_2(c_r, id_cred, th_2, cred)))
m_3(prk, id_cred, th_3, cred) ==
  build_signature_structure(id_cred, th_3, cred,
    edhoc_kdf(prk, "MAC_3", build_context_3(id_cred, th_3, cred)))

\* The OSCORE context an export yields; the master secret and salt are
\* functions of the PRK and TH_4.
export_context(prk, th_4, sender_id, recipient_id) ==
  [master |-> edhoc_kdf(prk, "PRK_OUT", th_4),
   sender_id |-> sender_id, recipient_id |-> recipient_id]

-----------------------------------------------------------------------------
(* Messages.                                                               *)

message_1(i) == [g_x |-> i, c_i |-> encode_identifier(Id[i])]

\* CIPHERTEXT_2 is XORed with a keystream of PRK_2e: its fields can be damaged
\* one by one.
message_2(g_y, prk, plaintext) == [g_y |-> g_y, prk |-> prk, plaintext |-> plaintext]

\* CIPHERTEXT_3 is AES-CCM under K_3 and IV_3 with TH_3 in the additional
\* data: it opens whole or not at all.
message_3(prk, th_3, plaintext) ==
  [k_3 |-> edhoc_kdf(prk, "K_3", th_3), plaintext |-> plaintext]

\* An error message in answer to message 1, listing the peer's suites.
SuitesError == [g_y |-> None, prk |-> None, plaintext |-> None]

Plaintext_2(c_r, cred, signature) ==
  [c_r |-> encode_identifier(c_r), id_cred |-> IdCred[cred], signature |-> signature]
Plaintext_3(cred, signature) == [id_cred |-> IdCred[cred], signature |-> signature]

=============================================================================
