----------------------------- MODULE OscoreSizes -----------------------------
(***************************************************************************)
(* Lengths of a protected message against the buffers it is built and      *)
(* opened in (src/lib.rs), and the checks an application can make before   *)
(* it spends a sender number.  Options, payload and identifiers are given  *)
(* by their lengths; id_context counts its length byte, and is 0 without   *)
(* one.  A buffer that is too short fails the call.                        *)
(***************************************************************************)
EXTENDS Naturals

TAG_LEN == 8
PIV_MAX_LEN == 5
ID_CONTEXT_CAPACITY == 8
NONCE_ID_LEN == 7
OSCORE_OPTION_MAX_LEN == 1 + PIV_MAX_LEN + 1 + ID_CONTEXT_CAPACITY + NONCE_ID_LEN

RECEIVER_OUTPUT_CAP == 128
CT_CAP == 280
PT_CAP == 256

\* Code, options, marker, payload.
PlaintextSize(options, payload) ==
  1 + options + (IF payload = 0 THEN 0 ELSE 1 + payload)

OptionSize(piv, id_context, kid) == 1 + piv + id_context + kid

-----------------------------------------------------------------------------
\* Before a number is reserved.

preflight_protect_response(options, payload) ==
  /\ options <= RECEIVER_OUTPUT_CAP /\ payload <= RECEIVER_OUTPUT_CAP
  /\ PlaintextSize(options, payload) + TAG_LEN <= CT_CAP

preflight_protect_request(options, payload, id_context, sender_id) ==
  /\ preflight_protect_response(options, payload)
  /\ OptionSize(PIV_MAX_LEN, id_context, sender_id) <= OSCORE_OPTION_MAX_LEN

-----------------------------------------------------------------------------
\* With the number that was reserved, whose Partial IV has piv bytes.

protect_request_fits(options, payload, piv, id_context, sender_id) ==
  /\ PlaintextSize(options, payload) + TAG_LEN <= CT_CAP
  /\ OptionSize(piv, id_context, sender_id) <= OSCORE_OPTION_MAX_LEN

protect_response_fits(options, payload, piv) ==
  /\ PlaintextSize(options, payload) + TAG_LEN <= CT_CAP
  /\ OptionSize(piv, 0, 0) <= OSCORE_OPTION_MAX_LEN

\* At the peer, for a request and for a response alike.
unprotect_fits(options, payload) ==
  /\ PlaintextSize(options, payload) <= PT_CAP
  /\ options <= RECEIVER_OUTPUT_CAP /\ payload <= RECEIVER_OUTPUT_CAP

=============================================================================
