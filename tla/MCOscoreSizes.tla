---------------------------- MODULE MCOscoreSizes ----------------------------
(***************************************************************************)
(* Every length of the options and of the payload, up to Longest.          *)
(***************************************************************************)
EXTENDS OscoreSizes

CONSTANT Longest

VARIABLES options, payload

Init == options = 0 /\ payload = 0

Next ==
  \/ options < Longest /\ options' = options + 1 /\ UNCHANGED payload
  \/ payload < Longest /\ payload' = payload + 1 /\ UNCHANGED options

Spec == Init /\ [][Next]_<<options, payload>>

\* "Check that request protection can fit all bounded outputs before reserving a
\* PIV" (src/lib.rs:758), the receiver's among them (RECEIVER_OUTPUT_CAP, 767):
\* a message that passes the check is built with whatever number is reserved
\* for it, and opened by the peer.
PreflightSettlesSize ==
  /\ \A id_context \in 0..(1 + ID_CONTEXT_CAPACITY), kid \in 0..NONCE_ID_LEN :
       preflight_protect_request(options, payload, id_context, kid) =>
         /\ \A piv \in 1..PIV_MAX_LEN :
              protect_request_fits(options, payload, piv, id_context, kid)
         /\ unprotect_fits(options, payload)
  /\ preflight_protect_response(options, payload) =>
       /\ \A piv \in 1..PIV_MAX_LEN : protect_response_fits(options, payload, piv)
       /\ unprotect_fits(options, payload)

=============================================================================
