--------------------------- MODULE MCEdhocExchange ---------------------------
(***************************************************************************)
(* Small handshakes for TLC.                                               *)
(***************************************************************************)
EXTENDS EdhocExchange

CONSTANTS i1, i2, r1, r2, device, other, server, twin

\* One identifier is a compact integer, the others need a byte string; the
\* two responders, and the two initiators, differ in one property each.
MCId == [s \in Sessions |->
  CASE s = i1 -> <<5>> [] s = i2 -> <<24>> [] s = r1 -> <<200>> [] OTHER -> <<5>>]

MCSelf == [s \in Sessions |->
  CASE s = i1 -> device [] s = i2 -> other [] s = r1 -> server [] OTHER -> server]

\* The responder's identifier is a byte that CBOR reads as -2.
NegativeId == [MCId EXCEPT ![r1] = <<33>>]

\* `twin` has the reference of `server`, as if their hashes began alike.
MCIdCred == [c \in Credentials |->
  CASE c = device -> "kid-device" [] c = other -> "kid-device" [] OTHER -> "kid-server"]
=============================================================================
