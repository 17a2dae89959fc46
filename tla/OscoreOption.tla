----------------------------- MODULE OscoreOption -----------------------------
(***************************************************************************)
(* The value of the OSCORE option (src/lib.rs): a flag byte, then Partial  *)
(* IV, KID context and KID, each only if its flag says so.  The KID has no *)
(* length of its own: it is what remains.                                  *)
(***************************************************************************)
EXTENDS PartialIV

CONSTANTS
  Invalid,    \* InvalidParam
  Absent      \* a KID or a KID context that is not there

\* A failure is no parsed option, and what is not there no byte string.
ASSUME OptionAssumption ==
  /\ Absent \notin Seq(Nat)
  /\ Invalid \notin [piv : Seq(Nat), kid_context : Seq(Nat) \cup {Absent},
                    kid : Seq(Nat) \cup {Absent}]

ID_CONTEXT_CAPACITY == 8
NONCE_ID_LEN == 7

\* Bits of the flag byte; bits 5 to 7 are reserved.
PivLen(flags) == flags % 8
KFlag(flags) == (flags \div 8) % 2 = 1
HFlag(flags) == (flags \div 16) % 2 = 1

\* Mutant of FlagByte: an empty KID is not flagged.
FlagNotEmpty(piv, kid_context, kid) ==
  Len(piv) + (IF kid \in {Absent, <<>>} THEN 0 ELSE 8)
    + (IF kid_context = Absent THEN 0 ELSE 16)

FlagByte(piv, kid_context, kid) ==
  Len(piv) + (IF kid = Absent THEN 0 ELSE 8) + (IF kid_context = Absent THEN 0 ELSE 16)

\* The option of a request and of a response that carries its own Partial IV.
request_option(piv, id_context, sender_id) ==
  <<FlagByte(piv, id_context, sender_id)>> \o piv
    \o (IF id_context = Absent THEN <<>> ELSE <<Len(id_context)>> \o id_context)
    \o sender_id
response_option(piv) == <<FlagByte(piv, Absent, Absent)>> \o piv

\* What follows the Partial IV, and how much of that is the KID context with
\* its length.
Rest(data) == SubSeq(data, PivLen(data[1]) + 2, Len(data))
ContextLen(data) == IF HFlag(data[1]) /\ Rest(data) # <<>> THEN Rest(data)[1] + 1 ELSE 0

\* Mutant of WellFormed: bytes after the last field are ignored.
WellFormedPrefix(data) ==
  LET flags == data[1]
      kid_len == Len(Rest(data)) - ContextLen(data)
  IN /\ data # <<0>> /\ flags < 32
     /\ PivLen(flags) > 0 =>
          PivLen(flags) < Len(data) /\ CanonicalPiv(SubSeq(data, 2, PivLen(flags) + 1))
     /\ HFlag(flags) => Rest(data) # <<>> /\ ContextLen(data) <= ID_CONTEXT_CAPACITY + 1
     /\ kid_len \in 0..NONCE_ID_LEN

\* The early returns of parse_option.  A lone zero byte is refused: the option
\* is empty instead.
WellFormed(data) ==
  LET flags == data[1]
      kid_len == Len(Rest(data)) - ContextLen(data)
  IN /\ data # <<0>> /\ flags < 32
     /\ PivLen(flags) > 0 =>
          PivLen(flags) < Len(data) /\ CanonicalPiv(SubSeq(data, 2, PivLen(flags) + 1))
     /\ HFlag(flags) => Rest(data) # <<>> /\ ContextLen(data) <= ID_CONTEXT_CAPACITY + 1
     /\ kid_len \in 0..(IF KFlag(flags) THEN NONCE_ID_LEN ELSE 0)

parse_option(data) ==
  IF data = <<>> THEN [piv |-> <<>>, kid_context |-> Absent, kid |-> Absent]
  ELSE IF WellFormed(data)
  THEN [piv |-> SubSeq(data, 2, PivLen(data[1]) + 1),
        kid_context |-> IF HFlag(data[1]) THEN SubSeq(Rest(data), 2, ContextLen(data))
                        ELSE Absent,
        kid |-> IF KFlag(data[1])
                THEN SubSeq(Rest(data), ContextLen(data) + 1, Len(Rest(data)))
                ELSE Absent]
  ELSE Invalid

\* KID and Partial IV of a request, as a responder keeps them.
request_identifiers(data) ==
  LET option == parse_option(data)
  IN IF option = Invalid \/ option.kid = Absent \/ option.piv = <<>>
     THEN Invalid
     ELSE [kid |-> option.kid, piv |-> option.piv]

=============================================================================
