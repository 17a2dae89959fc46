------------------------------ MODULE PartialIV ------------------------------
(***************************************************************************)
(* Partial IVs on the wire (src/seqnum.rs): the shortest big-endian form   *)
(* of a sequence number, and zero as one zero byte.                        *)
(***************************************************************************)
EXTENDS Integers, Sequences

CONSTANTS
  Base,       \* values of a byte, 256 in the code
  NoNumber    \* what from_piv returns in place of a number

ASSUME BaseAssumption == Base \in Nat /\ Base > 1 /\ NoNumber \notin Nat

PIV_MAX_LEN == 5

MAX_SEQUENCE == Base * Base * Base * Base * Base - 1

\* Mutant of encode_piv: the digits come out lowest first.
EncodeReversed(seq) ==
  LET digits[n \in Nat] ==
        IF n < Base THEN <<n>> ELSE <<n % Base>> \o digits[n \div Base]
  IN digits[seq]

encode_piv(seq) ==
  LET digits[n \in Nat] ==
        IF n < Base THEN <<n>> ELSE Append(digits[n \div Base], n % Base)
  IN digits[seq]

\* The byte strings from_piv takes.
CanonicalPiv(piv) ==
  Len(piv) \in 1..PIV_MAX_LEN /\ (Len(piv) > 1 => piv[1] # 0)

\* The number whose digits are these, the highest first.
PivValue(piv) ==
  LET value[n \in 0..Len(piv)] ==
        IF n = 0 THEN 0 ELSE value[n - 1] * Base + piv[n]
  IN value[Len(piv)]

from_piv(piv) == IF CanonicalPiv(piv) THEN PivValue(piv) ELSE NoNumber

=============================================================================
