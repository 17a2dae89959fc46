------------------------------- MODULE MCCodecs -------------------------------
(***************************************************************************)
(* Short inputs of the codecs, for TLC.                                    *)
(***************************************************************************)
EXTENDS Codecs, Bitwise

\* The exclusive or of bytes is the one of the community modules.
ASSUME \A a \in Byte, b \in {0, 1, 2, 85, 127, 128, 170, 255} : XorBytes(a, b) = a ^^ b

\* The bytes each codec tells apart, on both sides of every boundary: CBOR
\* heads; KID context lengths; CoAP nibbles, and 0xfef2 and 0xfef3, which make
\* the option numbers 65535 and 65536.
MCAlphabet ==
  [identifier |-> {0, 1, 23, 24, 32, 55, 56, 64, 65, 88, 255},
   piv |-> 0..(Base - 1), option |-> {0, 1, 9}, names |-> {0, 1, 2},
   body |-> {0, 1, 13, 14, 16, 208, 224, 225, 240, 242, 243, 254, 255},
   id_cred |-> {1, 2, 4, 24, 34, 64, 65, 88, 129, 161, 162}]

\* Identifiers and options begin with any byte.
MCHeads ==
  [MCAlphabet EXCEPT !.identifier = Byte, !.option = Byte,
                     !.id_cred = {4, 24, 32, 56, 65, 88, 161, 162}]

MCLongest ==
  [identifier |-> 2, piv |-> 6, option |-> 6, names |-> 3, body |-> 4, payload |-> 1,
   options |-> 2, id_cred |-> 5, parameters |-> 3, suites |-> 3]

MCPivs == {<<0>>, <<1>>, <<2>>, <<1, 0>>, <<1, 2>>, <<2, 0, 1>>, <<1, 0, 0, 0, 0>>}
MCContexts == {Absent, <<>>, <<0>>, <<1>>, <<0, 1>>, <<1, 0>>}
MCSalts == {<<>>, <<0>>, <<1>>, <<1, 0>>}
MCCommonIv == <<5, 255, 1, 2, 3, 0, 0, 170, 85, 7, 1, 0, 128>>

MCDeltas == {0, 1, 12, 13, 268, 269, 65535, 65536}
MCLengths == {0, 12, 13, 269}

\* Parameters of an ID_CRED: labels, values, and whether the code takes them.
\* Some values look like a kid inside; with two of the long ones
\* the third decides whether a map is too long.
Parameter(key, label, value, good) ==
  [key |-> key, label |-> label, value |-> value, good |-> good]
MCParameters ==
  {Parameter(<<1>>, 1, v, TRUE) : v \in {<<7>>, <<56, 26>>}}
  \cup {Parameter(<<1>>, 1, v, FALSE) : v \in {<<65, 4>>}}
  \cup {Parameter(<<2>>, 2, v, TRUE) : v \in {<<39>>, <<131, 39, 4, 129, 1>>}}
  \cup {Parameter(<<2>>, 2, v, FALSE) : v \in {<<129, 1>>, <<130, 5, 5>>, <<129, 24, 34>>}}
  \cup {Parameter(<<4>>, 4, v, TRUE) : v \in {<<64>>, <<66, 4, 65>>}}
  \cup {Parameter(<<4>>, 4, v, FALSE) : v \in {<<4>>, <<88, 1, 5>>}}
  \cup {Parameter(<<24, 34>>, 34, v, TRUE) : v \in {<<130, 46, 65, 9>>, <<130, 57, 1, 0, 64>>}}
  \cup {Parameter(<<24, 34>>, 34, v, FALSE) : v \in {<<129, 46>>, <<130, 56, 1, 64>>}}
  \cup {Parameter(<<32>>, -1, v, TRUE) :
           v \in {<<130, 4, 65, 5>>, <<152, 1, 120, 2, 4, 64>>, <<99, 4, 65, 5>>}}
  \cup {Parameter(<<97, 4>>, TextLabel, v, TRUE) :
           v \in {<<4>>} \cup {<<88, n>> \o [i \in 1..n |-> 4] : n \in {25, 26}}}

\* Integers of every width, and the suites they name.
MCSuites ==
  {[bytes |-> <<n>>, suite |-> n] : n \in {0, 2, 23}}
  \cup {[bytes |-> <<24, n>>, suite |-> n] : n \in {2, 200}}
  \cup {[bytes |-> b, suite |-> Wide] :
           b \in {<<32>>, <<56, 0>>, <<25, 1, 0>>, <<57, 0, 2>>, <<26, 0, 1, 0, 2>>,
                  <<59, 0, 0, 0, 2, 0, 0, 0, 0>>}}

===============================================================================
