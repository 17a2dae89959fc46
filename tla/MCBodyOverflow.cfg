CONSTANTS
  Codecs = {"options"}
  Base = 4
  Heads <- MCHeads
  Alphabet <- MCAlphabet
  Longest <- MCLongest
  Pivs <- MCPivs
  Contexts <- MCContexts
  Salts <- MCSalts
  CommonIv <- MCCommonIv
  Deltas <- MCDeltas
  Lengths <- MCLengths
  Parameters <- MCParameters
  Suites <- MCSuites
  Unreadable = Unreadable
  NoNumber = NoNumber
  Invalid = Invalid
  Absent = Absent
  Malformed = Malformed
  Panicked = Panicked
SPECIFICATION Spec
INVARIANT
  OverflowRefused
CHECK_DEADLOCK FALSE
