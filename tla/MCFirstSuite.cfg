CONSTANTS
  Codecs = {"suites"}
  Base = 4
  Heads <- MCHeads
  Alphabet <- MCAlphabet
  Longest <- MCLongest
  Pivs <- MCPivs
  Contexts <- MCContexts
  Salts <- MCSalts
  CommonIv <- MCCommonIv
  Deltas <- MCDeltas
  Lengths <- MCLengths
  Parameters <- MCParameters
  Suites <- MCSuites
  Unreadable = Unreadable
  NoNumber = NoNumber
  Invalid = Invalid
  Absent = Absent
  Malformed = Malformed
  Panicked = Panicked
SPECIFICATION Spec
INVARIANT
  FirstSuiteSelected
CHECK_DEADLOCK FALSE
