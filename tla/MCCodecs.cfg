CONSTANTS
  Codecs = {"identifier", "piv", "option", "names", "body", "options", "id_cred", "parameters", "suites"}
  Base = 4
  Heads <- MCHeads
  Alphabet <- MCAlphabet
  Longest <- MCLongest
  Pivs <- MCPivs
  Contexts <- MCContexts
  Salts <- MCSalts
  CommonIv <- MCCommonIv
  Deltas <- MCDeltas
  Lengths <- MCLengths
  Parameters <- MCParameters
  Suites <- MCSuites
  Unreadable = Unreadable
  NoNumber = NoNumber
  Invalid = Invalid
  Absent = Absent
  Malformed = Malformed
  Panicked = Panicked
SPECIFICATION Spec
INVARIANTS
  IdentifierRoundTrip
  IdentifierParsersAgree
  PivRoundTrip
  OptionRoundTrip
  NoncesApart
  ContextsApart
  BodySplit
  BodyParsersAgree
  IdCredCanonical
  IdCredUnderstood
  SuitesRead
  RawKeysFit
CHECK_DEADLOCK FALSE
