CONSTANTS
  Owners = {o1}
  MAX = 0
  WINDOW_SIZE = 2
  NoState = NoState
  NoPiv = NoPiv
  NoPending = NoPending
  OpenIn <- ActiveOnly
  PeerOf <- OnePeer
  Requests = {0, 2}
  Answerable = {0}
  Responses <- FewResponses
SPECIFICATION ContextSpec
INVARIANTS
  ContextTypeOK
  ActedOnce
  OneOrdinaryResponse
  WindowsNotMixed
  ActedIsDurable
  NoPivNonceUnique
