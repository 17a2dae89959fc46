CONSTANTS
  Owners = {o1, o2}
  MAX = 0
  WINDOW_SIZE = 2
  NoState = NoState
  NoPiv = NoPiv
  NoPending = NoPending
  OpenIn <- ActiveOnly
  PeerOf <- PeerEach
  Requests = {0}
  Answerable = {}
  Responses = {}
SPECIFICATION ContextSpec
INVARIANTS
  ActedOnce
