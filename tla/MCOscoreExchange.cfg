CONSTANTS
  a = a
  b = b
  Endpoints <- TwoEnds
  Peer <- EachOther
  WINDOW_SIZE = 2
  MAX = 1
  Asks <- AsksFew
  RESTARTS = 1
  Forged <- ForgedRequests
  NoKid = NoKid
  NoPiv = NoPiv
  NoPending = NoPending
SPECIFICATION FairSpec
CHECK_DEADLOCK FALSE
INVARIANTS
  TypeOK
  NonceNeverReused
PROPERTIES
  ImplementsRequestResponse
  EveryRequestAnswered
