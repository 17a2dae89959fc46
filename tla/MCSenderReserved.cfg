CONSTANTS
  Owners = {o1, o2, o3}
  MAX = 3
  NoState = NoState
SPECIFICATION ReservedSpec
INVARIANTS
  TypeOK
  NonceUnique
  PersistedBeforeTransmit
  ReservationExclusive
  ConflictMeansBehind
PROPERTIES
  DurableNeverRegresses
  ImplementsOneShot
