CONSTANTS
  Owners = {o1, o2}
  MAX = 3
  NoState = NoState
SPECIFICATION Spec
INVARIANTS
  PersistedBeforeTransmit
