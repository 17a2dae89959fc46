CONSTANTS
  i1 = i1
  i2 = i2
  r1 = r1
  r2 = r2
  device = device
  other = other
  server = server
  twin = twin
  Initiators = {i1, i2}
  Responders = {r1, r2}
  Credentials = {device, other, server, twin}
  Self <- MCSelf
  Id <- MCId
  IdCred <- MCIdCred
  Garbled = Garbled
  None = None
  Unreadable = Unreadable
  Faults = {"g_x", "c_i", "g_y", "c_r", "id_cred", "signature", "message_3", "suites"}
SPECIFICATION FairSpec
INVARIANTS
  ExchangeTypeOK
  ResponderAgreement
  InitiatorAgreement
  ExportsApart
  EphemeralOnce
  OnlyDisturbedFail
PROPERTIES
  AgreesOnKeys
  AnsweredComplete
CHECK_DEADLOCK FALSE
