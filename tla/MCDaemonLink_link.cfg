SPECIFICATION FairSpec
CONSTANTS
  Gens = {1, 2}
  IDs = {1, 2}
  Tempers = {"same", "other", "foreign", "squatter"}
INVARIANTS
  TypeOK
  NothingWaitsWithoutATransport
  AcknowledgedIsShown
  FreshMirrorIsOfTheCurrentTransport
  OneTransportOpen
PROPERTIES
  RefusalIsFinal
  ConnectResolves
  DisconnectResolves
  RequestsSettle
