SPECIFICATION FairSpec
CONSTANTS
  m1 = m1
  m2 = m2
  NoMac = NoMac
  Mac <- OneMac
  RxPackets <- MCRxPackets
  RestartDelay = 3
  MaxTries = 3
  InitialTries = {0, 254}
  OwnerRequests = {"stop", "restart"}
INVARIANTS
  UpMeansAcknowledged
  NoTrafficToAbsentChannel
  AwaitsLastRequest
  IInv
PROPERTIES
  StopsOnlyAfterReset
  KeepsTalking
  RestartServed
  TornDownAfterAllTries
  ImplementsConnection
