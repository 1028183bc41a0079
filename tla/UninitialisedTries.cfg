SPECIFICATION Spec
CONSTANTS
  m1 = m1
  m2 = m2
  NoMac = NoMac
  Mac <- MCMac
  RxPackets <- MCRxPackets
  RestartDelay = 3
  MaxTries = 3
  InitialTries = {0, 1, 254}
  OwnerRequests = {}
INVARIANT RetriesBounded
