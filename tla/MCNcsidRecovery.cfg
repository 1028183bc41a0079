SPECIFICATION FairSystemSpec
CONSTANTS
  m1 = m1
  m2 = m2
  NoMac = NoMac
  Mac <- MCMac
  NicMac = m2
  NicChannels = {1, 2}
  RxPackets <- MCRxPackets
  RestartDelay = 2
  MaxTries = 2
  InitialTries = {0}
  OwnerRequests = {}
  MaxLate = 2
  MaxLost = 1
  MaxWipes = 1
  MaxSwitches = 1
PROPERTIES
  EventuallyConfigured
  EventuallyReported
