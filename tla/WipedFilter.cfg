SPECIFICATION FairSystemSpec
CONSTANTS
  m1 = m1
  m2 = m2
  NoMac = NoMac
  Mac <- MCMac
  NicMac = m2
  NicChannels = {2}
  RxPackets <- MCRxPackets
  RestartDelay = 2
  MaxTries = 3
  InitialTries = {0}
  OwnerRequests = {}
  MaxLate = 0
  MaxLost = 0
  MaxWipes = 1
  MaxSwitches = 0
PROPERTY WipedFilterRestored
