SPECIFICATION SystemSpec
CONSTANTS
  m1 = m1
  m2 = m2
  NoMac = NoMac
  Mac <- MCMac
  NicMac = m2
  NicChannels = {2}
  RxPackets <- MCRxPackets
  RestartDelay = 2
  MaxTries = 5
  InitialTries = {0}
  OwnerRequests = {}
  MaxLate = 8
  MaxLost = 0
  MaxWipes = 0
  MaxSwitches = 0
PROPERTY SampleFromRightChannel
