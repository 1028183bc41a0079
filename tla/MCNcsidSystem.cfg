SPECIFICATION SystemSpec
CONSTANTS
  m1 = m1
  m2 = m2
  NoMac = NoMac
  Mac <- MCMac
  NicMac = m2
  NicChannels = {2}
  RxPackets <- MCRxPackets
  RestartDelay = 2
  MaxTries = 5
  InitialTries = {0}
  OwnerRequests = {}
  MaxLate = 11
  MaxLost = 1
  MaxWipes = 0
  MaxSwitches = 0
INVARIANTS
  ConfiguredMeansInstalled
  TestEndsInSync
  HostlessOnlyIfSo
