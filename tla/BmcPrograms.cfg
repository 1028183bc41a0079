SPECIFICATION McSpec
CHECK_DEADLOCK FALSE
CONSTANTS
  NetMac = {n1, n2, n3}
  NoNetMac = nomac
  TornFile = torn
  MaxPost = 3
  MaxSignals = 2
  BmcMac = {b1, b2}
  MaxHostChanges = 3
  MaxMonitorFaults = 1
  EspiChannel = {e1, e2}
  Client = {c1, c2}
  Status = {done, ongoing}
  Ongoing = ongoing
  NoFile = nofile
  MaxDhcpFaults = 1
  RegionInput <- RegionInputs
  FlashSize = 6
  Word = 16
  Align = 2
  Chunk = 2
  CmdLine = {0, 1, 2}
  Others = 0
  Amount = {0, 1}
  MaxProcess = 3
  TopN = 1
INVARIANTS
  SuccessMeansAddress
  NoCodeVanishes
  SentOnceInOrder
  StartupAnsweredFirst
  StatusMatchesTarget
  OffInOneStep
  AnswerIsAStatus
  DigestCovers
  BlobSaysWhatWasRead
  NcIInv
  PostIInv
PROPERTIES
  ImplementsRegionCall
  AddressPersisted
  MovesOnlyToRequested
  CodesSettle
  TargetFollowsHost
  EveryClientLeaves
  HashingEnds
