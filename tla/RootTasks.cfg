SPECIFICATION FairSpec
CONSTANTS
  PageSize     = 8
  Words        = 1048576
  FanOut       = 256
  DeviceLists  <- PcDevices
  LastRegular  <- PcMemory
  EgaPage      = 184
  EgaBytes     = 6
  VgaPage      = 160
  VgaBytes     = 21
  Modes        <- VbeModes
  Lines        = 3
  Wakeups      = 7
  PerSecond    = 3
  MaxTicks     = 12
  WordBits     = 6
  PageBits     = 2
  ReserveBytes = 16
  ReserveMax   = 2
  ListSize     = 5
  Memories     <- SomeMemories
  FirstSlot    = 6
  CSpaceBits   = 4
  OtherCaps    <- Others
  BeforeMemory <- Before
  BehindMemory <- Behind
  NumTests     = 2
  Leftovers    <- Answers
  Typing       = 3
  ScanSet      = 2
  VKeys        <- Vks
  NoKey        = "none"
  Pause        = "PAUSE"
  VKey         <- Set2
  Keys         <- SomeKeys
INVARIANTS TypeOK NothingUsedMissing WritesReachVideoRam HalfAndHalf OwnStack
INVARIANTS AllocationMaximal FreeSlotsAreFree UntypedsNamedRight NeverFast
PROPERTIES ThreadsFinish TimerLoopEnds ReportsKeys EveryKeyPrinted
CHECK_DEADLOCK FALSE
