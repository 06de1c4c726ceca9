SPECIFICATION FairSpec
CONSTANTS
  ScanSet = 2
  VKeys   <- Vks
  NoKey   = "none"
  Pause   = "PAUSE"
  VKey    <- Set2
  Keys    <- SomeKeys
  Locks   <- LockKeys
  Caps    = "CAPITAL"
  LitAtStart <- NumLock
  Combined <- Modifiers
  Shift   = "SHIFT"
  Control = "CONTROL"
  Letters <- LetterKeys
  EventKey = "K"
  CharKey = "L"
  Typing  = 5
INVARIANTS TypeOK LedsMatch KeysTracked
PROPERTIES TypesWhatLedsSay LedLoopEnds Reports EveryKeyComesOut
CHECK_DEADLOCK FALSE
