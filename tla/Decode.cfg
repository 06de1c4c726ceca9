SPECIFICATION Spec
CONSTANTS
  ScanSet = 2
  VKeys   <- Vks
  NoKey   = "none"
  Pause   = "PAUSE"
  VKey    <- Set2
  Keys    <- Keys2
  Typing  = 3
INVARIANTS TypeOK NormalWhenIdle
PROPERTIES Reports
CHECK_DEADLOCK FALSE
