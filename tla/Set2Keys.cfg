SPECIFICATION Spec
CONSTANTS
  ScanSet = 2
  VKeys   <- Vks
  NoKey   = "none"
  Pause   = "PAUSE"
  VKey    <- Set2
  Keys    <- WrongKeys
  Typing  = 3
PROPERTIES DecodesRight
CHECK_DEADLOCK FALSE
