SPECIFICATION FairSpec
CONSTANTS
  NumDevices = 3
  PerByte    <- Keyboard
  Quiet      <- SerialPorts
  FlushFirst = FALSE
  DrainAll   = TRUE
  Fifo       = 2
  Budget     = 4
INVARIANTS TypeOK InputAnnounced MaskedHasOwner
PROPERTIES InputDrained
CHECK_DEADLOCK FALSE
