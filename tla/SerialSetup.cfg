SPECIFICATION FairSpec
CONSTANTS
  NumDevices = 1
  PerByte    = {}
  Quiet      = {}
  FlushFirst = FALSE
  DrainAll   = TRUE
  Fifo       = 2
  Budget     = 2
INVARIANTS NeverSleepsOnInput
CHECK_DEADLOCK FALSE
