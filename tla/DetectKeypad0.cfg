SPECIFICATION Spec
CONSTANTS
  KeysOf <- Keypad0
  Typing = 4
INVARIANTS DetectsRight
CHECK_DEADLOCK FALSE
