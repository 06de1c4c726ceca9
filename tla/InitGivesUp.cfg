SPECIFICATION Spec
CONSTANTS
  KeyCodes <- LetterAndEquals
  Defaults <- AfterSelfTest
  LedParam = 2
  ConfigTries = 3
  RetryLimit = 1
  Broken = FALSE
  Flaky = 1
  Resends = 0
  Typing = 2
INVARIANTS GivesUpOnFailure
CHECK_DEADLOCK FALSE
