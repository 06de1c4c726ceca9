SPECIFICATION FairSpec
CONSTANTS
  KeyCodes <- LetterAndEquals
  Defaults <- AfterSelfTest
  LedParam = 2
  ConfigTries = 3
  RetryLimit = 3
  Broken = TRUE
  Flaky = 2
  Resends = 1
  Typing = 3
INVARIANTS TypeOK ConfigGood KeyboardReady
PROPERTIES Ends
CHECK_DEADLOCK FALSE
