CONSTANTS
  Programs <- StatementAfterTry
  SpamThreshold = 100
SPECIFICATION WatchSpec
INVARIANT ErrorRemembered
CHECK_DEADLOCK TRUE
