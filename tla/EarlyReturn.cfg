CONSTANTS
  Programs <- EarlyReturn
  SpamThreshold = 100
SPECIFICATION WatchSpec
INVARIANT RoundTrip
CHECK_DEADLOCK TRUE
