CONSTANTS
  Programs <- If314
  SpamThreshold = 100
SPECIFICATION WatchSpec
INVARIANT RoundTrip
CHECK_DEADLOCK TRUE
