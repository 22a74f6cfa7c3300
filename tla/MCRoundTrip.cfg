CONSTANTS
  Programs <- Compilations
  SpamThreshold = 100
SPECIFICATION Spec
INVARIANT RoundTrip
INVARIANT NothingLost
INVARIANT OperandsUsed
INVARIANT NotFaulted
INVARIANT HandlersAhead
CHECK_DEADLOCK TRUE
