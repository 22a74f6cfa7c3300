CONSTANTS
  Programs <- AnyCode
  SpamThreshold = 2
SPECIFICATION FairSpec
INVARIANT BlocksOK
INVARIANT TreeOK
INVARIANT HandlersOK
PROPERTY ClosedIsFinal
PROPERTY Advances
PROPERTY Terminates
CHECK_DEADLOCK TRUE
