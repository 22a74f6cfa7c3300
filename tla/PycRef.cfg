CONSTANTS
  Objects = {o1, o2, o3}
  Variables = {x, y}
  Members = {m}
  Null = Null
  Arg = Arg
  None = None
  MaxLost = 1
SPECIFICATION FairSpec
INVARIANT Counted
INVARIANT NoDangling
INVARIANT KeptByHolder
PROPERTY Unwinds
PROPERTY Freed
CHECK_DEADLOCK TRUE
