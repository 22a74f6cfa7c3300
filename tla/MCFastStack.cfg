CONSTANTS
  Null = Null
  Node = {n1, n2}
  InitSize = 2
  MaxDepth = 3
  MaxHist = 2
SPECIFICATION Spec
CONSTRAINT Bounded
INVARIANT CellsOK
INVARIANT ReadsAgree
PROPERTY Refinement
CHECK_DEADLOCK TRUE
