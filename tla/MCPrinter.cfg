CONSTANTS Sources <- Modules
          Nodes <- ModuleNodes
SPECIFICATION FairSpec
INVARIANTS
  ReadsBack
  FlagsArrive
  GlobalsAtEnd
PROPERTY Finishes
CHECK_DEADLOCK FALSE
