CONSTANT Files <- Compiled
SPECIFICATION FairSpec
INVARIANT ExitsOnlyWhenCut
INVARIANT TableDecoded
INVARIANT TargetsFound
INVARIANT InStep
INVARIANT SameInstructions
PROPERTY ReadsTheProgram
PROPERTY ReadToTheEnd
PROPERTY Advances
CHECK_DEADLOCK FALSE
