CONSTANTS
  Files <- AllFiles
  WrittenBy = {100, 103, 105, 201, 203, 204, 207, 300, 304, 307, 308, 311, 314}
SPECIFICATION Spec
INVARIANT TypeOK
INVARIANT HalfLoadedIsOnFrame
INVARIANT FieldsOfClass
PROPERTY LoadedIsFinal
PROPERTY Advances
INVARIANT CPythonFilesLoad
INVARIANT SameGraph
CHECK_DEADLOCK TRUE
