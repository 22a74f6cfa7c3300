CONSTANTS
  Files <- SliceFile
  WrittenBy = {314}
SPECIFICATION Spec
INVARIANT CPythonFilesLoad
CHECK_DEADLOCK TRUE
