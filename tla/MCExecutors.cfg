SPECIFICATION Spec
CONSTANTS
  f1 = f1
  f2 = f2
  f3 = f3
  f4 = f4
  OldFile = {f1, f2}
  NewFile = {f3, f4}
  Naming <- Namings
  a = a
  b = b
  Dir = {a, b}
  Media = {f1, f2}
  Edited = {f1}
SYMMETRY Symmetry
INVARIANTS
  CheckpointsDescribeFiles
  NoCopyIsLost
  RowHasItsFile
PROPERTIES
  NoContentIsLost
CHECK_DEADLOCK FALSE
