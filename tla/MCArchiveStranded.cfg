SPECIFICATION Spec
CONSTANTS
  j1 = j1  j2 = j2  j3 = j3
  i1 = i1  i2 = i2
  m1 = m1  m2 = m2
  Job = {j1, j2}
  Import = {i1}
  Media = {m1}
  NoJob = NoJob  NoImport = NoImport  NoDir = NoDir
  MaxControls = 1
  Listed = {}
CHECK_DEADLOCK FALSE
INVARIANTS
  NoImportIsStranded
