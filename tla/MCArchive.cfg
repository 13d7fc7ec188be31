SPECIFICATION Spec
CONSTANTS
  j1 = j1  j2 = j2  j3 = j3
  i1 = i1  i2 = i2
  m1 = m1  m2 = m2
  Job = {j1, j2}
  Import = {i1, i2}
  Media = {m1, m2}
  NoJob = NoJob  NoImport = NoImport  NoDir = NoDir
  MaxControls = 1
  Listed <- ListedHere
SYMMETRY Symmetry
CHECK_DEADLOCK FALSE
INVARIANTS
  ArchiveTypeOK
  RevisionsAreComplete
  CheckpointsHaveFiles
  DownloadIsUndisturbed
PROPERTIES
  OnlyQueueSeparates
  CancellationHolds
