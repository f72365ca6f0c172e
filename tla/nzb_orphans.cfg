SPECIFICATION Spec
CONSTANTS
  Own = {r1}
  Wanted = {r1}
  Foreign = {f1}
  Import = {i1, i2, i3}
  Cached = {}
  MaxRestarts = 1
  Sweep = Sweep
  None = None
INVARIANTS
  FilesRecordedOnce
PROPERTIES
  ForeignIsKept
  DownloadIsRecorded
  RepairingEnds
