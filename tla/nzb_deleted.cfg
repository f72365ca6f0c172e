SPECIFICATION Spec
CONSTANTS
  Own = {r1}
  Wanted = {r1}
  Foreign = {}
  Import = {}
  Cached = {r1}
  MaxRestarts = 0
  Sweep = Sweep
  None = None
INVARIANTS
  PlayedDownloadIsKept
