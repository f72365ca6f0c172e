SPECIFICATION Spec
CONSTANTS
  Own = {r1, r2}
  Wanted = {r1, r2}
  Foreign = {}
  Import = {}
  Cached = {r1, r2}
  MaxRestarts = 1
  Sweep = Sweep
  None = None
INVARIANTS
  TypeOK
PROPERTIES
  FirstWinnerStays
