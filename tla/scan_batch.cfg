SPECIFICATION Spec
CONSTANTS
  f1 = f1
  f2 = f2
  f3 = f3
  p1 = p1
  p2 = p2
  p3 = p3
  t1 = t1
  t2 = t2
  Jobs = 1
  Finder = {f1, f2, f3}
  PathOf <- PathOfTwice
  TitleOf <- TitleOfPath
  Hashed = {p2}
  BatchSize = 2
  Faults = {}
  Overlap = FALSE
  MaxRestarts = 0
INVARIANTS
  FoundIsSaved
CHECK_DEADLOCK FALSE
