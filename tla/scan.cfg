SPECIFICATION FairSpec
CONSTANTS
  f1 = f1
  f2 = f2
  f3 = f3
  p1 = p1
  p2 = p2
  p3 = p3
  t1 = t1
  t2 = t2
  Jobs = 2
  Finder = {f1, f2}
  PathOf <- PathOfEach
  TitleOf <- TitleOfPath
  Hashed = {}
  BatchSize = 1
  Faults = {"push", "upsert", "counts", "delete", "list", "probe", "promote", "mark", "finish"}
  Overlap = FALSE
  MaxRestarts = 1
INVARIANTS
  TypeOK
  FoundIsSaved
  OneItemPerTitle
  SyncedWithinFound
PROPERTIES
  ScanEnds
CHECK_DEADLOCK FALSE
