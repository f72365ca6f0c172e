SPECIFICATION Spec
CONSTANTS
  torrents = torrents
  nzb1 = nzb1
  nzb2 = nzb2
  indexer1 = indexer1
  indexer2 = indexer2
  Viewer = {viewer1, viewer2}
  Torrent = {torrents}
  Nzb = {nzb1, nzb2}
  Indexer = {indexer1, indexer2}
  ByText = {indexer2}
  ById = {indexer1}
  Offered <- MCOffered
  Profile <- MCProfile
  Url = {"u1", "u2", "u3", "u4"}
  Magnet = {"u1", "u2"}
  SeederCap = 4
  ResolutionBonus = 2
  CodecBonus = 1
  RemuxBonus = 1
  MaxCandidates = 2
  RaceSize = 1
  MaxNzb = 2
  BatchSize = 2
  Accounts = 2
  AvailTTL = 1
  FailTTL = 1
  FailSize = 1
  MaxTime = 1
  Tries <- MCTries
  Waiter = {call1, call2, call3}
  Interval = 2
  LastTick = 6
  SyncJob = {job1, job2}
  Movie = {movie}
  Other = {album}
  Admin = {admin1, admin2}
  Boot = boot
  Base <- MCBase
  Input <- MCInput
  Prowlarr = TRUE
  MaxSaves = 2
  Row = {1, 2, 3}
  Loop = {1, 2}
  Editor = {admin}
  Sweep = sweep
  Site = {"proxy", "other"}
  TorBox = "torbox"
  Offers <- MCOffers
  Forms <- MCForms
  Changes <- MCChanges
  MaxRequests = 1
  Pass = {attempt1, attempt2}
  Source = "torrent"
  PassAccounts = 1
  PassRace = 2
  DebridItem = {item1, item2}
  Download = {}
  None = None
  OldLink = OldLink
  WebDAV = WebDAV
  LocalFile = LocalFile
SYMMETRY Symmetry
INVARIANTS
  ServiceTypes
  NoDeadEnd
  RacesAreSound
  Paced
  MatchedWithinFound
  RunsAsConfigured
  MirroredOncePerLoop
  OverlapKeepsItem
CHECK_DEADLOCK FALSE
