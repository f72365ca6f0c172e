SPECIFICATION ProgressSpec
CONSTANTS
  top = top
  series = series
  season = season
  locked = locked
  movies = movies
  other = other
  Dir <- MCDir
  Sub <- MCSub
  Roots = {top}
  Unreadable = {locked}
  Worker = {w1, w2, w3}
  Main = Main
  None = None
  request = request
  hd = hd
  uhd = uhd
  episode1 = episode1
  torrentPack = torrentPack
  nzbPack = nzbPack
  session1 = session1
  ContentRequest = {request}
  Library = {hd, uhd}
  Opened = {hd}
  Targets <- MCTargets
  Handler = {handler1, handler2}
  Episode = {episode1, episode2}
  Viewed = {episode1, episode2}
  Torrent = {torrentPack}
  Usenet = {nzbPack}
  Offers <- MCOffers
  Session = {session1, session2}
  Viewer = {viewer}
  Slots = 1
  Segments = 2
  Link = {link}
  Kinds = {"realdebrid", "torbox", "alldebrid", "premiumize", "debridlink"}
  Capacity = 1
INVARIANTS
  ProgressTypes
  RowsWithinCrowd
  OutputIsOwned
PROPERTIES
  EmittedOnce
  EpisodesKeepPromise
  KeepsWalkPromise
  ApprovedIsFulfilled
  PendingIsTried
  SessionsEnd
  RowEnds
  LinksAreOfCached
CHECK_DEADLOCK FALSE
