SPECIFICATION Spec
CONSTANTS
  Attempt = {a1}
  Debrid = {d1, d2}
  Nzb = {}
  Accounts = 2
  RaceSize = 2
  Sources = {"torrent"}
  Callers = {"acquire", "reacquire", "soft", "upgrade"}
  Events = {"timeout", "restart", "writefail"}
  None = None
  OldLink = OldLink
  WebDAV = WebDAV
  LocalFile = LocalFile
INVARIANTS
  InFlightIsWorked
  RaceHasOneWinner
PROPERTIES
  InFlightEnds
  AttemptEnds
  ResolveEnds
