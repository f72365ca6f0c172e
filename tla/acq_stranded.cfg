SPECIFICATION Spec
CONSTANTS
  Attempt = {a1}
  Debrid = {d1}
  Nzb = {n1}
  Accounts = 1
  RaceSize = 2
  Sources = {"torrent", "nzb"}
  Callers = {"acquire"}
  Events = {}
  None = None
  OldLink = OldLink
  WebDAV = WebDAV
  LocalFile = LocalFile
SYMMETRY Symmetry
INVARIANTS
  InFlightIsWorked
