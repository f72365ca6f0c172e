SPECIFICATION Spec
CONSTANTS
  Attempt = {a1}
  Debrid = {d1}
  Nzb = {n1}
  Accounts = 1
  RaceSize = 2
  Sources = {"torrent", "nzb"}
  Callers = {"acquire", "reacquire", "soft", "upgrade"}
  Events = {"fastpath", "webdav", "scan", "timeout", "writefail"}
  None = None
  OldLink = OldLink
  WebDAV = WebDAV
  LocalFile = LocalFile
INVARIANTS
  TypeOK
  OwnedHasPath
  PlayedLinkIsKept
  ClaimantIsKept
PROPERTIES
  KeepsPromise
