------------------------------ MODULE Services ------------------------------
(* PlayItem, Candidates, RateLimiter, MetadataSync, ServerConfig, Indexers   *)
(* and Acquisition with callers that overlap, composed. One of them runs: no *)
(* action of one reads a variable of another, so every behaviour of each is  *)
(* one of this module's.                                                     *)
EXTENDS Naturals, FiniteSets

CONSTANTS
  \* PlayItem
  Viewer,
  \* Candidates
  Torrent, Nzb, Indexer, ByText, ById, Offered, Profile, Url, Magnet,
  SeederCap, ResolutionBonus, CodecBonus, RemuxBonus, MaxCandidates, RaceSize, MaxNzb, BatchSize,
  Accounts, AvailTTL, FailTTL, FailSize, MaxTime,
  Tries,     \* sets of attempts, one of which runs: tiers that share nothing
  \* RateLimiter
  Waiter, Interval, LastTick,
  \* MetadataSync
  SyncJob, Movie, Other,
  \* ServerConfig
  Admin, Boot, Base, Input, Prowlarr, MaxSaves,
  \* Indexers
  Row, Loop, Editor, Sweep, Site, TorBox, Offers, Forms, Changes, MaxRequests,
  \* Acquisition: passes of the monitor over one item, with one source
  Pass, Source, PassAccounts, PassRace, DebridItem, Download, None, OldLink, WebDAV, LocalFile

VARIABLES
  part,  \* the component that runs
  path, status, playing, sees, ffmpeg, refused,
  clock, avail, failed, lost, trying, offers, ranked, missing, since, hot, raced, unlaunched, left,
  now, next, call, due,
  configured, matched, hasCast, locked, syncing, todo, listed, found, done, job,
  stored, saving, copy, missed, tmdb, subtitles, started, torrentSvc, nzbSvc, changed,
  acquisition, monitors, sweepers, sweeping, syncs, prowlarrOn, saves, rebooted,
  indexers, writing, on, unwritten, write, cancelled, renamed, requests,
  acquired, linked, claim, stat, promoted, gone, fetch, pc, caller, tier, rounds, launched

playVars == <<path, status, playing, sees, ffmpeg, refused>>
candidateVars ==
  <<clock, avail, failed, lost, trying, offers, ranked, missing, since, hot, raced, unlaunched, left>>
limiterVars == <<now, next, call, due>>
metadataVars ==
  <<configured, matched, hasCast, locked, syncing, todo, listed, found, done, job>>
configVars ==
  <<stored, saving, copy, missed, tmdb, subtitles, started, torrentSvc, nzbSvc, changed,
    acquisition, monitors, sweepers, sweeping, syncs, prowlarrOn, saves, rebooted>>
indexerVars == <<indexers, writing, on, unwritten, write, cancelled, renamed, requests>>
overlapVars ==
  <<acquired, linked, claim, stat, promoted, gone, fetch, pc, caller, tier, rounds, launched>>
vars ==
  <<part, playVars, candidateVars, limiterVars, metadataVars, configVars, indexerVars,
    overlapVars>>

P == INSTANCE PlayItem WITH Configured <- TRUE, at <- playing
K == INSTANCE Candidates WITH now <- clock, at <- trying, found <- offers, todo <- unlaunched
L == INSTANCE RateLimiter WITH Call <- Waiter, MaxTime <- LastTick
M == INSTANCE MetadataSync WITH Job <- SyncJob, at <- syncing, row <- job
C == INSTANCE ServerConfig WITH at <- saving, restarted <- rebooted
I == INSTANCE Indexers WITH Admin <- Editor, rows <- indexers, at <- writing, todo <- unwritten
\* The monitor's passes over dead links and over upgrades, several at one time:
\* one source, no fast path.
A == INSTANCE Acquisition WITH
  Attempt <- Pass, Debrid <- DebridItem, Nzb <- Download,
  Accounts <- PassAccounts, RaceSize <- PassRace,
  Sources <- {Source}, Callers <- {"soft", "upgrade"}, Events <- {"timeout", "scan"},
  status <- acquired, path <- linked, job <- fetch, left <- rounds

ASSUME ServicesAssumption ==
  /\ P!ConstantsOK /\ K!ConstantsOK /\ L!ConstantsOK
  /\ M!ConstantsOK /\ C!ConstantsOK /\ I!ConstantsOK
  /\ Source \in A!Tier /\ PassAccounts \in Nat /\ PassRace \in Nat \ {0}
  /\ DebridItem \cap Download = {}
  /\ {None, OldLink, WebDAV, LocalFile} \cap (DebridItem \cup Download) = {}
  /\ None \notin A!Caller \cup {OldLink, WebDAV, LocalFile}

\* The choices of Init, made for the component that runs.
Init ==
  /\ part \in {"play", "candidates", "limiter", "metadata", "config", "indexers", "overlap"}
  /\ L!Init /\ C!Init
  /\ P!Init /\ (part # "play" => path = "none" /\ ffmpeg)
  /\ K!Init /\ {a \in K!Attempt : trying[a] = "search"} \in
                  (IF part = "candidates" THEN Tries ELSE {{}})
  /\ I!Init /\ (part # "indexers" => I!Rows = {})
  /\ A!Init /\ (part # "overlap" => linked = None)
  /\ M!Init /\ (part # "metadata" => configured = {} /\ matched = {})

OthersStay(one) ==
  /\ one # "play" => UNCHANGED playVars
  /\ one # "candidates" => UNCHANGED candidateVars
  /\ one # "indexers" => UNCHANGED indexerVars
  /\ one # "overlap" => UNCHANGED overlapVars
  /\ one # "limiter" => UNCHANGED limiterVars
  /\ one # "metadata" => UNCHANGED metadataVars
  /\ one # "config" => UNCHANGED configVars

Next ==
  /\ UNCHANGED part
  /\ \/ part = "play" /\ P!Next
     \/ part = "candidates" /\ K!Next
     \/ part = "indexers" /\ I!Next
     \/ part = "overlap" /\ A!Next
     \/ part = "limiter" /\ L!Next
     \/ part = "metadata" /\ M!Next
     \/ part = "config" /\ C!Next
  /\ OthersStay(part)

Spec == Init /\ [][Next]_vars

-----------------------------------------------------------------------------

\* Every variable of every part has its type.
ServiceTypes ==
  /\ P!TypeOK /\ K!TypeOK /\ L!TypeOK /\ M!TypeOK /\ C!TypeOK /\ I!TypeOK /\ A!TypeOK

\* A play of an item that can be searched for again is no dead end, unless a call
\* fails or the server has no encoder (httpapi/stream.go).
NoDeadEnd == P!NoDeadEnd

\* A race is among the best releases there are, and a URL that failed is not
\* forgotten (acquisition/service.go, nzb/service.go).
RacesAreSound == K!BestAreRaced /\ K!FailedIsRemembered

\* No two calls of an interval pass the limiter (debrid/limiter.go).
Paced == L!Paced

\* A metadata job has not matched more than it found (metadata/sync.go).
MatchedWithinFound == M!MatchedWithinFound

\* What runs is what the settings last read say (httpapi/server.go).
RunsAsConfigured == C!RunsAsConfigured

\* An indexer of Prowlarr has no more rows than loops ever mirrored it, however
\* long a cancelled loop, admins or the sweep take.
MirroredOncePerLoop == I!MirroredOncePerLoop

\* Passes that overlap on one item leave it neither in flight when none of them
\* works on it, nor out of the library when it has a link
\* (acquisition/monitor.go, acquisition/service.go).
OverlapKeepsItem == part = "overlap" => A!InFlightIsWorked /\ A!HygieneNeverDemotes
=============================================================================
