------------------------------ MODULE Progress ------------------------------
(* The components that owe somebody an end, composed: DirWalk, Requests,     *)
(* SeasonPack, TranscodeSessions and DebridResolve. One of them runs: no     *)
(* action of one reads a variable of another, so every behaviour of each is  *)
(* one of this module's.                                                     *)
EXTENDS DirWalk

CONSTANTS
  ContentRequest, Library, Opened, Targets, Handler,  \* Requests
  Episode, Viewed, Torrent, Usenet, Offers,  \* SeasonPack
  Session, Viewer, Slots, Segments,          \* TranscodeSessions
  Link, Kinds, Capacity                      \* DebridResolve

VARIABLES
  part,  \* the component that runs
  target, status, recorded, rows, begun, handling, req, lib, targets, missed, crowd,
  acquired, path, claimed, season_status, attempts, monitor, fallback, pack, files, used,
  mode, tracked, state, cancelled, run, proc, names, output, deletion, at, of,
  provider, row, error, ref, resolve, ctx, entry, removal, restarted

requestVars ==
  <<target, status, recorded, rows, begun, handling, req, lib, targets, missed, crowd>>
seasonVars ==
  <<acquired, path, claimed, season_status, attempts, monitor, fallback, pack, files, used>>
transcodeVars ==
  <<mode, tracked, state, cancelled, run, proc, names, output, deletion, at, of>>
resolveVars == <<provider, row, error, ref, resolve, ctx, entry, removal, restarted>>
progressVars == <<part, vars, requestVars, seasonVars, transcodeVars, resolveVars>>

R == INSTANCE Requests WITH Request <- ContentRequest, at <- handling, todo <- targets
S == INSTANCE SeasonPack WITH status <- acquired, season <- season_status, job <- pack
T == INSTANCE TranscodeSessions WITH removal <- deletion
D == INSTANCE DebridResolve WITH at <- resolve
\* What an episode owes whoever wants to see it, whoever works on it.
E(e) == INSTANCE ItemPromise WITH
  Candidate <- S!Pack \cup {"single"}, None <- "none",
  OldLink <- "single", WebDAV <- "single", LocalFile <- "single",
  status <- acquired[e], path <- path[e], gone <- {p \in S!Pack : pack[p] = "deleted"}

ASSUME ProgressAssumption ==
  R!ConstantsOK /\ S!ConstantsOK /\ T!ConstantsOK /\ D!ConstantsOK

\* The choices of Init, made for the component that runs.
ProgressInit ==
  /\ part \in {"walk", "request", "season", "transcode", "resolve"}
  /\ Init /\ R!Init /\ T!Init
  /\ S!Init /\ (part # "season" => \A p \in Usenet : pack[p] = "none")
  /\ D!Init /\ (part # "resolve" => provider = "torbox")

OthersStay(one) ==
  /\ one # "walk" => UNCHANGED vars
  /\ one # "request" => UNCHANGED requestVars
  /\ one # "season" => UNCHANGED seasonVars
  /\ one # "transcode" => UNCHANGED transcodeVars
  /\ one # "resolve" => UNCHANGED resolveVars

ProgressNext ==
  /\ UNCHANGED part
  /\ \/ part = "walk" /\ Next
     \/ part = "request" /\ R!Next
     \/ part = "season" /\ S!Next
     \/ part = "transcode" /\ T!Next
     \/ part = "resolve" /\ D!Next
  /\ OthersStay(part)

\* The fairness of each module, while it runs.
ProgressSpec ==
  /\ ProgressInit /\ [][ProgressNext]_progressVars
  /\ WF_vars(part = "walk" /\ Start)
  /\ \A w \in Worker : WF_vars(part = "walk" /\ Work(w))
  /\ WF_seasonVars(part = "season" /\ S!Monitor)
  /\ \A h \in Handler : WF_requestVars(part = "request" /\ R!Step(h))
  /\ \A s \in Session :
       /\ WF_transcodeVars(part = "transcode" /\ T!Run(s))
       /\ WF_transcodeVars(part = "transcode" /\ T!Kill(s))
       /\ WF_transcodeVars(part = "transcode" /\ T!Remove(s))
  /\ \A v \in Viewer : WF_transcodeVars(part = "transcode" /\ T!Serve(v))
  /\ \A r \in Link :
       /\ WF_resolveVars(part = "resolve" /\ D!Resolve(r))
       /\ WF_resolveVars(part = "resolve" /\ D!Record(r))
       /\ WF_resolveVars(part = "resolve" /\ D!Expire(r))

-----------------------------------------------------------------------------
\* The types of the five modules.
ProgressTypes == TypeOK /\ R!TypeOK /\ S!TypeOK /\ T!TypeOK /\ D!TypeOK

\* WalkConcurrent does what WalkPromise says, and it does return: no Signal is
\* lost between a worker's look at the queue and its sleep, and the workers never
\* all wait for each other.
KeepsWalkPromise == Promise!SafeSpec /\ (part = "walk" => Promise!Progress)

\* However often a title is opened, requested and approved, a library never
\* holds more rows of it than handlers looked for one at one time.
RowsWithinCrowd == R!RowsWithinCrowd

\* Each episode of a season keeps what ItemPromise says of an item, though the
\* packs of a sweep, the late ones of earlier sweeps and its own attempts work on
\* it at one time: a link stays, 'owned' is said with a link only, and no pack is
\* deleted that it plays or that it is given later (acquisition/monitor.go,
\* debrid/promote.go).
EpisodesKeepPromise ==
  /\ \A e \in Episode : E(e)!Init
  /\ [][\A e \in Episode : [E(e)!Next]_(E(e)!promiseVars)]_seasonVars

\* No session's directory is leaked but by a Stop that ffmpeg outlives
\* (transcode/session.go).
OutputIsOwned == T!OutputIsOwned

\* A row leaves 'resolving' however the provider answers, unless the process
\* dies or its finishing statement fails (debrid/service.go).
RowEnds == part = "resolve" => D!RowEnds

\* No provider's protocol gets to a result before its torrent is cached, but for
\* TorBox's when the torrent is missing from its list and another is taken for it
\* (debrid/torbox.go, realdebrid.go, alldebrid.go, debridlink.go).
LinksAreOfCached == D!LinksAreOfCached
=============================================================================
