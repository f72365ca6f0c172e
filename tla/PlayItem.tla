------------------------------ MODULE PlayItem ------------------------------
(* The play handler over an item whose row and whose link change under it  *)
(* (httpapi/stream.go, transcode/decision.go, transcode/ffprobe.go). The   *)
(* acquisition it starts is its outcome only: Acquisition has the rest. A  *)
(* session it starts is one of TranscodeSessions.                          *)
EXTENDS Naturals

CONSTANTS
  Viewer,     \* requests that run at one time
  Configured  \* whether the server has an acquisition service, throughout

ConstantsOK == Configured \in BOOLEAN

VARIABLES
  path,       \* "none", a "local" file, a "live" or a "dead" link
  status,     \* acquisition_status; "searching" stands for "acquiring" too
  at,         \* viewer -> "idle", "probing", or "direct" once told to stream
  sees,       \* viewer -> the path its play read
  ffmpeg,     \* whether the server found an encoder when it started
  refused     \* viewer -> why its last play was turned down: "unplayable" (422, no
              \* file to play), "unavailable" (503, nothing to search or transcode
              \* with), "failed" (a call of the play failed), or "no"

itemVars == <<path, status, ffmpeg>>
vars == <<itemVars, at, sees, refused>>

Remote == {"live", "dead"}

\* What ffprobe tells of a file and what the client's player decodes.
MediaInfo == [video : {"none", "web", "other"}, audio : {"web", "other"}, native : BOOLEAN]
ClientCapabilities == [video : BOOLEAN, audio : BOOLEAN]

VideoCompatible(info, caps) == info.video \in {"none", "web"} \/ (info.video = "other" /\ caps.video)
AudioCompatible(info, caps) == info.audio = "web" \/ caps.audio
ContainerCompatible(info) == info.video = "none" \/ info.native

Decide(info, caps) ==
  CASE VideoCompatible(info, caps) /\ AudioCompatible(info, caps) /\ ContainerCompatible(info)
         -> "direct"
    [] info.video # "none" /\ VideoCompatible(info, caps) /\
         ~(AudioCompatible(info, caps) /\ ContainerCompatible(info)) -> "remux"
    [] OTHER -> "transcode"

\* An audio track of the viewer's choice is never played directly.
Mode(info, caps, track) ==
  IF track /\ Decide(info, caps) = "direct" THEN "remux" ELSE Decide(info, caps)

Answer(v, no) ==
  /\ at' = [at EXCEPT ![v] = "idle"] /\ sees' = [sees EXCEPT ![v] = "none"]
  /\ refused' = [refused EXCEPT ![v] = no]

-----------------------------------------------------------------------------
(* The row as Acquisition changes it.                                      *)

LinkDies ==
  /\ path = "live" /\ path' = "dead"
  /\ UNCHANGED <<status, at, sees, ffmpeg, refused>>

\* A search ends with a new link, or with the old path and 'error'.
AcquisitionEnds ==
  /\ status = "searching"
  /\ \/ status' = "owned" /\ path' = "live"
     \/ status' = "error" /\ UNCHANGED path
  /\ UNCHANGED <<at, sees, ffmpeg, refused>>

-----------------------------------------------------------------------------
(* handlePlayItem: the status is looked at before the path.                *)

\* The row, or the viewer's access to its library, cannot be read.
LoadFails(v) ==
  /\ at[v] # "probing"
  /\ Answer(v, "failed") /\ UNCHANGED itemVars

\* An acquisition in flight is reported, and the path not probed.
PlayInFlight(v) ==
  /\ at[v] # "probing" /\ status = "searching"
  /\ Answer(v, "no") /\ UNCHANGED itemVars

\* handleAcquiringPlay of an item without a path. Acquire fails before it
\* changes the row, or not at all.
PlayPlaceholder(v) ==
  /\ at[v] # "probing" /\ status # "searching" /\ path = "none"
  /\ IF status \in {"placeholder", "error"} /\ Configured
     THEN \/ status' = "searching" /\ Answer(v, "no")
          \/ UNCHANGED status /\ Answer(v, "failed")
     ELSE /\ UNCHANGED status
          /\ Answer(v, IF status = "owned" THEN "unplayable" ELSE "unavailable")
  /\ UNCHANGED <<path, ffmpeg>>

PlayProbes(v) ==
  /\ at[v] # "probing" /\ status # "searching" /\ path # "none"
  /\ at' = [at EXCEPT ![v] = "probing"] /\ sees' = [sees EXCEPT ![v] = path]
  /\ UNCHANGED <<itemVars, refused>>

\* Both attempts failed. Reacquire does nothing while a search is in flight; it
\* does not look whether the row holds another link by now. When it fails, its
\* fast path may have set the status first, and the play is answered as if
\* nothing could replace the file.
Reacquire(v) ==
  \/ status' = "searching" /\ Answer(v, "no")
  \/ status' \in {status, "searching", "error"} /\ Answer(v, "failed")

ProbeFailsOwnedOnly(v) ==
  /\ at[v] = "probing"
  /\ IF sees[v] \in Remote /\ Configured /\ status = "owned"
     THEN Reacquire(v)
     ELSE UNCHANGED status /\ Answer(v, "unplayable")
  /\ UNCHANGED <<path, ffmpeg>>

ProbeFails(v) ==
  /\ at[v] = "probing"
  /\ IF sees[v] \in Remote /\ Configured
     THEN Reacquire(v)
     ELSE UNCHANGED status /\ Answer(v, "unplayable")
  /\ UNCHANGED <<path, ffmpeg>>

\* One of two attempts reads the file: direct play, or a session, which needs an
\* encoder and fails to start when its directory cannot be made.
ProbeSucceeds(v) ==
  /\ at[v] = "probing" /\ sees[v] # "dead"
  /\ \E info \in MediaInfo, caps \in ClientCapabilities, track \in BOOLEAN :
       IF Mode(info, caps, track) = "direct"
       THEN /\ at' = [at EXCEPT ![v] = "direct"] /\ sees' = [sees EXCEPT ![v] = "none"]
            /\ refused' = [refused EXCEPT ![v] = "no"]
       ELSE \E no \in IF ffmpeg THEN {"no", "failed"} ELSE {"unavailable"} : Answer(v, no)
  /\ UNCHANGED itemVars

\* handleDirectStream reads the row again: a file is served, a link proxied,
\* and a link that died since is the player's network error.
DirectStream(v) ==
  /\ at[v] = "direct"
  /\ Answer(v, IF path = "none" THEN "unplayable" ELSE "no") /\ UNCHANGED itemVars

-----------------------------------------------------------------------------

Init ==
  /\ path \in {"none", "local", "live"}
  /\ status = IF path = "none" THEN "placeholder" ELSE "owned"
  /\ at = [v \in Viewer |-> "idle"]
  /\ sees = [v \in Viewer |-> "none"]
  /\ ffmpeg \in BOOLEAN
  /\ refused = [v \in Viewer |-> "no"]

Next ==
  \/ LinkDies \/ AcquisitionEnds
  \/ \E v \in Viewer :
       \/ LoadFails(v) \/ PlayInFlight(v) \/ PlayPlaceholder(v) \/ PlayProbes(v)
       \/ ProbeFails(v) \/ ProbeSucceeds(v) \/ DirectStream(v)

Spec == Init /\ [][Next]_vars

-----------------------------------------------------------------------------
(* Properties.                                                             *)

\* The columns of the row and what each viewer last read of them.
TypeOK ==
  /\ path \in {"none", "local"} \cup Remote
  /\ status \in {"placeholder", "searching", "owned", "error"}
  /\ at \in [Viewer -> {"idle", "probing", "direct"}]
  /\ sees \in [Viewer -> {"none", "local"} \cup Remote]
  /\ ffmpeg \in BOOLEAN
  /\ refused \in [Viewer -> {"no", "unplayable", "unavailable", "failed"}]

\* With acquisition configured no play is told that its item has nothing to play
\* but that of a local file that cannot be read, and none that the server lacks
\* something but a play to be transcoded by a server without an encoder: an item
\* whose link died, whose search failed or whose row changed during the probe is
\* searched for again. A call of the play that fails (the store, Acquire,
\* Reacquire, the start of a session) turns the play down too, and leaves a
\* status from which the next play searches or probes.
NoDeadEnd ==
  Configured =>
    /\ \A v \in Viewer :
         /\ refused[v] = "unplayable" => path = "local"
         /\ refused[v] = "unavailable" => ~ffmpeg
    /\ path = "none" => status # "owned"
=============================================================================
