------------------------- MODULE TranscodeSessions -------------------------
(* The queue of ffmpeg sessions, the requests for the files a session      *)
(* writes while it writes them, and the two ways its output is removed     *)
(* (transcode/session.go, httpapi/stream.go).                              *)
EXTENDS Naturals, FiniteSets

CONSTANTS
  Session,    \* session ids; uuid.NewString never returns one twice
  Viewer,     \* requests for session files that run at one time
  Slots,      \* maxConcurrent
  Segments    \* bound: segments one ffmpeg process creates

ConstantsOK == Slots \in Nat \ {0} /\ Segments \in Nat \ {0}

VARIABLES
  mode,       \* session -> "none", "remux" or "transcode"
  tracked,    \* keys of Manager.sessions
  state,      \* session -> Session.status
  cancelled,  \* sessions whose cancel was called
  run,        \* session -> where Manager.run is
  proc,       \* session -> its ffmpeg: "off", "on", exited "ok" or "err"
  names,      \* session -> files its ffmpeg created
  output,     \* session -> its directory: "none", "empty" or "files"
  removal,    \* session -> progress of os.RemoveAll and what it returned
  at,         \* viewer -> where its request is
  of          \* viewer -> the session it looked up, or "none"

fileVars == <<names, output, removal>>
sessionVars == <<mode, tracked, state, cancelled, run, proc>>
viewerVars == <<at, of>>
vars == <<sessionVars, fileVars, viewerVars>>

Goto(v, where) == at' = [at EXCEPT ![v] = where]
Done(v) == Goto(v, "idle") /\ of' = [of EXCEPT ![v] = "none"]

\* StartSession: the directory, the record, then the goroutine.
StartSession(s) ==
  /\ mode[s] = "none"
  /\ \E m \in {"remux", "transcode"} : mode' = [mode EXCEPT ![s] = m]
  /\ output' = [output EXCEPT ![s] = "empty"]
  /\ tracked' = tracked \cup {s}
  /\ state' = [state EXCEPT ![s] = "starting"]
  /\ run' = [run EXCEPT ![s] = "queued"]
  /\ UNCHANGED <<cancelled, proc, names, removal, viewerVars>>

-----------------------------------------------------------------------------
(* Manager.run.                                                            *)

Holding == {s \in Session : run[s] \in {"starting", "running"}}

\* Mutant: the directory is made when the slot is taken.
TakeSlotMakesDir(s) ==
  /\ run[s] = "queued" /\ Cardinality(Holding) < Slots
  /\ run' = [run EXCEPT ![s] = "starting"]
  /\ output' = [output EXCEPT ![s] = IF @ = "none" THEN "empty" ELSE @]
  /\ UNCHANGED <<mode, tracked, state, cancelled, proc, names, removal, viewerVars>>

\* Both cases of the select may be ready: Go takes either.
TakeSlot(s) ==
  /\ run[s] = "queued" /\ Cardinality(Holding) < Slots
  /\ run' = [run EXCEPT ![s] = "starting"]
  /\ UNCHANGED <<mode, tracked, state, cancelled, proc, fileVars, viewerVars>>

LeaveQueue(s) ==
  /\ run[s] = "queued" /\ s \in cancelled
  /\ run' = [run EXCEPT ![s] = "ended"]
  /\ state' = [state EXCEPT ![s] = "stopped"]
  /\ UNCHANGED <<mode, tracked, cancelled, proc, fileVars, viewerVars>>

Launch(s) ==
  /\ run[s] = "starting" /\ s \notin cancelled
  /\ run' = [run EXCEPT ![s] = "running"]
  /\ state' = [state EXCEPT ![s] = "running"]
  /\ proc' = [proc EXCEPT ![s] = "on"]
  /\ UNCHANGED <<mode, tracked, cancelled, fileVars, viewerVars>>

\* cmd.Start fails, as it always does once the context is cancelled.
LaunchFails(s) ==
  /\ run[s] = "starting"
  /\ run' = [run EXCEPT ![s] = "ended"]
  /\ state' = [state EXCEPT ![s] = "failed"]
  /\ UNCHANGED <<mode, tracked, cancelled, proc, fileVars, viewerVars>>

\* ffmpeg creates its one file or the next segment: a new name in the directory,
\* and an error once that is gone. What it appends needs no name.
Write(s) ==
  /\ proc[s] = "on" /\ output[s] # "none"
  /\ names[s] < IF mode[s] = "remux" THEN 1 ELSE Segments
  /\ names' = [names EXCEPT ![s] = @ + 1]
  /\ output' = [output EXCEPT ![s] = "files"]
  /\ UNCHANGED <<sessionVars, removal, viewerVars>>

\* ffmpeg ends by itself, or is killed some time after the cancel.
Exit(s) ==
  /\ proc[s] = "on"
  /\ \E code \in {"ok", "err"} : proc' = [proc EXCEPT ![s] = code]
  /\ UNCHANGED <<mode, tracked, state, cancelled, run, fileVars, viewerVars>>

\* Mutant: the slot is given back while ffmpeg runs.
EndRunEarly(s) ==
  /\ run[s] = "running"
  /\ run' = [run EXCEPT ![s] = "ended"]
  /\ state' = [state EXCEPT ![s] =
                 IF proc[s] = "err" /\ s \notin cancelled THEN "failed" ELSE "stopped"]
  /\ UNCHANGED <<mode, tracked, cancelled, proc, fileVars, viewerVars>>

\* Mutant: the slot of a process that failed is not given back.
EndRunKeepsSlot(s) ==
  /\ run[s] = "running" /\ proc[s] # "on"
  /\ run' = [run EXCEPT ![s] = IF proc[s] = "err" THEN @ ELSE "ended"]
  /\ state' = [state EXCEPT ![s] =
                 IF proc[s] = "err" /\ s \notin cancelled THEN "failed" ELSE "stopped"]
  /\ UNCHANGED <<mode, tracked, cancelled, proc, fileVars, viewerVars>>

\* cmd.Wait returns and the slot is given back.
EndRun(s) ==
  /\ run[s] = "running" /\ proc[s] # "on"
  /\ run' = [run EXCEPT ![s] = "ended"]
  /\ state' = [state EXCEPT ![s] =
                 IF proc[s] = "err" /\ s \notin cancelled THEN "failed" ELSE "stopped"]
  /\ UNCHANGED <<mode, tracked, cancelled, proc, fileVars, viewerVars>>

-----------------------------------------------------------------------------
(* Stop and ClearFinished: the record goes first, the files after it.      *)

Stop(s) ==
  /\ s \in tracked
  /\ tracked' = tracked \ {s}
  /\ cancelled' = cancelled \cup {s}
  /\ removal' = [removal EXCEPT ![s] = "stop"]
  /\ UNCHANGED <<mode, state, run, proc, names, output, viewerVars>>

Finished == {s \in tracked : state[s] \in {"stopped", "failed"}}

ClearFinished ==
  /\ Finished # {}
  /\ tracked' = tracked \ Finished
  /\ removal' = [s \in Session |-> IF s \in Finished THEN "clear" ELSE removal[s]]
  /\ UNCHANGED <<mode, state, cancelled, run, proc, names, output, viewerVars>>

\* RemoveAll removes the names it read, then the directory: one more name in
\* between and it fails, and nobody tries again.
RemoveFiles(s) ==
  /\ removal[s] \in {"stop", "clear"} /\ output[s] = "files"
  /\ output' = [output EXCEPT ![s] = "empty"]
  /\ removal' = [removal EXCEPT ![s] = IF @ = "stop" THEN "stop2" ELSE "clear2"]
  /\ UNCHANGED <<sessionVars, names, viewerVars>>

RemoveDir(s) ==
  /\ \/ removal[s] \in {"stop", "clear"} /\ output[s] = "empty"
     \/ removal[s] \in {"stop2", "clear2"}
  /\ IF output[s] = "empty"
     THEN /\ output' = [output EXCEPT ![s] = "none"]
          /\ removal' = [removal EXCEPT ![s] = "ok"]
     ELSE /\ UNCHANGED output
          /\ removal' = [removal EXCEPT ![s] = IF @ = "stop2" THEN "stopfailed" ELSE "clearfailed"]
  /\ UNCHANGED <<sessionVars, names, viewerVars>>

-----------------------------------------------------------------------------
(* handleSessionFile.                                                      *)

\* The lookup; the record is kept through a Stop that comes later.
Request(v, s) ==
  /\ at[v] = "idle" /\ mode[s] # "none"
  /\ IF s \in tracked
     THEN Goto(v, "waiting") /\ of' = [of EXCEPT ![v] = s]
     ELSE UNCHANGED viewerVars
  /\ UNCHANGED <<sessionVars, fileVars>>

FileAppears(v) ==
  /\ at[v] = "waiting" /\ output[of[v]] = "files"
  /\ Goto(v, "opening")
  /\ UNCHANGED <<sessionVars, fileVars, of>>

\* The session failed, the eight seconds are over, or the client left.
WaitEnds(v) ==
  /\ at[v] = "waiting"
  /\ Done(v)
  /\ UNCHANGED <<sessionVars, fileVars>>

\* The file may have been removed since it was seen. A playlist or a segment
\* is sent once, as it is; the file of a remux is followed.
Open(v) ==
  /\ at[v] = "opening"
  /\ IF output[of[v]] # "files" THEN Done(v)
     ELSE IF mode[of[v]] = "transcode" THEN Done(v)
     ELSE Goto(v, "streaming") /\ UNCHANGED of
  /\ UNCHANGED <<sessionVars, fileVars>>

\* streamGrowingFile: the open file outlives its name; the read that meets its
\* end comes after any number of others.
ReadEOF(v) ==
  /\ at[v] = "streaming"
  /\ Goto(v, "eof")
  /\ UNCHANGED <<sessionVars, fileVars, of>>

\* The status is read after the end of the file: what ffmpeg writes and ends
\* with in between is not sent.
Follow(v) ==
  /\ at[v] = "eof"
  /\ IF state[of[v]] \in {"starting", "running"}
     THEN Goto(v, "streaming") /\ UNCHANGED of
     ELSE Done(v)
  /\ UNCHANGED <<sessionVars, fileVars>>

Leave(v) ==
  /\ at[v] \in {"streaming", "eof"}
  /\ Done(v)
  /\ UNCHANGED <<sessionVars, fileVars>>

-----------------------------------------------------------------------------
Init ==
  /\ mode = [s \in Session |-> "none"]
  /\ tracked = {} /\ cancelled = {}
  /\ state = [s \in Session |-> "none"]
  /\ run = [s \in Session |-> "none"]
  /\ proc = [s \in Session |-> "off"]
  /\ names = [s \in Session |-> 0]
  /\ output = [s \in Session |-> "none"]
  /\ removal = [s \in Session |-> "none"]
  /\ at = [v \in Viewer |-> "idle"]
  /\ of = [v \in Viewer |-> "none"]

Run(s) == TakeSlot(s) \/ LeaveQueue(s) \/ Launch(s) \/ LaunchFails(s) \/ EndRun(s)
Remove(s) == RemoveFiles(s) \/ RemoveDir(s)
Serve(v) == FileAppears(v) \/ WaitEnds(v) \/ Open(v) \/ ReadEOF(v) \/ Follow(v)

Next ==
  \/ ClearFinished
  \/ \E s \in Session :
       \/ StartSession(s) \/ Run(s) \/ Write(s) \/ Exit(s) \/ Stop(s) \/ Remove(s)
       \/ \E v \in Viewer : Request(v, s)
  \/ \E v \in Viewer : Serve(v) \/ Leave(v)

\* Manager.run, RemoveAll and a request that is served go on as goroutines do;
\* a cancelled context kills ffmpeg, which else may run for as long as it likes.
Kill(s) == s \in cancelled /\ Exit(s)
Fairness ==
  /\ \A s \in Session : WF_vars(Run(s)) /\ WF_vars(Kill(s)) /\ WF_vars(Remove(s))
  /\ \A v \in Viewer : WF_vars(Serve(v))

Spec == Init /\ [][Next]_vars /\ Fairness

-----------------------------------------------------------------------------
(* Properties.                                                             *)

\* The fields of a session and of the request that follows it; ffmpeg runs only
\* while the goroutine waits for it.
TypeOK ==
  /\ mode \in [Session -> {"none", "remux", "transcode"}]
  /\ tracked \subseteq Session /\ cancelled \subseteq Session
  /\ state \in [Session -> {"none", "starting", "running", "stopped", "failed"}]
  /\ run \in [Session -> {"none", "queued", "starting", "running", "ended"}]
  /\ proc \in [Session -> {"off", "on", "ok", "err"}]
  /\ \A s \in Session : proc[s] = "on" => run[s] = "running"
  /\ names \in [Session -> 0 .. Segments]
  /\ output \in [Session -> {"none", "empty", "files"}]
  /\ removal \in [Session -> {"none", "stop", "stop2", "clear", "clear2",
                              "ok", "stopfailed", "clearfailed"}]
  /\ at \in [Viewer -> {"idle", "waiting", "opening", "streaming", "eof"}]
  /\ of \in [Viewer -> Session \cup {"none"}]
  /\ \A v \in Viewer : IF at[v] = "idle" THEN of[v] = "none" ELSE of[v] \in Session

\* A directory that no session of the manager owns is about to be removed, or
\* is the one kind the code can leak: an explicit Stop whose ffmpeg added a
\* segment while the directory was emptied. The admin's clearing leaks none,
\* and no directory comes back once its removal succeeded.
OutputIsOwned ==
  \A s \in Session : output[s] # "none" =>
    s \in tracked \/ removal[s] \in {"stop", "stop2", "clear", "clear2", "stopfailed"}

\* No more ffmpeg processes run than there are slots, though a slot is taken long
\* before the process starts and outlives it.
SlotsSuffice == Cardinality({s \in Session : proc[s] = "on"}) <= Slots

\* After a Stop the goroutine and the ffmpeg of the session end, and so does
\* every request that waits for its files or follows one.
StopEnds(s) ==
  s \in cancelled ~> run[s] = "ended" /\ proc[s] # "on" /\ \A v \in Viewer : of[v] # s

\* A session waits in the queue for nothing but ffmpeg processes that run: no
\* session that failed, ended or was stopped keeps a slot.
IsServed(s) ==
  run[s] = "queued" ~> run[s] # "queued" \/ Cardinality({t \in Session : proc[t] = "on"}) = Slots
=============================================================================
