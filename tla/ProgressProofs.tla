--------------------------- MODULE ProgressProofs ---------------------------
(***************************************************************************)
(* Proofs about the components that Progress composes, for every value of  *)
(* the constants: each component's inductive invariant, and that every     *)
(* step of the composition is one of the component.                        *)
(***************************************************************************)
EXTENDS Progress, DirWalkProofs

\* A step of the composition is a step of each component, or none.
LEMMA StepIsOfParts ==
  ASSUME [ProgressNext]_progressVars
  PROVE  /\ [Next]_vars /\ [R!Next]_(R!vars) /\ [S!Next]_(S!vars)
         /\ [T!Next]_(T!vars) /\ [D!Next]_(D!vars)
<1>1. [Next]_vars
  BY DEF ProgressNext, OthersStay, progressVars
<1>2. [R!Next]_(R!vars)
  BY DEF ProgressNext, OthersStay, progressVars, requestVars, R!vars, R!requestVars,
         R!itemVars, R!handlerVars
<1>3. [S!Next]_(S!vars)
  BY DEF ProgressNext, OthersStay, progressVars, seasonVars, S!vars, S!episodeVars,
         S!monitorVars, S!packVars
<1>4. [T!Next]_(T!vars)
  BY DEF ProgressNext, OthersStay, progressVars, transcodeVars, T!vars, T!fileVars,
         T!sessionVars, T!viewerVars
<1>5. [D!Next]_(D!vars)
  BY DEF ProgressNext, OthersStay, progressVars, resolveVars, D!vars, D!recordVars
<1> QED BY <1>1, <1>2, <1>3, <1>4, <1>5

LEMMA InitIsOfParts ==
  ASSUME ProgressInit
  PROVE  Init /\ R!Init /\ S!Init /\ T!Init /\ D!Init
BY DEF ProgressInit

-----------------------------------------------------------------------------
(* DebridResolve.                                                          *)

\* A run asks for direct links with nothing on the account yet, and for the
\* links of what is cached, or was.
ResolveInv ==
  /\ D!TypeOK
  /\ \A r \in Link :
       /\ row[r] = "none" => resolve[r] = "none"
       /\ resolve[r] = "none" => entry[r] = "none"
       /\ resolve[r] = "direct" => provider = "premiumize" /\ entry[r] = "none"
       /\ resolve[r] = "links" => entry[r] \in {"cached", "gone"}
       /\ resolve[r] = "stray" => provider = "torbox" /\ entry[r] # "none"

LEMMA ResolveInvInit == D!Init => ResolveInv
<1> SUFFICES ASSUME D!Init PROVE ResolveInv
  OBVIOUS
<1>1. provider \in D!Provider
  BY ProgressAssumption DEF D!Init, D!ConstantsOK
<1>2. D!TypeOK
  BY <1>1 DEF D!Init, D!TypeOK, D!Requesting, D!Recording, D!Held
<1> QED BY <1>2 DEF D!Init, ResolveInv

LEMMA ResolveInvStep == ResolveInv /\ [D!Next]_(D!vars) => ResolveInv'
<1> SUFFICES ASSUME ResolveInv, [D!Next]_(D!vars) PROVE ResolveInv'
  OBVIOUS
<1> USE DEF ResolveInv, D!TypeOK, D!Requesting, D!Recording, D!Held, D!recordVars, D!Goto,
            D!Becomes
<1>1. ASSUME NEW r \in Link, D!AddLink(r) PROVE ResolveInv'
  BY <1>1 DEF D!AddLink
<1>2. ASSUME NEW r \in Link, D!Progress(r) PROVE ResolveInv'
  BY <1>2 DEF D!Progress
<1>3. ASSUME NEW r \in Link, D!Expire(r) PROVE ResolveInv'
  BY <1>3 DEF D!Expire
<1>4. ASSUME NEW r \in Link, D!Record(r) PROVE ResolveInv'
  BY <1>4 DEF D!Record, D!RecordRef, D!Finish, D!Promote, D!DeleteUnused, D!DeleteAtProvider
<1>5. ASSUME NEW r \in Link, D!Remove(r) PROVE ResolveInv'
  BY <1>5 DEF D!Remove, D!BeginRemove, D!RemoveAtProvider, D!MarkRemoved, D!DeleteAtProvider
<1>6. ASSUME D!Restart PROVE ResolveInv'
  BY <1>6 DEF D!Restart
<1>7. ASSUME UNCHANGED D!vars PROVE ResolveInv'
  BY <1>7 DEF D!vars
<1>8. ASSUME NEW r \in Link, D!Resolve(r) PROVE ResolveInv'
  <2>1. \A e \in D!Errors(r) : D!Kind(e) \in {"limited", "auth", "quota", "permanent", "other"}
    BY
       DEF D!Provider, D!Errors, D!Kind, D!RealDebridDo, D!TorBoxDo, D!AllDebridDo,
           D!AllDebridCheck,
           D!PremiumizeDo, D!PremiumizeCheck, D!DebridLinkDo, D!DebridLinkCheck
  <2>2. ASSUME NEW kind \in {"limited", "auth", "quota", "permanent", "other"}, D!Fail(r, kind),
               resolve[r] \in D!Requesting,
               UNCHANGED entry \/ \E next \in {"converting", "working", "cached"} : D!Becomes(r, next)
        PROVE  ResolveInv'
    BY <2>2 DEF D!Fail
  <2>3. ASSUME NEW errors \in SUBSET D!Errors(r), D!FailFor(r, errors),
               resolve[r] \in D!Requesting, UNCHANGED entry
        PROVE  ResolveInv'
    BY <2>1, <2>2, <2>3 DEF D!FailFor
  <2>4. ASSUME NEW where, D!Proceed(r, where), UNCHANGED entry, resolve[r] # "none",
               \/ where \in {"finish", "add", "poll", "select", "ref"}
               \/ where = "links" /\ entry[r] = "cached"
               \/ where = "stray" /\ provider = "torbox" /\ entry[r] # "none"
        PROVE  ResolveInv'
    BY <2>4 DEF D!Proceed
  <2>5. ASSUME NEW where \in {"links", "poll"}, D!Proceed(r, where), resolve[r] # "none",
               NEW next \in {"converting", "working", "cached"}, D!Becomes(r, next),
               where = "links" => next = "cached"
        PROVE  ResolveInv'
    BY <2>5 DEF D!Proceed
  <2>6. ASSUME NEW answer, NEW states \in SUBSET {"converting", "working", "cached"},
               D!Upload(r, answer, states)
        PROVE  ResolveInv'
    BY <2>2, <2>3, <2>5, <2>6 DEF D!Upload
  <2>7. CASE \/ D!AddMagnet(r) \/ D!CreateTorrent(r) \/ D!UploadMagnet(r)
             \/ D!CreateTransfer(r) \/ D!AddTorrent(r)
    BY <2>6, <2>7 DEF D!AddMagnet, D!CreateTorrent, D!UploadMagnet, D!CreateTransfer, D!AddTorrent
  <2>8. CASE D!DirectDL(r)
    BY <2>4, <2>8 DEF D!DirectDL
  <2>9. CASE D!PollUntil(r)
    BY <2>2, <2>3, <2>4, <2>9 DEF D!PollUntil
  <2>10. CASE \/ D!WaitForCache(r) \/ D!WaitUntilReady(r) \/ D!WaitForTransfer(r)
              \/ D!WaitUntilDownloaded(r)
    BY <2>2, <2>3, <2>4, <2>10
    DEF D!WaitForCache, D!Fallback, D!WaitUntilReady, D!WaitForTransfer, D!WaitUntilDownloaded
  <2>11. CASE D!SelectFiles(r)
    BY <2>2, <2>3, <2>4, <2>11 DEF D!SelectFiles, D!Proceed
  <2>12. ASSUME NEW answer, D!Fetch(r, answer) PROVE ResolveInv'
    BY <2>3, <2>4, <2>12 DEF D!Fetch
  <2>13. CASE D!RequestDownloadLinks(r)
    BY <2>3, <2>4, <2>12, <2>13 DEF D!RequestDownloadLinks
  <2> QED
    BY <1>8, <2>7, <2>8, <2>9, <2>10, <2>11, <2>12, <2>13
    DEF D!Resolve, D!ResolveRealDebrid, D!ResolveTorBox, D!ResolveAllDebrid, D!ResolvePremiumize,
        D!ResolveDebridLink, D!UnrestrictLinks, D!MagnetFiles, D!FolderFiles
<1> QED BY <1>1, <1>2, <1>3, <1>4, <1>5, <1>6, <1>7, <1>8 DEF D!Next

\* The links a resolve asks for are of a torrent that was cached, whatever the
\* provider answers, expires or is made to delete meanwhile; with TorBox they are,
\* or the torrent was missing from a list and another was taken for it.
THEOREM LinksAreOfCachedHolds == ProgressSpec => LinksAreOfCached
<1> DEFINE Justified(r) == \/ entry[r] = "cached"
                           \/ provider = "premiumize" /\ entry[r] = "none"
                           \/ provider = "torbox" /\ resolve[r] = "stray"
           Linked(r) == resolve[r] \in D!Requesting /\ resolve'[r] \in D!Recording => Justified(r)
<1>1. ASSUME ResolveInv, [D!Next]_(D!vars) PROVE [\A r \in Link : Linked(r)]_(D!vars)
  <2> SUFFICES ASSUME NEW r \in Link, D!Next, resolve[r] \in D!Requesting,
                      resolve'[r] \in D!Recording
               PROVE  Justified(r)
    BY <1>1
  <2> USE DEF D!Requesting, D!Recording, D!Goto, ResolveInv, D!TypeOK
  <2>1. ASSUME NEW q \in Link,
               \/ D!AddLink(q) \/ D!Progress(q) \/ D!Expire(q) \/ D!Record(q) \/ D!Remove(q)
               \/ D!Restart
        PROVE  FALSE
    BY <1>1, <2>1
    DEF D!AddLink, D!Progress, D!Expire, D!Record, D!RecordRef, D!Finish, D!Promote,
        D!DeleteUnused,
        D!Remove, D!BeginRemove, D!RemoveAtProvider, D!MarkRemoved, D!Restart
  <2>2. ASSUME NEW q \in Link, D!Resolve(q)
        PROVE  Justified(r)
    <3>1. \A where : D!Proceed(q, where) => resolve' = [resolve EXCEPT ![q] = where]
      BY DEF D!Proceed
    <3>2. ASSUME NEW kind, D!Fail(q, kind) PROVE FALSE
      BY <1>1, <3>2 DEF D!Fail
    <3>3. ASSUME NEW errors, D!FailFor(q, errors) PROVE FALSE
      BY <3>2, <3>3 DEF D!FailFor
    <3>4. \A answer, states : ~D!Upload(q, answer, states)
      BY <1>1, <3>1, <3>2, <3>3 DEF D!Upload
    <3>5. ~D!WaitUntilReady(q) /\ ~D!WaitForTransfer(q) /\ ~D!SelectFiles(q)
      BY <1>1, <3>1, <3>2, <3>3 DEF D!WaitUntilReady, D!WaitForTransfer, D!SelectFiles
    <3>6. CASE D!PollUntil(q) \/ D!WaitForCache(q)
      BY <1>1, <3>1, <3>2, <3>3, <3>6 DEF D!PollUntil, D!WaitForCache, D!Fallback
    <3>7. CASE \/ D!DirectDL(q) \/ D!WaitUntilDownloaded(q) \/ D!RequestDownloadLinks(q)
               \/ \E answer : D!Fetch(q, answer)
      <4>1. q = r
        BY <1>1, <3>1, <3>2, <3>3, <3>7
        DEF D!DirectDL, D!WaitUntilDownloaded, D!RequestDownloadLinks, D!Fetch
      <4> QED
        BY <1>1, <3>1, <3>2, <3>3, <3>7, <4>1
        DEF D!DirectDL, D!WaitUntilDownloaded, D!RequestDownloadLinks, D!Fetch
    <3> QED
      BY <2>2, <3>4, <3>5, <3>6, <3>7
      DEF D!Resolve, D!ResolveRealDebrid, D!ResolveTorBox, D!ResolveAllDebrid, D!ResolvePremiumize,
          D!ResolveDebridLink, D!UnrestrictLinks, D!MagnetFiles, D!FolderFiles, D!AddMagnet,
          D!CreateTorrent, D!UploadMagnet, D!CreateTransfer, D!AddTorrent
  <2> QED BY <2>1, <2>2 DEF D!Next
<1>2. ProgressInit => ResolveInv
  BY InitIsOfParts, ResolveInvInit
<1> QED
  BY <1>1, <1>2, ResolveInvStep, StepIsOfParts, PTL
     DEF ProgressSpec, LinksAreOfCached, D!LinksAreOfCached

-----------------------------------------------------------------------------
(* TranscodeSessions.                                                      *)

\* Where the removal of a session's directory is, and what the admin's clearing
\* knows: the run of what it clears has ended, so nothing writes there any more.
RemovalInv ==
  \A s \in Session :
    /\ mode[s] = "none" =>
         output[s] = "none" /\ run[s] = "none" /\ s \notin tracked /\ deletion[s] = "none"
    /\ mode[s] # "none" /\ deletion[s] = "none" => s \in tracked
    /\ s \in tracked => deletion[s] = "none"
    /\ state[s] \in {"stopped", "failed"} => run[s] = "ended"
    /\ deletion[s] \in {"clear", "clear2"} => run[s] = "ended"
    /\ deletion[s] = "clear2" => output[s] = "empty"
    /\ deletion[s] = "ok" => output[s] = "none"
    /\ deletion[s] # "clearfailed"

TranscodeInv == T!TypeOK /\ RemovalInv

LEMMA TranscodeInvInit == T!Init => TranscodeInv
BY ProgressAssumption DEF T!ConstantsOK, T!Init, TranscodeInv, T!TypeOK, RemovalInv

\* A request that moves leaves the sessions and the other requests alone.
LEMMA ViewerMoves ==
  ASSUME TranscodeInv, NEW v \in Viewer,
         NEW to \in {"idle", "waiting", "opening", "streaming", "eof"}, NEW s,
         IF to = "idle" THEN s = "none" ELSE s \in Session,
         at' = [at EXCEPT ![v] = to], of' = [of EXCEPT ![v] = s] \/ (of[v] = s /\ UNCHANGED of),
         UNCHANGED <<mode, tracked, state, cancelled, run, proc, names, output, deletion>>
  PROVE  TranscodeInv'
<1> USE DEF TranscodeInv, T!TypeOK
<1>1. /\ at' \in [Viewer -> {"idle", "waiting", "opening", "streaming", "eof"}]
      /\ of' \in [Viewer -> Session \cup {"none"}]
  OBVIOUS
<1>2. DOMAIN at = Viewer
  OBVIOUS
<1>3. ASSUME NEW u \in Viewer PROVE IF at'[u] = "idle" THEN of'[u] = "none" ELSE of'[u] \in Session
  <2>1. CASE u = v
    BY <1>2, <2>1
  <2>2. CASE u # v
    BY <2>2
  <2> QED BY <2>1, <2>2
<1>4. RemovalInv'
  BY DEF RemovalInv
<1> QED BY <1>1, <1>3, <1>4

LEMMA TranscodeInvStep == TranscodeInv /\ [T!Next]_(T!vars) => TranscodeInv'
<1> SUFFICES ASSUME TranscodeInv, [T!Next]_(T!vars) PROVE TranscodeInv'
  OBVIOUS
<1> USE DEF TranscodeInv, T!TypeOK, RemovalInv, T!sessionVars, T!fileVars, T!viewerVars
<1>1. ASSUME NEW s \in Session, T!StartSession(s) PROVE TranscodeInv'
  <2>1. mode' \in [Session -> {"none", "remux", "transcode"}]
    BY <1>1 DEF T!StartSession
  <2>2. T!TypeOK'
    <3>1. /\ output' \in [Session -> {"none", "empty", "files"}]
          /\ state' \in [Session -> {"none", "starting", "running", "stopped", "failed"}]
          /\ run' \in [Session -> {"none", "queued", "starting", "running", "ended"}]
          /\ tracked' \subseteq Session
      BY <1>1 DEF T!StartSession
    <3>2. proc'[s] # "on" /\ \A o \in Session : o # s => run'[o] = run[o] /\ proc'[o] = proc[o]
      BY <1>1 DEF T!StartSession
    <3> QED BY <1>1, <2>1, <3>1, <3>2 DEF T!StartSession
  <2>3. mode[s] = "none" /\ mode'[s] # "none" /\ \A o \in Session \ {s} : mode'[o] = mode[o]
    BY <1>1 DEF T!StartSession
  <2>4. RemovalInv'
    BY <1>1, <2>3 DEF T!StartSession
  <2> QED BY <2>2, <2>4
<1>2. ASSUME NEW s \in Session, T!Run(s) PROVE TranscodeInv'
  <2>1. CASE T!TakeSlot(s)
    BY <2>1 DEF T!TakeSlot
  <2>2. CASE T!LeaveQueue(s)
    BY <2>2 DEF T!LeaveQueue
  <2>3. CASE T!Launch(s)
    BY <2>3 DEF T!Launch
  <2>4. CASE T!LaunchFails(s)
    BY <2>4 DEF T!LaunchFails
  <2>5. CASE T!EndRun(s)
    BY <2>5 DEF T!EndRun
  <2> QED BY <1>2, <2>1, <2>2, <2>3, <2>4, <2>5 DEF T!Run
<1>3. ASSUME NEW s \in Session, T!Write(s) PROVE TranscodeInv'
  <2>1. names' \in [Session -> 0 .. Segments]
    BY <1>3, ProgressAssumption DEF T!Write, T!ConstantsOK
  <2> QED BY <1>3, <2>1 DEF T!Write
<1>4. ASSUME NEW s \in Session, T!Exit(s) PROVE TranscodeInv'
  BY <1>4 DEF T!Exit
<1>5. ASSUME NEW s \in Session, T!Stop(s) PROVE TranscodeInv'
  BY <1>5 DEF T!Stop
<1>6. ASSUME NEW s \in Session, T!Remove(s) PROVE TranscodeInv'
  BY <1>6 DEF T!Remove, T!RemoveFiles, T!RemoveDir
<1>7. ASSUME T!ClearFinished PROVE TranscodeInv'
  BY <1>7 DEF T!ClearFinished, T!Finished
<1>8. ASSUME NEW v \in Viewer, NEW s \in Session, T!Request(v, s) PROVE TranscodeInv'
  <2>1. CASE UNCHANGED <<at, of>>
    BY <1>8, <2>1 DEF T!Request
  <2>2. CASE at' = [at EXCEPT ![v] = "waiting"] /\ of' = [of EXCEPT ![v] = s]
    BY <1>8, <2>2, ViewerMoves DEF T!Request
  <2> QED BY <1>8, <2>1, <2>2 DEF T!Request, T!Goto
<1>9. ASSUME NEW v \in Viewer, T!Serve(v) \/ T!Leave(v) PROVE TranscodeInv'
  <2>1. UNCHANGED <<mode, tracked, state, cancelled, run, proc, names, output, deletion>>
    BY <1>9 DEF T!Serve, T!Leave, T!FileAppears, T!WaitEnds, T!Open, T!ReadEOF, T!Follow
  <2>2. CASE at' = [at EXCEPT ![v] = "idle"] /\ of' = [of EXCEPT ![v] = "none"]
    BY <2>1, <2>2, ViewerMoves
  <2>3. ASSUME NEW to \in {"opening", "streaming", "eof"},
               at[v] # "idle", at' = [at EXCEPT ![v] = to], UNCHANGED of
        PROVE  TranscodeInv'
    <3>1. of[v] \in Session
      BY <2>3
    <3> QED BY <2>1, <2>3, <3>1, ViewerMoves
  <2> QED
    BY <1>9, <2>2, <2>3
    DEF T!Serve, T!Leave, T!FileAppears, T!WaitEnds, T!Open, T!ReadEOF, T!Follow, T!Goto, T!Done
<1>10. ASSUME UNCHANGED T!vars PROVE TranscodeInv'
  BY <1>10 DEF T!vars
<1> QED BY <1>1, <1>2, <1>3, <1>4, <1>5, <1>6, <1>7, <1>8, <1>9, <1>10 DEF T!Next

\* A directory is owned, about to be removed, or the one kind the code can leak,
\* for any number of sessions and slots.
THEOREM OutputIsOwnedHolds == ProgressSpec => []OutputIsOwned
<1>1. TranscodeInv => OutputIsOwned
  BY DEF TranscodeInv, T!TypeOK, RemovalInv, OutputIsOwned, T!OutputIsOwned
<1> QED
  BY <1>1, InitIsOfParts, TranscodeInvInit, TranscodeInvStep, StepIsOfParts, PTL DEF ProgressSpec

\* FiniteSets as the component has it, and as this module has it.
LEMMA SessionCardinality == \A X : T!Cardinality(X) = Cardinality(X)
BY DEF T!Cardinality, Cardinality, T!IsFiniteSet, IsFiniteSet

\* The semaphore is never held by more sessions than it has room for.
SlotInv == IsFiniteSet(T!Holding) /\ Cardinality(T!Holding) <= Slots

LEMMA SlotInvStep == TranscodeInv /\ SlotInv /\ [T!Next]_(T!vars) => SlotInv'
<1> SUFFICES ASSUME TranscodeInv, SlotInv, [T!Next]_(T!vars) PROVE SlotInv'
  OBVIOUS
<1> USE DEF TranscodeInv, T!TypeOK
<1>0. Cardinality(T!Holding) \in Nat /\ Slots \in Nat
  BY ProgressAssumption, FS_CardinalityType DEF SlotInv, T!ConstantsOK
<1>1. ASSUME T!Holding' \subseteq T!Holding PROVE SlotInv'
  <2>1. IsFiniteSet(T!Holding') /\ Cardinality(T!Holding') <= Cardinality(T!Holding)
    BY <1>1, FS_Subset DEF SlotInv
  <2>2. Cardinality(T!Holding') \in Nat
    BY <2>1, FS_CardinalityType
  <2> QED BY <1>0, <2>1, <2>2 DEF SlotInv
<1>2. ASSUME UNCHANGED run PROVE SlotInv'
  BY <1>1, <1>2 DEF T!Holding
<1>3. ASSUME NEW s \in Session, T!TakeSlot(s) PROVE SlotInv'
  <2>1. T!Holding' = T!Holding \cup {s} /\ s \notin T!Holding
    BY <1>3 DEF T!TakeSlot, T!Holding
  <2>2. Cardinality(T!Holding) < Slots
    BY <1>3, SessionCardinality DEF T!TakeSlot
  <2>3. IsFiniteSet(T!Holding') /\ Cardinality(T!Holding') = Cardinality(T!Holding) + 1
    BY <2>1, FS_AddElement DEF SlotInv
  <2> QED BY <1>0, <2>2, <2>3 DEF SlotInv
<1>4. ASSUME NEW s \in Session,
             T!StartSession(s) \/ T!LeaveQueue(s) \/ T!Launch(s) \/ T!LaunchFails(s) \/ T!EndRun(s)
      PROVE  SlotInv'
  <2>1. T!Holding' \subseteq T!Holding
    BY <1>4
    DEF T!StartSession, T!LeaveQueue, T!Launch, T!LaunchFails, T!EndRun, T!Holding
  <2> QED BY <1>1, <2>1
<1>5. CASE T!ClearFinished
  BY <1>2, <1>5 DEF T!ClearFinished
<1>6. ASSUME NEW s \in Session, T!Write(s) \/ T!Exit(s) \/ T!Stop(s) \/ T!Remove(s)
      PROVE  SlotInv'
  BY <1>2, <1>6
  DEF T!Write, T!Exit, T!Stop, T!Remove, T!RemoveFiles, T!RemoveDir, T!sessionVars
<1>7. ASSUME NEW v \in Viewer, T!Serve(v) \/ T!Leave(v) \/ \E s \in Session : T!Request(v, s)
      PROVE  SlotInv'
  BY <1>2, <1>7
  DEF T!Serve, T!Leave, T!Request, T!FileAppears, T!WaitEnds, T!Open, T!ReadEOF, T!Follow,
      T!sessionVars
<1>8. CASE UNCHANGED T!vars
  BY <1>2, <1>8 DEF T!vars, T!sessionVars
<1> QED BY <1>1, <1>3, <1>4, <1>5, <1>6, <1>7, <1>8 DEF T!Next, T!Run

\* There are never more ffmpeg processes than slots, whatever order Stop, a failed
\* start and the end of a process come in: a slot is given back after the process
\* that it was taken for has ended (transcode/session.go).
THEOREM FfmpegWithinSlots == ProgressSpec => []T!SlotsSuffice
<1> DEFINE Inv == TranscodeInv /\ SlotInv
<1>1. T!Init => Inv
  <2> SUFFICES ASSUME T!Init PROVE SlotInv
    BY TranscodeInvInit
  <2>1. T!Holding = {}
    BY DEF T!Init, T!Holding
  <2> QED BY <2>1, FS_EmptySet, ProgressAssumption DEF SlotInv, T!ConstantsOK
<1>2. Inv => T!SlotsSuffice
  <2> SUFFICES ASSUME Inv PROVE T!SlotsSuffice
    OBVIOUS
  <2> DEFINE Encoding == {s \in Session : proc[s] = "on"}
  <2>1. Encoding \subseteq T!Holding
    BY DEF TranscodeInv, T!TypeOK, T!Holding
  <2>2. IsFiniteSet(Encoding) /\ Cardinality(Encoding) <= Cardinality(T!Holding)
    BY <2>1, FS_Subset DEF SlotInv
  <2>3. Cardinality(Encoding) \in Nat /\ Cardinality(T!Holding) \in Nat /\ Slots \in Nat
    BY <2>2, ProgressAssumption, FS_CardinalityType DEF SlotInv, T!ConstantsOK
  <2>4. Cardinality(Encoding) <= Slots
    BY <2>2, <2>3 DEF SlotInv
  <2> QED BY <2>4, SessionCardinality DEF T!SlotsSuffice
<1> QED
  BY <1>1, <1>2, InitIsOfParts, TranscodeInvStep, SlotInvStep, StepIsOfParts, PTL DEF ProgressSpec

-----------------------------------------------------------------------------
(* SeasonPack.                                                             *)

\* An episode plays a pack that counts as used, and such a pack is still being
\* promoted or kept for good.
SeasonInv ==
  /\ S!TypeOK
  /\ \A e \in Episode : path[e] \in S!Pack => path[e] \in used
  /\ \A p \in used : pack[p] \in Episode \cup {"promote", "kept"}

LEMMA SeasonInvInit == S!Init => SeasonInv
<1> SUFFICES ASSUME S!Init PROVE SeasonInv
  OBVIOUS
<1>1. pack \in [S!Pack -> Episode \cup S!Place]
  BY DEF S!Init, S!Place
<1> QED BY <1>1, ProgressAssumption DEF S!Init, SeasonInv, S!TypeOK, S!ConstantsOK, S!Tier

LEMMA SeasonInvStep == SeasonInv /\ [S!Next]_(S!vars) => SeasonInv'
<1> SUFFICES ASSUME SeasonInv, [S!Next]_(S!vars) PROVE SeasonInv'
  OBVIOUS
<1>0. Episode \cap S!Place = {} /\ S!Pack \cap {"none", "single"} = {}
  BY ProgressAssumption DEF S!ConstantsOK
<1> USE DEF SeasonInv, S!TypeOK, S!episodeVars, S!monitorVars, S!packVars, S!Place, S!Tier
<1>1. ASSUME NEW e \in Episode, S!Play(e) PROVE SeasonInv'
  BY <1>1 DEF S!Play, S!Acquire
<1>2. ASSUME NEW e \in Episode, S!Single(e) PROVE SeasonInv'
  BY <1>0, <1>2
  DEF S!Single, S!ResetClaims, S!End, S!SingleDelivers, S!SingleSeesOwned, S!SingleFails
<1>3. CASE S!Sweep \/ S!Fallback
  BY <1>3 DEF S!Sweep, S!Fallback, S!Acquire, S!Pending
<1>4. ASSUME NEW t \in S!Tier, S!NoRace(t) \/ S!RaceWon(t) \/ S!RaceLost(t) PROVE SeasonInv'
  BY <1>4 DEF S!NoRace, S!RaceWon, S!RaceLost, S!Pending
<1>5. ASSUME NEW t \in S!Tier, S!Race(t) PROVE SeasonInv'
  <2>1. PICK round \in SUBSET {p \in S!Of(t) : pack[p] = "none"} :
          pack' = [p \in S!Pack |-> IF p \in round THEN "resolve" ELSE pack[p]]
    BY <1>5 DEF S!Race
  <2>2. /\ pack' \in [S!Pack -> Episode \cup S!Place]
        /\ \A p \in S!Pack : pack'[p] = pack[p] \/ (pack[p] = "none" /\ pack'[p] = "resolve")
    BY <2>1
  <2>3. \A p \in S!Pack : pack'[p] # pack[p] => files[p] = {} /\ p \notin used
    BY <1>0, <2>2
  <2> QED BY <1>5, <2>2, <2>3 DEF S!Race
<1>6. ASSUME NEW p \in S!Pack, S!Resolved(p) \/ S!ResolveFails(p) PROVE SeasonInv'
  BY <1>0, <1>6 DEF S!Resolved, S!ResolveFails
<1>7. ASSUME NEW p \in S!Pack, S!Promoted(p) \/ S!DeletePack(p) PROVE SeasonInv'
  BY <1>0, <1>7 DEF S!Promoted, S!DeletePack
<1>8. ASSUME NEW p \in S!Pack, NEW e \in Episode,
             S!SkipFile(p, e) \/ S!ClaimEpisode(p, e) \/ S!SetPathFails(p, e)
      PROVE  SeasonInv'
  BY <1>0, <1>8 DEF S!SkipFile, S!ClaimEpisode, S!SetPathFails, S!TierOf
<1>9. ASSUME NEW p \in S!Pack, NEW e \in Episode, S!SetEpisodePath(p, e) PROVE SeasonInv'
  BY <1>0, <1>9 DEF S!SetEpisodePath
<1>10. CASE UNCHANGED S!vars
  BY <1>10 DEF S!vars
<1> QED
  BY <1>1, <1>2, <1>3, <1>4, <1>5, <1>6, <1>7, <1>8, <1>9, <1>10 DEF S!Next, S!Monitor, S!Promotion

\* A pack that an episode plays is never deleted, for any season, number of packs
\* and order of promotions, fallbacks and failures (debrid/promote.go).
THEOREM PlayedPackIsKeptHolds == ProgressSpec => []S!PlayedPackIsKept
<1>1. SeasonInv => S!PlayedPackIsKept
  BY ProgressAssumption DEF SeasonInv, S!ConstantsOK, S!Place, S!PlayedPackIsKept
<1> QED
  BY <1>1, InitIsOfParts, SeasonInvInit, SeasonInvStep, StepIsOfParts, PTL DEF ProgressSpec

\* An attempt works on an episode that was searched for: nothing makes a
\* placeholder of it again.
AttemptInv == \A e \in attempts : acquired[e] # "placeholder"

LEMMA AttemptInvStep == SeasonInv /\ AttemptInv /\ [S!Next]_(S!vars) => AttemptInv'
<1> SUFFICES ASSUME SeasonInv, AttemptInv, [S!Next]_(S!vars) PROVE AttemptInv'
  OBVIOUS
<1> USE DEF SeasonInv, S!TypeOK, AttemptInv, S!episodeVars, S!packVars
<1>1. ASSUME NEW e \in Episode, S!Play(e) \/ S!Single(e) PROVE AttemptInv'
  BY <1>1
  DEF S!Play, S!Acquire, S!Single, S!ResetClaims, S!End, S!SingleDelivers, S!SingleSeesOwned,
      S!SingleFails
<1>2. CASE S!Monitor
  BY <1>2
  DEF S!Monitor, S!Sweep, S!Fallback, S!Acquire, S!NoRace, S!RaceWon, S!RaceLost, S!Race
<1>3. ASSUME NEW p \in S!Pack, S!Resolved(p) \/ S!ResolveFails(p) \/ S!Promotion(p)
      PROVE  AttemptInv'
  BY <1>3
  DEF S!Resolved, S!ResolveFails, S!Promotion, S!Promoted, S!DeletePack, S!SkipFile,
      S!ClaimEpisode, S!SetEpisodePath, S!SetPathFails
<1>4. CASE UNCHANGED S!vars
  BY <1>4 DEF S!vars
<1> QED BY <1>1, <1>2, <1>3, <1>4 DEF S!Next

\* A step of the season is a step of the promise to each episode, or none of its
\* business.
LEMMA EpisodeStep ==
  ASSUME SeasonInv, AttemptInv, [S!Next]_(S!vars), NEW e \in Episode
  PROVE  [E(e)!Next]_(E(e)!promiseVars)
<1>0. Episode \cap S!Place = {} /\ S!Pack \cap {"none", "single"} = {}
  BY ProgressAssumption DEF S!ConstantsOK
<1> DEFINE Gone == {p \in S!Pack : pack[p] = "deleted"}
           Stays == UNCHANGED <<acquired[e], path[e], Gone>>
<1>s. ASSUME Stays PROVE [E(e)!Next]_(E(e)!promiseVars)
  BY <1>s DEF E!promiseVars
<1>k. ASSUME \A p \in S!Pack : pack'[p] = "deleted" <=> pack[p] = "deleted"
      PROVE  UNCHANGED Gone
  BY <1>k
<1>w. ASSUME acquired'[e] = "searching", UNCHANGED <<path, pack>> PROVE E(e)!Work
  BY <1>w DEF E!Work, E!InFlight
<1>a. ASSUME NEW f \in Episode, S!Acquire(f), UNCHANGED <<path, pack>>
      PROVE  [E(e)!Next]_(E(e)!promiseVars)
  <2>1. CASE f = e /\ f \in S!Pending
    BY <1>a, <1>w, <2>1 DEF S!Acquire, SeasonInv, S!TypeOK, E!Next
  <2>2. CASE ~(f = e /\ f \in S!Pending)
    BY <1>a, <1>s, <2>2 DEF S!Acquire, SeasonInv, S!TypeOK
  <2> QED BY <2>1, <2>2
<1>1. ASSUME NEW f \in Episode, S!Play(f) PROVE [E(e)!Next]_(E(e)!promiseVars)
  BY <1>1, <1>a DEF S!Play, S!packVars
<1>2. ASSUME NEW f \in Episode, S!Single(f) PROVE [E(e)!Next]_(E(e)!promiseVars)
  <2>1. CASE S!ResetClaims(f) \/ S!SingleSeesOwned(f)
    BY <1>s, <2>1 DEF S!ResetClaims, S!SingleSeesOwned, S!episodeVars, S!packVars
  <2>2. CASE S!SingleDelivers(f)
    <3>1. CASE f = e
      BY <1>0, <2>2, <3>1
      DEF S!SingleDelivers, S!packVars, SeasonInv, S!TypeOK, E!Next, E!Deliver
    <3>2. CASE f # e
      BY <1>s, <2>2, <3>2 DEF S!SingleDelivers, S!packVars, SeasonInv, S!TypeOK
    <3> QED BY <3>1, <3>2
  <2>3. CASE S!SingleFails(f)
    <3>1. CASE f = e
      BY <2>3, <3>1
      DEF S!SingleFails, S!End, S!packVars, SeasonInv, AttemptInv, S!TypeOK, E!Next, E!GiveUp
    <3>2. CASE f # e
      BY <1>s, <2>3, <3>2 DEF S!SingleFails, S!packVars, SeasonInv, S!TypeOK
    <3> QED BY <3>1, <3>2
  <2> QED BY <1>2, <2>1, <2>2, <2>3 DEF S!Single
<1>3. CASE S!Monitor
  <2>1. ASSUME NEW t \in S!Tier, S!Race(t) PROVE Stays
    <3>1. PICK round \in SUBSET {p \in S!Of(t) : pack[p] = "none"} :
            pack' = [p \in S!Pack |-> IF p \in round THEN "resolve" ELSE pack[p]]
      BY <2>1 DEF S!Race
    <3>2. UNCHANGED Gone
      BY <1>k, <3>1
    <3> QED BY <2>1, <3>2 DEF S!Race, S!episodeVars
  <2>2. CASE S!Fallback
    <3>1. CASE fallback = {}
      BY <1>s, <2>2, <3>1 DEF S!Fallback, S!packVars
    <3>2. CASE fallback # {}
      BY <1>a, <2>2, <3>2 DEF S!Fallback, S!packVars, SeasonInv, S!TypeOK
    <3> QED BY <3>1, <3>2
  <2>3. ASSUME S!Sweep \/ \E t \in S!Tier : S!NoRace(t) \/ S!RaceWon(t) \/ S!RaceLost(t)
        PROVE  Stays
    BY <2>3 DEF S!Sweep, S!NoRace, S!RaceWon, S!RaceLost, S!episodeVars, S!packVars
  <2> QED BY <1>3, <1>s, <2>1, <2>2, <2>3 DEF S!Monitor
<1>4. ASSUME NEW p \in S!Pack, S!DeletePack(p) PROVE [E(e)!Next]_(E(e)!promiseVars)
  <2>1. path[e] # p
    BY <1>0, <1>4 DEF S!DeletePack, SeasonInv, S!Place
  <2>2. CASE pack' = [pack EXCEPT ![p] = "deleted"]
    <3>1. Gone' = Gone \cup {p}
      BY <2>2 DEF SeasonInv, S!TypeOK
    <3> QED BY <1>4, <2>1, <3>1 DEF S!DeletePack, S!episodeVars, E!Next, E!Discard
  <2>3. CASE pack' = [pack EXCEPT ![p] = "failed"]
    <3>1. UNCHANGED Gone
      BY <1>4, <1>k, <2>3 DEF S!DeletePack, SeasonInv, S!TypeOK
    <3> QED BY <1>4, <1>s, <3>1 DEF S!DeletePack, S!episodeVars
  <2> QED BY <1>4, <2>2, <2>3 DEF S!DeletePack
<1>5. ASSUME NEW p \in S!Pack, NEW f \in Episode, S!SetEpisodePath(p, f)
      PROVE  [E(e)!Next]_(E(e)!promiseVars)
  <2>1. UNCHANGED Gone /\ p \notin Gone
    <3>1. "deleted" \notin Episode
      BY <1>0 DEF S!Place
    <3> QED BY <1>5, <1>k, <3>1 DEF S!SetEpisodePath, SeasonInv, S!TypeOK
  <2>2. CASE f = e
    <3>1. acquired'[e] = "owned" /\ path'[e] = p
      BY <1>5, <2>2 DEF S!SetEpisodePath, SeasonInv, S!TypeOK
    <3> QED BY <2>1, <3>1 DEF E!Next, E!Deliver
  <2>3. CASE f # e
    BY <1>5, <1>s, <2>1, <2>3 DEF S!SetEpisodePath, SeasonInv, S!TypeOK
  <2> QED BY <2>2, <2>3
<1>6. ASSUME NEW p \in S!Pack, NEW f \in Episode,
             S!SkipFile(p, f) \/ S!ClaimEpisode(p, f) \/ S!SetPathFails(p, f)
      PROVE  Stays
  <2>1. "deleted" \notin Episode
    BY <1>0 DEF S!Place
  <2>2. UNCHANGED Gone
    BY <1>6, <1>k, <2>1
    DEF S!SkipFile, S!ClaimEpisode, S!SetPathFails, SeasonInv, S!TypeOK
  <2> QED BY <1>6, <2>2 DEF S!SkipFile, S!ClaimEpisode, S!SetPathFails, S!episodeVars
<1>7. ASSUME NEW p \in S!Pack, S!Resolved(p) \/ S!ResolveFails(p) \/ S!Promoted(p) PROVE Stays
  <2>1. UNCHANGED Gone
    BY <1>7, <1>k DEF S!Resolved, S!ResolveFails, S!Promoted, SeasonInv, S!TypeOK
  <2> QED BY <1>7, <2>1 DEF S!Resolved, S!ResolveFails, S!Promoted, S!episodeVars
<1>8. CASE UNCHANGED S!vars
  BY <1>8, <1>s DEF S!vars, S!episodeVars, S!packVars
<1> QED
  BY <1>1, <1>2, <1>3, <1>4, <1>5, <1>6, <1>7, <1>8, <1>s DEF S!Next, S!Promotion

\* Each episode of a season keeps ItemPromise: a link stays until another is
\* delivered, 'owned' is said with a link only, and no pack that it plays or is
\* given is deleted, for any number of packs, attempts and sweeps
\* (acquisition/monitor.go, debrid/promote.go).
THEOREM EpisodesKeepPromiseHolds == ProgressSpec => EpisodesKeepPromise
<1> DEFINE Step == \A e \in Episode : [E(e)!Next]_(E(e)!promiseVars)
<1>1. S!Init => AttemptInv /\ \A e \in Episode : E(e)!Init
  BY DEF S!Init, AttemptInv, E!Init
<1>2. ASSUME SeasonInv, AttemptInv, [S!Next]_(S!vars) PROVE [Step]_seasonVars
  BY <1>2, EpisodeStep
<1> QED
  BY <1>1, <1>2, InitIsOfParts, SeasonInvInit, SeasonInvStep, AttemptInvStep, StepIsOfParts, PTL
  DEF ProgressSpec, EpisodesKeepPromise

-----------------------------------------------------------------------------
(* Requests.                                                               *)

LEMMA RequestFinite == \A X : R!IsFiniteSet(X) <=> IsFiniteSet(X)
BY DEF R!IsFiniteSet, IsFiniteSet

LEMMA RequestCardinality == \A X : R!Cardinality(X) = Cardinality(X)
BY DEF R!Cardinality, Cardinality, R!IsFiniteSet, IsFiniteSet

\* Handlers between the look for a row of l, which found none, and the insert.
Creators(l) == {h \in Handler : lib[h] = l /\ handling[h] \in {"create", "openCreate"}}

\* What a handler holds at each of its places.
HandlerInv ==
  \A h \in Handler :
    /\ handling[h] \in {"find", "create", "record", "begin", "openFind", "openCreate", "ask",
                        "log", "openApprove", "ownRecord", "preempt"} => lib[h] \in Library
    /\ handling[h] \in {"setting", "approve", "withdraw", "targets", "find", "create", "record",
                        "begin", "openApprove", "ownRecord"} => req[h] \in ContentRequest

\* No more rows than handlers that looked for one at one time, those that are
\* about to insert one counted as rows already.
CrowdInv ==
  \A l \in Library :
    /\ Cardinality(R!Finders(l)) <= crowd[l]
    /\ rows[l] + Cardinality(Creators(l)) <= crowd[l]

RequestInv == R!TypeOK /\ HandlerInv /\ CrowdInv

LEMMA SomeHandlersAreFinite ==
  \A X \in SUBSET Handler : IsFiniteSet(X) /\ Cardinality(X) \in Nat
<1>1. IsFiniteSet(Handler)
  BY ProgressAssumption, RequestFinite DEF R!ConstantsOK
<1> QED BY <1>1, FS_Subset, FS_CardinalityType

LEMMA RequestInvInit == R!Init => RequestInv
<1> SUFFICES ASSUME R!Init PROVE RequestInv
  OBVIOUS
<1> USE DEF R!Init
<1>1. R!TypeOK
  BY ProgressAssumption DEF R!TypeOK, R!ConstantsOK, R!Finding
<1>2. HandlerInv
  BY DEF HandlerInv
<1>3. CrowdInv
  <2>1. \A l \in Library : R!Finders(l) = {} /\ Creators(l) = {}
    BY DEF R!Finders, Creators, R!Finding
  <2>2. Cardinality({}) = 0
    BY FS_EmptySet
  <2>3. ASSUME NEW l \in Library
        PROVE  /\ Cardinality(R!Finders(l)) <= crowd[l]
               /\ rows[l] + Cardinality(Creators(l)) <= crowd[l]
    <3>1. rows[l] = 0 /\ crowd[l] = 0
      OBVIOUS
    <3>2. Cardinality(R!Finders(l)) = 0 /\ Cardinality(Creators(l)) = 0
      BY <2>1, <2>2
    <3> HIDE DEF R!Init
    <3> QED BY <3>1, <3>2
  <2> QED BY <2>3 DEF CrowdInv
<1> QED BY <1>1, <1>2, <1>3 DEF RequestInv

\* No handler begins to look for a row, or to insert one.
NoneJoins ==
  \A h \in Handler :
    /\ handling'[h] \in R!Finding => handling[h] \in R!Finding /\ lib'[h] = lib[h]
    /\ handling'[h] \in {"create", "openCreate"} =>
         handling[h] \in {"create", "openCreate"} /\ lib'[h] = lib[h]

\* The other handlers stay where they are.
OthersStand(h) ==
  \A g \in Handler \ {h} :
    /\ handling'[g] = handling[g] /\ req'[g] = req[g]
    /\ lib'[g] = lib[g] /\ targets'[g] = targets[g]

\* Only who was about to insert a row adds one, to its own library.
RowsGrowFor(h) ==
  /\ rows' \in [Library -> Nat]
  /\ \A l \in Library : rows'[l] = rows[l] \/ (rows'[l] = rows[l] + 1 /\ h \in Creators(l))

\* A step that moves no handler into the search for a row, nor to the insert of
\* one, and adds no row, keeps the count.
LEMMA CrowdKept ==
  ASSUME RequestInv, UNCHANGED <<rows, crowd>>, NoneJoins
  PROVE  CrowdInv'
<1>1. ASSUME NEW l \in Library
      PROVE  /\ Cardinality(R!Finders(l)') <= crowd'[l]
             /\ rows'[l] + Cardinality(Creators(l)') <= crowd'[l]
  <2>1. /\ R!Finders(l)' \subseteq R!Finders(l) /\ Creators(l)' \subseteq Creators(l)
        /\ R!Finders(l) \subseteq Handler /\ Creators(l) \subseteq Handler
    BY DEF R!Finders, Creators, NoneJoins
  <2>2. /\ Cardinality(R!Finders(l)') <= Cardinality(R!Finders(l))
        /\ Cardinality(Creators(l)') <= Cardinality(Creators(l))
    BY <2>1, SomeHandlersAreFinite, FS_Subset
  <2>3. /\ Cardinality(R!Finders(l)) \in Nat /\ Cardinality(R!Finders(l)') \in Nat
        /\ Cardinality(Creators(l)) \in Nat /\ Cardinality(Creators(l)') \in Nat
    BY <2>1, SomeHandlersAreFinite
  <2> QED BY <2>2, <2>3 DEF RequestInv, CrowdInv, R!TypeOK
<1> QED BY <1>1 DEF CrowdInv

\* One that moves a handler away from the insert, with its row or without, keeps
\* it too: whoever begins to look counts in the crowd from then on.
LEMMA CrowdMoved ==
  ASSUME RequestInv, NEW h \in Handler, OthersStand(h), RowsGrowFor(h),
         handling'[h] \notin {"create", "openCreate"},
         crowd' \in [Library -> Nat], \A l \in Library : crowd'[l] >= crowd[l],
         \A l \in Library : handling'[h] \in R!Finding /\ lib'[h] = l =>
           crowd'[l] >= Cardinality(R!Finders(l)) + 1
  PROVE  CrowdInv'
<1>1. ASSUME NEW l \in Library
      PROVE  /\ Cardinality(R!Finders(l)') <= crowd'[l]
             /\ rows'[l] + Cardinality(Creators(l)') <= crowd'[l]
  <2>1. R!Finders(l) \in SUBSET Handler /\ Creators(l) \in SUBSET Handler
    BY DEF R!Finders, Creators
  <2>2. /\ IsFiniteSet(R!Finders(l)) /\ Cardinality(R!Finders(l)) \in Nat
        /\ IsFiniteSet(Creators(l)) /\ Cardinality(Creators(l)) \in Nat
    BY <2>1, SomeHandlersAreFinite
  <2>3. /\ rows[l] \in Nat /\ crowd[l] \in Nat /\ crowd'[l] \in Nat /\ crowd'[l] >= crowd[l]
        /\ Cardinality(R!Finders(l)) <= crowd[l] /\ rows[l] + Cardinality(Creators(l)) <= crowd[l]
    BY DEF RequestInv, CrowdInv, R!TypeOK
  <2>4. Cardinality(R!Finders(l)') <= crowd'[l]
    <3>1. CASE handling'[h] \in R!Finding /\ lib'[h] = l
      <4>1. R!Finders(l)' \subseteq R!Finders(l) \cup {h}
        BY DEF R!Finders, OthersStand
      <4>0. /\ IsFiniteSet(R!Finders(l) \cup {h})
            /\ Cardinality(R!Finders(l) \cup {h}) =
                 IF h \in R!Finders(l) THEN Cardinality(R!Finders(l))
                                       ELSE Cardinality(R!Finders(l)) + 1
        BY <2>2, FS_AddElement
      <4>2. /\ IsFiniteSet(R!Finders(l) \cup {h}) /\ Cardinality(R!Finders(l) \cup {h}) \in Nat
            /\ Cardinality(R!Finders(l) \cup {h}) <= Cardinality(R!Finders(l)) + 1
        BY <2>2, <4>0
      <4>3. /\ Cardinality(R!Finders(l)') <= Cardinality(R!Finders(l) \cup {h})
            /\ Cardinality(R!Finders(l)') \in Nat
        BY <4>1, <4>2, FS_Subset, FS_CardinalityType
      <4> QED BY <2>2, <2>3, <3>1, <4>2, <4>3
    <3>2. CASE ~(handling'[h] \in R!Finding /\ lib'[h] = l)
      <4>1. R!Finders(l)' \subseteq R!Finders(l)
        BY <3>2 DEF R!Finders, OthersStand
      <4>2. /\ Cardinality(R!Finders(l)') <= Cardinality(R!Finders(l))
            /\ Cardinality(R!Finders(l)') \in Nat
        BY <2>2, <4>1, FS_Subset, FS_CardinalityType
      <4> QED BY <2>2, <2>3, <4>2
    <3> QED BY <3>1, <3>2
  <2>5. Creators(l)' \subseteq Creators(l) \ {h}
    BY DEF Creators, OthersStand
  <2>6. rows'[l] + Cardinality(Creators(l)') <= crowd'[l]
    <3>1. CASE rows'[l] = rows[l]
      <4>1. Cardinality(Creators(l)') <= Cardinality(Creators(l)) /\ Cardinality(Creators(l)') \in Nat
        BY <2>2, <2>5, FS_Subset, FS_CardinalityType
      <4> QED BY <2>2, <2>3, <3>1, <4>1
    <3>2. CASE rows'[l] = rows[l] + 1 /\ h \in Creators(l)
      <4>1. /\ IsFiniteSet(Creators(l) \ {h})
            /\ Cardinality(Creators(l) \ {h}) = Cardinality(Creators(l)) - 1
        BY <2>2, <3>2, FS_RemoveElement
      <4>2. /\ Cardinality(Creators(l)') <= Cardinality(Creators(l) \ {h})
            /\ Cardinality(Creators(l)') \in Nat
        BY <2>5, <4>1, FS_Subset, FS_CardinalityType
      <4> QED BY <2>2, <2>3, <3>2, <4>1, <4>2
    <3> QED BY <3>1, <3>2 DEF RowsGrowFor
  <2> QED BY <2>4, <2>6
<1> QED BY <1>1 DEF CrowdInv

\* A handler that finds no row is still among those that look for one.
LEMMA RequestFindStep ==
  ASSUME RequestInv, NEW h \in Handler,
         \/ R!Find(h, "find", "create", "record") \/ R!Find(h, "openFind", "openCreate", "ask")
  PROVE  RequestInv'
<1> USE DEF R!Find, R!Found, R!Goto, R!requestVars, R!itemVars
<1>1. /\ UNCHANGED <<target, status, recorded, rows, begun, req, lib, targets, missed, crowd>>
      /\ \E to \in {"create", "record", "openCreate", "ask"} : handling' = [handling EXCEPT ![h] = to]
  OBVIOUS
<1>2. R!TypeOK'
  BY <1>1 DEF RequestInv, R!TypeOK, R!Finding
<1>3. HandlerInv'
  BY <1>1 DEF RequestInv, R!TypeOK, HandlerInv
<1>4. ASSUME rows[lib[h]] > 0 PROVE CrowdInv'
  <2>1. handling'[h] \in {"record", "ask"} /\ \A g \in Handler \ {h} : handling'[g] = handling[g]
    BY <1>4 DEF RequestInv, R!TypeOK
  <2> QED BY <1>1, <2>1, CrowdKept DEF R!Finding, NoneJoins
<1>5. ASSUME ~(rows[lib[h]] > 0), NEW l \in Library
      PROVE  /\ Cardinality(R!Finders(l)') <= crowd'[l]
             /\ rows'[l] + Cardinality(Creators(l)') <= crowd'[l]
  <2>1. handling' = [handling EXCEPT ![h] = "create"] \/ handling' = [handling EXCEPT ![h] = "openCreate"]
    BY <1>5
  <2>2. R!Finders(l)' = R!Finders(l)
    BY <1>1, <2>1 DEF R!Finders, R!Finding, RequestInv, R!TypeOK
  <2>3. /\ Creators(l)' \subseteq R!Finders(l)
        /\ lib[h] # l => Creators(l)' = Creators(l)
    BY <1>1, <2>1 DEF R!Finders, Creators, R!Finding, RequestInv, R!TypeOK
  <2>4. IsFiniteSet(R!Finders(l)) /\ Cardinality(R!Finders(l)) \in Nat
    BY SomeHandlersAreFinite DEF R!Finders
  <2>5. Cardinality(Creators(l)') <= Cardinality(R!Finders(l)) /\ Cardinality(Creators(l)') \in Nat
    BY <2>3, <2>4, FS_Subset, FS_CardinalityType
  <2>6. rows[l] \in Nat /\ crowd[l] \in Nat /\ (lib[h] = l => rows[l] = 0)
    BY <1>5 DEF RequestInv, R!TypeOK
  <2>7. /\ Cardinality(R!Finders(l)) <= crowd[l]
        /\ rows[l] + Cardinality(Creators(l)) <= crowd[l]
    BY DEF RequestInv, CrowdInv
  <2>8. rows'[l] = rows[l] /\ crowd'[l] = crowd[l]
    BY <1>1
  <2>9. CASE lib[h] = l
    BY <2>2, <2>4, <2>5, <2>6, <2>7, <2>8, <2>9
  <2>10. CASE lib[h] # l
    BY <2>2, <2>3, <2>7, <2>8, <2>10
  <2> QED BY <2>9, <2>10
<1>6. CrowdInv'
  BY <1>4, <1>5 DEF CrowdInv
<1> QED BY <1>2, <1>3, <1>6 DEF RequestInv

LEMMA RowsGrowByInsert ==
  ASSUME RequestInv, NEW h \in Handler, handling[h] \in {"create", "openCreate"},
         rows' = [rows EXCEPT ![lib[h]] = @ + 1]
  PROVE  RowsGrowFor(h)
<1>1. lib[h] \in Library /\ rows \in [Library -> Nat]
  BY DEF RequestInv, R!TypeOK, HandlerInv
<1> QED BY <1>1 DEF RowsGrowFor, Creators

LEMMA RowsGrowByNoItem ==
  ASSUME RequestInv, NEW h \in Handler, R!NoItem(h)
  PROVE  RowsGrowFor(h)
<1>1. CASE UNCHANGED rows
  BY <1>1 DEF RequestInv, R!TypeOK, RowsGrowFor
<1> QED BY <1>1, RowsGrowByInsert DEF R!NoItem

\* An insert adds a row for one of those that were about to.
LEMMA RequestCreateStep ==
  ASSUME RequestInv, NEW h \in Handler,
         R!Create(h, "create", "record") \/ R!Create(h, "openCreate", "ask")
  PROVE  RequestInv'
<1> USE DEF R!Create, R!Goto, R!requestVars
<1>1. /\ UNCHANGED <<target, status, recorded, begun, req, lib, targets, missed, crowd>>
      /\ \E to \in {"record", "ask"} : handling' = [handling EXCEPT ![h] = to]
      /\ rows' = [rows EXCEPT ![lib[h]] = @ + 1]
      /\ lib[h] \in Library /\ handling[h] \in {"create", "openCreate"}
      /\ handling[h] = "create" => req[h] \in ContentRequest
      /\ handling[h] = "openCreate" => handling' = [handling EXCEPT ![h] = "ask"]
  BY DEF RequestInv, HandlerInv
<1>2. R!TypeOK'
  BY <1>1 DEF RequestInv, R!TypeOK, R!Finding
<1>3. HandlerInv'
  BY <1>1 DEF RequestInv, R!TypeOK, HandlerInv
<1>4. RowsGrowFor(h)
  BY <1>1, RowsGrowByInsert
<1>5. /\ OthersStand(h) /\ handling'[h] \notin R!Finding
      /\ handling'[h] \notin {"create", "openCreate"}
  BY <1>1 DEF RequestInv, R!TypeOK, OthersStand, R!Finding
<1>6. crowd' \in [Library -> Nat] /\ \A l \in Library : crowd'[l] >= crowd[l]
  BY <1>1 DEF RequestInv, R!TypeOK
<1>7. CrowdInv'
  BY <1>4, <1>5, <1>6, CrowdMoved
<1> QED BY <1>2, <1>3, <1>7 DEF RequestInv

\* The handlers' part of the type invariant.
HandlersTyped ==
  /\ handling \in [Handler -> R!Finding \cup {"idle", "setting", "approve", "withdraw", "targets",
                "record", "begin", "ask", "log", "openApprove", "ownRecord", "preempt"}]
  /\ req \in [Handler -> ContentRequest \cup {"none"}]
  /\ lib \in [Handler -> Library \cup {"none"}]
  /\ targets \in [Handler -> Seq(Library)]

\* A handler that ends leaves the handlers in order.
LEMMA RequestEnds ==
  ASSUME RequestInv, NEW h \in Handler, R!End(h)
  PROVE  /\ HandlersTyped' /\ HandlerInv' /\ NoneJoins /\ OthersStand(h)
         /\ handling'[h] = "idle"
<1>1. <<>> \in Seq(Library)
  OBVIOUS
<1> USE DEF RequestInv, R!TypeOK, R!End, R!Goto, R!Finding
<1>2. HandlersTyped'
  BY <1>1 DEF HandlersTyped
<1>3. handling'[h] = "idle" /\ OthersStand(h)
  BY DEF OthersStand
<1>4. HandlerInv'
  BY <1>3 DEF HandlerInv, OthersStand
<1>5. NoneJoins
  BY <1>3 DEF NoneJoins, OthersStand
<1> QED BY <1>2, <1>3, <1>4, <1>5

\* So does one that becomes the fulfilment of a request.
LEMMA RequestIsFulfilled ==
  ASSUME RequestInv, NEW h \in Handler, NEW q \in ContentRequest, R!Fulfil(h, q),
         UNCHANGED <<lib, targets>>, handling[h] \notin R!Finding
  PROVE  HandlersTyped' /\ HandlerInv' /\ NoneJoins
<1> USE DEF RequestInv, R!TypeOK, R!Fulfil, R!Goto, R!Finding
<1>2. HandlersTyped'
  BY DEF HandlersTyped
<1>3. /\ handling'[h] = "targets" /\ req'[h] = q
      /\ \A g \in Handler \ {h} : handling'[g] = handling[g] /\ req'[g] = req[g]
  OBVIOUS
<1>4. HandlerInv'
  BY <1>3 DEF HandlerInv
<1> QED BY <1>2, <1>3, <1>4 DEF NoneJoins

LEMMA TargetsAreLibraries ==
  ASSUME RequestInv
  PROVE  target \in Seq(Library) /\ R!Range(target) \subseteq Library
BY ProgressAssumption DEF RequestInv, R!TypeOK, R!ConstantsOK, R!Range

LEMMA MissedIsTyped ==
  ASSUME RequestInv, NEW q \in ContentRequest, R!Triggered(q) \/ R!Dropped(q)
  PROVE  missed' \subseteq ContentRequest \X Library
BY TargetsAreLibraries DEF RequestInv, R!TypeOK, R!Triggered, R!Dropped

\* An admin's decisions about a request move no handler.
LEMMA RequestDecisionStep ==
  ASSUME RequestInv, NEW q \in ContentRequest, R!Decline(q) \/ R!AdminDelete(q)
  PROVE  RequestInv'
<1>1. /\ status' \in [ContentRequest -> {"none", "pending", "approved", "declined", "deleted"}]
      /\ recorded' \subseteq ContentRequest \X Library
  BY DEF RequestInv, R!TypeOK, R!Decline, R!AdminDelete, R!Delete
<1>2. UNCHANGED <<target, rows, begun, handling, req, lib, targets, missed, crowd>>
  BY DEF R!Decline, R!AdminDelete, R!Delete, R!requestVars, R!itemVars, R!handlerVars
<1>3. CrowdInv'
  BY <1>2, CrowdKept DEF NoneJoins
<1> QED BY <1>1, <1>2, <1>3 DEF RequestInv, R!TypeOK, HandlerInv

\* Approvals, withdrawals and the steps of a handler that looks for no row.
LEMMA RequestOtherStep ==
  ASSUME RequestInv, NEW h \in Handler,
         \/ \E q \in ContentRequest : R!Approve(h, q) \/ R!BeginWithdraw(h, q)
         \/ R!CreateRequest(h) \/ R!ReadSetting(h) \/ R!AutoApprove(h) \/ R!Withdraw(h)
         \/ R!Record(h) \/ R!AskLogged(h) \/ R!Log(h) \/ R!OwnRecord(h) \/ R!Preempt(h)
  PROVE  RequestInv'
<1> USE DEF RequestInv, R!TypeOK, R!requestVars, R!itemVars, R!handlerVars, R!Goto, R!Insert,
            R!Exists, R!Conflict, R!Delete, R!Finding, R!Approved
<1>1. ASSUME NEW q \in ContentRequest, R!Approve(h, q)
      PROVE  R!TypeOK' /\ HandlerInv' /\ NoneJoins /\ UNCHANGED <<rows, crowd>>
  <2>1. CASE R!Fulfil(h, q)
    <3>1. missed' \subseteq ContentRequest \X Library
      BY <2>1, MissedIsTyped DEF R!Fulfil
    <3> QED BY <1>1, <2>1, <3>1, RequestIsFulfilled DEF R!Approve, HandlersTyped
  <2>2. CASE R!Dropped(q) /\ UNCHANGED <<handling, req>>
    <3>1. missed' \subseteq ContentRequest \X Library
      BY <2>2, MissedIsTyped
    <3> QED BY <1>1, <2>2, <3>1 DEF R!Approve, HandlerInv, NoneJoins
  <2> QED BY <1>1, <2>1, <2>2 DEF R!Approve
<1>2. ASSUME NEW q \in ContentRequest, R!BeginWithdraw(h, q)
      PROVE  R!TypeOK' /\ HandlerInv' /\ NoneJoins /\ UNCHANGED <<rows, crowd>>
  <2>1. R!TypeOK'
    BY <1>2 DEF R!BeginWithdraw, HandlerInv
  <2>2. HandlerInv'
    BY <1>2 DEF R!BeginWithdraw, HandlerInv
  <2>3. NoneJoins /\ UNCHANGED <<rows, crowd>>
    BY <1>2 DEF R!BeginWithdraw, NoneJoins
  <2> QED BY <2>1, <2>2, <2>3
<1>3. ASSUME R!CreateRequest(h)
      PROVE  R!TypeOK' /\ HandlerInv' /\ NoneJoins /\ UNCHANGED <<rows, crowd>>
  <2>1. R!TypeOK'
    BY <1>3 DEF R!CreateRequest, HandlerInv
  <2>2. HandlerInv'
    BY <1>3 DEF R!CreateRequest, HandlerInv
  <2>3. NoneJoins /\ UNCHANGED <<rows, crowd>>
    BY <1>3 DEF R!CreateRequest, NoneJoins
  <2> QED BY <2>1, <2>2, <2>3
<1>4. ASSUME R!ReadSetting(h)
      PROVE  R!TypeOK' /\ HandlerInv' /\ NoneJoins /\ UNCHANGED <<rows, crowd>>
  <2>1. CASE R!End(h)
    BY <1>4, <2>1, RequestEnds DEF R!ReadSetting, HandlersTyped
  <2>2. CASE R!Goto(h, "approve") /\ UNCHANGED <<req, lib, targets>>
    BY <1>4, <2>2 DEF R!ReadSetting, HandlerInv, NoneJoins
  <2> QED BY <1>4, <2>1, <2>2 DEF R!ReadSetting
<1>5. ASSUME R!AutoApprove(h)
      PROVE  R!TypeOK' /\ HandlerInv' /\ NoneJoins /\ UNCHANGED <<rows, crowd>>
  <2>1. req[h] \in ContentRequest
    BY <1>5 DEF R!AutoApprove, HandlerInv
  <2>2. CASE R!End(h) /\ UNCHANGED <<status, missed>>
    BY <1>5, <2>2, RequestEnds DEF R!AutoApprove, HandlersTyped
  <2>3. CASE R!Fulfil(h, req[h]) /\ UNCHANGED <<lib, targets>> /\ R!Approved(req[h])
    <3>1. missed' \subseteq ContentRequest \X Library
      BY <2>1, <2>3, MissedIsTyped DEF R!Fulfil
    <3> QED BY <1>5, <2>1, <2>3, <3>1, RequestIsFulfilled DEF R!AutoApprove, HandlersTyped
  <2>4. CASE R!Dropped(req[h]) /\ R!End(h) /\ R!Approved(req[h])
    <3>1. missed' \subseteq ContentRequest \X Library
      BY <2>1, <2>4, MissedIsTyped
    <3> QED BY <1>5, <2>1, <2>4, <3>1, RequestEnds DEF R!AutoApprove, HandlersTyped
  <2> QED BY <1>5, <2>2, <2>3, <2>4 DEF R!AutoApprove
<1>6. ASSUME R!Withdraw(h)
      PROVE  R!TypeOK' /\ HandlerInv' /\ NoneJoins /\ UNCHANGED <<rows, crowd>>
  <2>1. req[h] \in ContentRequest
    BY <1>6 DEF R!Withdraw, HandlerInv
  <2>2. HandlersTyped' /\ HandlerInv' /\ NoneJoins
    BY <1>6, RequestEnds DEF R!Withdraw
  <2>3. /\ status' \in [ContentRequest -> {"none", "pending", "approved", "declined", "deleted"}]
        /\ recorded' \subseteq ContentRequest \X Library
    BY <1>6, <2>1 DEF R!Withdraw
  <2>4. UNCHANGED <<target, rows, begun, missed, crowd>>
    BY <1>6 DEF R!Withdraw
  <2> QED BY <2>2, <2>3, <2>4 DEF HandlersTyped
<1>7. ASSUME R!Record(h)
      PROVE  R!TypeOK' /\ HandlerInv' /\ NoneJoins /\ UNCHANGED <<rows, crowd>>
  <2>0. req[h] \in ContentRequest /\ lib[h] \in Library
    BY <1>7 DEF R!Record, HandlerInv
  <2>1. /\ recorded' \subseteq ContentRequest \X Library
        /\ missed' \subseteq ContentRequest \X Library
    BY <1>7, <2>0 DEF R!Record, R!Fails
  <2>2. /\ handling' = [handling EXCEPT ![h] = "begin"]
        /\ UNCHANGED <<target, status, rows, begun, req, lib, targets, crowd>>
    BY <1>7 DEF R!Record
  <2>3. R!TypeOK'
    BY <2>1, <2>2
  <2>4. HandlerInv'
    BY <2>0, <2>2 DEF HandlerInv
  <2>5. NoneJoins /\ UNCHANGED <<rows, crowd>>
    BY <2>2 DEF NoneJoins
  <2> QED BY <2>3, <2>4, <2>5
<1>8. ASSUME R!AskLogged(h)
      PROVE  R!TypeOK' /\ HandlerInv' /\ NoneJoins /\ UNCHANGED <<rows, crowd>>
  <2>1. R!TypeOK'
    BY <1>8 DEF R!AskLogged, HandlerInv
  <2>2. HandlerInv'
    BY <1>8 DEF R!AskLogged, HandlerInv
  <2>3. NoneJoins /\ UNCHANGED <<rows, crowd>>
    BY <1>8 DEF R!AskLogged, NoneJoins
  <2> QED BY <2>1, <2>2, <2>3
<1>9. ASSUME R!Log(h)
      PROVE  R!TypeOK' /\ HandlerInv' /\ NoneJoins /\ UNCHANGED <<rows, crowd>>
  <2>1. CASE R!Goto(h, "preempt") /\ UNCHANGED <<status, req>>
    BY <1>9, <2>1 DEF R!Log, HandlerInv, NoneJoins
  <2>2. ASSUME NEW q \in ContentRequest, R!Insert(h, q), R!Goto(h, "openApprove")
        PROVE  R!TypeOK' /\ HandlerInv' /\ NoneJoins /\ UNCHANGED <<rows, crowd>>
    <3>1. R!TypeOK'
      BY <1>9, <2>2 DEF R!Log
    <3>2. HandlerInv'
      BY <1>9, <2>2 DEF R!Log, HandlerInv
    <3>3. NoneJoins /\ UNCHANGED <<rows, crowd>>
      BY <1>9, <2>2 DEF R!Log, NoneJoins
    <3> QED BY <3>1, <3>2, <3>3
  <2> QED BY <1>9, <2>1, <2>2 DEF R!Log
<1>10. ASSUME R!OwnRecord(h)
      PROVE  R!TypeOK' /\ HandlerInv' /\ NoneJoins /\ UNCHANGED <<rows, crowd>>
  <2>1. recorded' \subseteq ContentRequest \X Library
    BY <1>10 DEF R!OwnRecord, HandlerInv
  <2>2. R!TypeOK'
    BY <1>10, <2>1 DEF R!OwnRecord
  <2>3. HandlerInv'
    BY <1>10 DEF R!OwnRecord, HandlerInv
  <2>4. NoneJoins /\ UNCHANGED <<rows, crowd>>
    BY <1>10 DEF R!OwnRecord, NoneJoins
  <2> QED BY <2>2, <2>3, <2>4
<1>11. ASSUME R!Preempt(h)
      PROVE  R!TypeOK' /\ HandlerInv' /\ NoneJoins /\ UNCHANGED <<rows, crowd>>
  <2>1. begun' \subseteq Library
    BY <1>11 DEF R!Preempt, HandlerInv
  <2> QED BY <1>11, <2>1, RequestEnds DEF R!Preempt, HandlersTyped
<1> HIDE DEF RequestInv
<1>12. R!TypeOK' /\ HandlerInv' /\ NoneJoins /\ UNCHANGED <<rows, crowd>>
  BY <1>1, <1>2, <1>3, <1>4, <1>5, <1>6, <1>7, <1>8, <1>9, <1>10, <1>11
<1> QED BY <1>12, CrowdKept DEF RequestInv

\* A handler that goes to a library counts in its crowd.
LEMMA CrowdedGrows ==
  ASSUME RequestInv, NEW l \in Library, R!Crowded(l)
  PROVE  /\ crowd' \in [Library -> Nat] /\ crowd'[l] >= Cardinality(R!Finders(l)) + 1
         /\ \A k \in Library : crowd'[k] >= crowd[k]
<1>1. Cardinality(R!Finders(l)) \in Nat
  BY SomeHandlersAreFinite DEF R!Finders
<1> QED BY <1>1, RequestCardinality DEF R!Crowded, RequestInv, R!TypeOK

\* The next library of the list, or the end of the fulfilment, with the row that
\* a failed call has left or without.
LEMMA RequestNextTarget ==
  ASSUME RequestInv, NEW h \in Handler, NEW list \in Seq(Library), R!NextTarget(h, list),
         handling[h] \in {"targets", "find", "create", "begin"}, RowsGrowFor(h)
  PROVE  HandlersTyped' /\ HandlerInv' /\ CrowdInv' /\ crowd' \in [Library -> Nat]
<1>1. CASE list = <<>>
  <2>1. R!End(h) /\ UNCHANGED crowd
    BY <1>1 DEF R!NextTarget
  <2>2. /\ HandlersTyped' /\ HandlerInv' /\ OthersStand(h)
        /\ handling'[h] = "idle"
    BY <2>1, RequestEnds
  <2>3. /\ crowd' \in [Library -> Nat] /\ \A l \in Library : crowd'[l] >= crowd[l]
        /\ handling'[h] \notin R!Finding /\ handling'[h] \notin {"create", "openCreate"}
    BY <2>1, <2>2 DEF RequestInv, R!TypeOK, R!Finding
  <2> QED BY <2>2, <2>3, CrowdMoved
<1>2. CASE list # <<>>
  <2>1. Head(list) \in Library /\ Tail(list) \in Seq(Library)
    BY <1>2
  <2>2. /\ handling' = [handling EXCEPT ![h] = "find"] /\ lib' = [lib EXCEPT ![h] = Head(list)]
        /\ targets' = [targets EXCEPT ![h] = Tail(list)] /\ R!Crowded(Head(list)) /\ UNCHANGED req
    BY <1>2 DEF R!NextTarget, R!Goto
  <2>3. /\ crowd' \in [Library -> Nat] /\ crowd'[Head(list)] >= Cardinality(R!Finders(Head(list))) + 1
        /\ \A l \in Library : crowd'[l] >= crowd[l]
    BY <2>1, <2>2, CrowdedGrows
  <2>4. /\ OthersStand(h) /\ handling'[h] = "find" /\ lib'[h] = Head(list)
        /\ req'[h] = req[h] /\ req[h] \in ContentRequest
    BY <2>2 DEF RequestInv, R!TypeOK, OthersStand, HandlerInv
  <2>5. HandlersTyped'
    BY <2>1, <2>2 DEF HandlersTyped, RequestInv, R!TypeOK, R!Finding
  <2>6. HandlerInv'
    BY <2>1, <2>4 DEF RequestInv, HandlerInv, OthersStand
  <2>7. CrowdInv'
    BY <2>3, <2>4, CrowdMoved
  <2> QED BY <2>3, <2>5, <2>6, <2>7
<1> QED BY <1>1, <1>2

\* The steps of a fulfilment that go to its next library.
LEMMA RequestTargetStep ==
  ASSUME RequestInv, NEW h \in Handler, R!ListTargets(h) \/ R!FindFails(h) \/ R!Begin(h)
  PROVE  RequestInv'
<1>1. /\ handling[h] \in {"targets", "find", "create", "begin"} /\ req[h] \in ContentRequest
      /\ handling[h] # "targets" => lib[h] \in Library
      /\ UNCHANGED <<target, status, recorded>>
  BY DEF R!ListTargets, R!FindFails, R!Begin, R!requestVars, RequestInv, HandlerInv
<1>2. targets[h] \in Seq(Library) /\ target \in Seq(Library) /\ R!Range(target) \subseteq Library
  BY TargetsAreLibraries DEF RequestInv, R!TypeOK
<1>3. RowsGrowFor(h)
  <2>1. CASE R!FindFails(h)
    BY <2>1, RowsGrowByNoItem DEF R!FindFails
  <2>2. CASE R!ListTargets(h) \/ R!Begin(h)
    BY <2>2 DEF R!ListTargets, R!Begin, R!itemVars, RequestInv, R!TypeOK, RowsGrowFor
  <2> QED BY <2>1, <2>2
<1>4. begun' \subseteq Library /\ missed' \subseteq ContentRequest \X Library
  <2>1. CASE R!ListTargets(h)
    BY <1>1, <2>1, MissedIsTyped DEF R!ListTargets, R!itemVars, RequestInv, R!TypeOK
  <2>2. CASE R!FindFails(h) \/ R!Begin(h)
    BY <1>1, <2>2 DEF R!FindFails, R!Begin, R!Fails, RequestInv, R!TypeOK
  <2> QED BY <2>1, <2>2
<1>5. HandlersTyped' /\ HandlerInv' /\ CrowdInv' /\ crowd' \in [Library -> Nat]
  <2>1. CASE R!End(h) /\ UNCHANGED crowd
    <3>1. /\ HandlersTyped' /\ HandlerInv' /\ OthersStand(h)
          /\ handling'[h] = "idle"
      BY <2>1, RequestEnds
    <3>2. /\ crowd' \in [Library -> Nat] /\ \A l \in Library : crowd'[l] >= crowd[l]
          /\ handling'[h] \notin R!Finding /\ handling'[h] \notin {"create", "openCreate"}
      BY <2>1, <3>1 DEF RequestInv, R!TypeOK, R!Finding
    <3> QED BY <1>3, <3>1, <3>2, CrowdMoved
  <2>2. CASE R!NextTarget(h, target) \/ R!NextTarget(h, targets[h])
    BY <1>1, <1>2, <1>3, <2>2, RequestNextTarget
  <2> QED BY <2>1, <2>2 DEF R!ListTargets, R!FindFails, R!Begin
<1>6. R!TypeOK'
  BY <1>1, <1>3, <1>4, <1>5 DEF RequestInv, R!TypeOK, HandlersTyped, RowsGrowFor
<1> QED BY <1>5, <1>6 DEF RequestInv

\* The browse page goes to a library, or gives up in it.
LEMMA RequestOpenStep ==
  ASSUME RequestInv, NEW h \in Handler, R!OpenFails(h) \/ \E l \in Opened : R!Open(h, l)
  PROVE  RequestInv'
<1>1. CASE R!OpenFails(h)
  <2>1. /\ R!End(h) /\ R!NoItem(h) /\ UNCHANGED <<target, status, recorded, begun, missed, crowd>>
    BY <1>1 DEF R!OpenFails, R!requestVars
  <2>2. HandlersTyped' /\ HandlerInv' /\ OthersStand(h) /\ handling'[h] = "idle"
    BY <2>1, RequestEnds
  <2>3. RowsGrowFor(h)
    BY <2>1, RowsGrowByNoItem
  <2>4. /\ crowd' \in [Library -> Nat] /\ \A l \in Library : crowd'[l] >= crowd[l]
        /\ handling'[h] \notin R!Finding /\ handling'[h] \notin {"create", "openCreate"}
    BY <2>1, <2>2 DEF RequestInv, R!TypeOK, R!Finding
  <2>5. CrowdInv'
    BY <2>2, <2>3, <2>4, CrowdMoved
  <2>6. R!TypeOK'
    BY <2>1, <2>2, <2>3, <2>4 DEF RequestInv, R!TypeOK, HandlersTyped, RowsGrowFor
  <2> QED BY <2>2, <2>5, <2>6 DEF RequestInv
<1>2. ASSUME NEW l \in Opened, R!Open(h, l) PROVE RequestInv'
  <2>1. l \in Library
    BY ProgressAssumption DEF R!ConstantsOK
  <2>2. /\ handling' = [handling EXCEPT ![h] = "openFind"] /\ lib' = [lib EXCEPT ![h] = l]
        /\ R!Crowded(l) /\ UNCHANGED <<target, status, recorded, rows, begun, req, targets, missed>>
    BY <1>2 DEF R!Open, R!Goto, R!requestVars, R!itemVars
  <2>3. /\ crowd' \in [Library -> Nat] /\ crowd'[l] >= Cardinality(R!Finders(l)) + 1
        /\ \A k \in Library : crowd'[k] >= crowd[k]
    BY <2>1, <2>2, CrowdedGrows
  <2>4. OthersStand(h) /\ handling'[h] = "openFind" /\ lib'[h] = l
    BY <2>2 DEF RequestInv, R!TypeOK, OthersStand
  <2>5. RowsGrowFor(h)
    BY <2>2 DEF RequestInv, R!TypeOK, RowsGrowFor
  <2>6. R!TypeOK'
    BY <2>1, <2>2, <2>3 DEF RequestInv, R!TypeOK, R!Finding
  <2>7. HandlerInv'
    BY <2>1, <2>4 DEF RequestInv, HandlerInv, OthersStand
  <2>8. CrowdInv'
    BY <2>3, <2>4, <2>5, CrowdMoved
  <2> QED BY <2>6, <2>7, <2>8 DEF RequestInv
<1> QED BY <1>1, <1>2

\* The opening's request is approved, and a handler of its own fulfils it.
LEMMA RequestOpenApproveStep ==
  ASSUME RequestInv, NEW h \in Handler, R!OpenApprove(h)
  PROVE  RequestInv'
<1> USE DEF RequestInv, R!TypeOK, R!requestVars, R!itemVars, R!Goto, R!Finding, R!Approved
<1>0. lib[h] \in Library /\ req[h] \in ContentRequest /\ handling[h] = "openApprove"
  BY DEF R!OpenApprove, HandlerInv
<1>1. CASE /\ R!Goto(h, "preempt") /\ UNCHANGED req
           /\ \/ R!Approved(req[h]) /\ R!Dropped(req[h])
              \/ UNCHANGED <<status, missed>>
  <2>0. missed' \subseteq ContentRequest \X Library
    BY <1>0, <1>1, MissedIsTyped
  <2>1. R!TypeOK'
    BY <1>0, <1>1, <2>0 DEF R!OpenApprove
  <2>2. HandlerInv'
    BY <1>0, <1>1 DEF R!OpenApprove, HandlerInv
  <2>3. NoneJoins /\ UNCHANGED <<rows, crowd>>
    BY <1>1 DEF R!OpenApprove, NoneJoins
  <2> HIDE DEF RequestInv
  <2>4. CrowdInv'
    BY <2>3, CrowdKept
  <2> QED BY <2>1, <2>2, <2>4 DEF RequestInv
<1>2. ASSUME NEW g \in Handler, handling[g] = "idle", R!Approved(req[h]), R!Triggered(req[h]),
             handling' = [handling EXCEPT ![h] = "ownRecord", ![g] = "targets"],
             req' = [req EXCEPT ![g] = req[h]]
      PROVE  RequestInv'
  <2>0. g # h /\ UNCHANGED <<target, recorded, rows, begun, lib, targets, crowd>>
    BY <1>0, <1>2 DEF R!OpenApprove
  <2>1. missed' \subseteq ContentRequest \X Library
    BY <1>0, <1>2, MissedIsTyped
  <2>2. R!TypeOK'
    BY <1>0, <1>2, <2>0, <2>1
  <2>3. /\ handling'[h] = "ownRecord" /\ handling'[g] = "targets" /\ req'[g] = req[h] /\ req'[h] = req[h]
        /\ \A f \in Handler \ {h, g} : handling'[f] = handling[f] /\ req'[f] = req[f]
    BY <1>2, <2>0
  <2>4. HandlerInv'
    BY <1>0, <2>0, <2>3 DEF HandlerInv
  <2>5. NoneJoins
    BY <2>0, <2>3 DEF NoneJoins
  <2> HIDE DEF RequestInv
  <2>6. CrowdInv'
    BY <2>0, <2>5, CrowdKept
  <2> QED BY <2>2, <2>4, <2>6 DEF RequestInv
<1> QED BY <1>1, <1>2 DEF R!OpenApprove

LEMMA RequestInvStep == RequestInv /\ [R!Next]_(R!vars) => RequestInv'
<1> SUFFICES ASSUME RequestInv, [R!Next]_(R!vars) PROVE RequestInv'
  OBVIOUS
<1>1. CASE UNCHANGED R!vars
  <2>1. UNCHANGED <<target, status, recorded, rows, begun, handling, req, lib, targets, missed, crowd>>
    BY <1>1 DEF R!vars, R!requestVars, R!itemVars, R!handlerVars
  <2>2. CrowdInv'
    BY <2>1, CrowdKept DEF NoneJoins
  <2> QED BY <2>1, <2>2 DEF RequestInv, R!TypeOK, HandlerInv
<1>2. ASSUME NEW h \in Handler, R!Step(h) PROVE RequestInv'
  BY <1>2, RequestFindStep, RequestCreateStep, RequestOtherStep, RequestTargetStep,
     RequestOpenStep, RequestOpenApproveStep
  DEF R!Step
<1> QED
  BY <1>1, <1>2, RequestDecisionStep, RequestOtherStep, RequestOpenStep DEF R!Next

\* A library never has more rows of a title than handlers looked for one at one
\* time, for any number of requests, libraries and handlers.
THEOREM RowsWithinCrowdHolds == ProgressSpec => []RowsWithinCrowd
<1>1. RequestInv => RowsWithinCrowd
  <2> SUFFICES ASSUME RequestInv, NEW l \in Library PROVE rows[l] <= crowd[l]
    BY DEF RowsWithinCrowd, R!RowsWithinCrowd
  <2>1. Cardinality(Creators(l)) \in Nat
    BY SomeHandlersAreFinite DEF Creators
  <2> QED BY <2>1 DEF RequestInv, CrowdInv, R!TypeOK
<1> QED
  BY <1>1, InitIsOfParts, RequestInvInit, RequestInvStep, StepIsOfParts, PTL DEF ProgressSpec

\* Where a handler fulfils a request, and where it has seen a row of its library.
Working == {"targets", "find", "create", "record", "begin"}
AtRow == {"record", "begin", "ask", "log", "openApprove", "ownRecord", "preempt"}

\* h has yet to come to the default target l, or is at it.
Covers(h, q, l) ==
  /\ handling[h] \in Working /\ req[h] = q
  /\ \/ handling[h] = "targets"
     \/ l \in R!Range(targets[h])
     \/ lib[h] = l /\ (handling[h] = "begin" => <<q, l>> \in recorded)

Through(q, l) == <<q, l>> \in missed \/ (<<q, l>> \in recorded /\ l \in begun)

\* Of an approved request each target is done, or some handler will come to it.
FulfilInv ==
  \A q \in ContentRequest, l \in R!Range(target) :
    status[q] = "approved" => Through(q, l) \/ \E h \in Handler : Covers(h, q, l)

\* Nobody begins what has no row, and a row stays.
HasRowInv ==
  /\ \A l \in begun : rows[l] > 0
  /\ \A h \in Handler : handling[h] \in AtRow => rows[lib[h]] > 0

\* Rows stay, what is begun has one, and whoever comes to a row has it.
LEMMA HasRowKept ==
  ASSUME RequestInv, HasRowInv,
         \A l \in Library : rows[l] > 0 => rows'[l] > 0,
         \A l \in begun' : l \in begun \/ rows'[l] > 0,
         \A g \in Handler : handling'[g] \in AtRow =>
           \/ rows'[lib'[g]] > 0
           \/ handling[g] \in AtRow /\ lib'[g] = lib[g]
  PROVE  HasRowInv'
<1>1. begun \subseteq Library
  BY DEF RequestInv, R!TypeOK
<1>2. \A g \in Handler : handling[g] \in AtRow => lib[g] \in Library
  BY DEF RequestInv, HandlerInv, AtRow
<1> QED BY <1>1, <1>2 DEF HasRowInv

LEMMA RowAdded ==
  ASSUME rows \in [Library -> Nat], NEW l \in Library, rows' = [rows EXCEPT ![l] = @ + 1]
  PROVE  rows'[l] > 0 /\ \A k \in Library : rows[k] > 0 => rows'[k] > 0
OBVIOUS

LEMMA RowsStay ==
  ASSUME RequestInv, NEW h \in Handler, RowsGrowFor(h)
  PROVE  \A l \in Library : rows[l] > 0 => rows'[l] > 0
<1>1. ASSUME NEW l \in Library, rows[l] > 0 PROVE rows'[l] > 0
  <2>1. rows[l] \in Nat /\ (rows'[l] = rows[l] \/ rows'[l] = rows[l] + 1)
    BY DEF RequestInv, R!TypeOK, RowsGrowFor
  <2> QED BY <1>1, <2>1
<1> QED BY <1>1

LEMMA HasRowStep == RequestInv /\ HasRowInv /\ [R!Next]_(R!vars) => HasRowInv'
<1>1. SUFFICES ASSUME RequestInv, HasRowInv, [R!Next]_(R!vars) PROVE HasRowInv'
  OBVIOUS
<1>t. /\ handling \in [Handler -> R!Finding \cup {"idle", "setting", "approve", "withdraw",
                     "targets", "record", "begin", "ask", "log", "openApprove", "ownRecord",
                     "preempt"}]
      /\ lib \in [Handler -> Library \cup {"none"}]
      /\ rows \in [Library -> Nat]
  BY <1>1 DEF RequestInv, R!TypeOK
<1>r. \A g \in Handler : handling[g] \in AtRow => rows[lib[g]] > 0
  BY <1>1 DEF HasRowInv
<1> USE DEF R!Goto, R!End, R!requestVars, R!itemVars, R!handlerVars
<1>2. ASSUME NEW h \in Handler,
             R!CreateRequest(h) \/ R!ReadSetting(h) \/ R!AutoApprove(h) \/ R!Withdraw(h)
      PROVE  HasRowInv'
  <2>1. UNCHANGED <<rows, begun>>
        /\ \A g \in Handler : handling'[g] \in AtRow => handling[g] \in AtRow /\ lib'[g] = lib[g]
    BY <1>2, <1>t
    DEF R!CreateRequest, R!Insert, R!ReadSetting, R!AutoApprove, R!Fulfil, R!Withdraw, R!Delete, AtRow
  <2> QED BY <1>1, <2>1, HasRowKept
<1>3. ASSUME NEW q \in ContentRequest, R!Decline(q) \/ R!AdminDelete(q) PROVE HasRowInv'
  <2>1. UNCHANGED <<rows, begun, handling, lib>>
    BY <1>3 DEF R!Decline, R!AdminDelete, R!Delete
  <2> QED BY <1>1, <2>1, HasRowKept
<1>4. ASSUME NEW h \in Handler, NEW q \in ContentRequest, R!Approve(h, q) \/ R!BeginWithdraw(h, q)
      PROVE  HasRowInv'
  <2>1. UNCHANGED <<rows, begun, lib>>
        /\ \A g \in Handler : handling'[g] \in AtRow => handling[g] \in AtRow
    BY <1>4, <1>t DEF R!Approve, R!Fulfil, R!BeginWithdraw, AtRow
  <2> QED BY <1>1, <2>1, HasRowKept
<1>5. ASSUME NEW h \in Handler, NEW l \in Opened, R!Open(h, l) PROVE HasRowInv'
  <2>1. UNCHANGED <<rows, begun>>
        /\ \A g \in Handler : handling'[g] \in AtRow => handling[g] \in AtRow /\ lib'[g] = lib[g]
    BY <1>5, <1>t DEF R!Open, AtRow
  <2> QED BY <1>1, <2>1, HasRowKept
<1>6. ASSUME NEW h \in Handler,
             \/ R!Find(h, "find", "create", "record") \/ R!Find(h, "openFind", "openCreate", "ask")
      PROVE  HasRowInv'
  <2>1. UNCHANGED <<rows, begun, lib>>
        /\ \A g \in Handler : handling'[g] \in AtRow => handling[g] \in AtRow \/ rows[lib[g]] > 0
    BY <1>6, <1>t DEF R!Find, R!Found, AtRow
  <2> QED BY <1>1, <2>1, HasRowKept
<1>7. ASSUME NEW h \in Handler,
             R!Create(h, "create", "record") \/ R!Create(h, "openCreate", "ask")
      PROVE  HasRowInv'
  <2>1. lib[h] \in Library
    BY <1>1, <1>7 DEF R!Create, RequestInv, HandlerInv
  <2>2. rows' = [rows EXCEPT ![lib[h]] = @ + 1] /\ UNCHANGED <<begun, lib>>
    BY <1>7 DEF R!Create
  <2>3. \A g \in Handler : handling'[g] \in AtRow => g = h \/ handling[g] \in AtRow
    BY <1>7, <1>t DEF R!Create
  <2>4. rows'[lib[h]] > 0 /\ \A k \in Library : rows[k] > 0 => rows'[k] > 0
    BY <1>t, <2>1, <2>2, RowAdded
  <2> QED BY <1>1, <2>2, <2>3, <2>4, HasRowKept
<1>8. ASSUME NEW h \in Handler, R!ListTargets(h) \/ R!Record(h) PROVE HasRowInv'
  <2>1. UNCHANGED <<rows, begun>>
        /\ \A g \in Handler : handling'[g] \in AtRow => handling[g] \in AtRow /\ lib'[g] = lib[g]
    BY <1>8, <1>t DEF R!ListTargets, R!NextTarget, R!Record, AtRow
  <2> QED BY <1>1, <2>1, HasRowKept
<1>9. ASSUME NEW h \in Handler, R!FindFails(h) \/ R!OpenFails(h) PROVE HasRowInv'
  <2>1. UNCHANGED begun
        /\ \A g \in Handler : handling'[g] \in AtRow => handling[g] \in AtRow /\ lib'[g] = lib[g]
    BY <1>9, <1>t DEF R!FindFails, R!OpenFails, R!NextTarget, AtRow
  <2>2. \A l \in Library : rows[l] > 0 => rows'[l] > 0
    BY <1>1, <1>9, RowsGrowByNoItem, RowsStay DEF R!FindFails, R!OpenFails
  <2> QED BY <1>1, <2>1, <2>2, HasRowKept
<1>10. ASSUME NEW h \in Handler, R!Begin(h) \/ R!Preempt(h) PROVE HasRowInv'
  <2>1. UNCHANGED rows /\ begun' \subseteq begun \cup {lib[h]} /\ handling[h] \in AtRow
        /\ \A g \in Handler : handling'[g] \in AtRow => handling[g] \in AtRow /\ lib'[g] = lib[g]
    BY <1>10, <1>t DEF R!Begin, R!NextTarget, R!Preempt, AtRow
  <2>2. rows[lib[h]] > 0
    BY <2>1, <1>r
  <2> QED BY <1>1, <2>1, <2>2, HasRowKept
<1>11. ASSUME NEW h \in Handler, R!AskLogged(h) \/ R!Log(h) \/ R!OwnRecord(h) PROVE HasRowInv'
  <2>1. UNCHANGED <<rows, begun>>
        /\ \A g \in Handler : handling'[g] \in AtRow => handling[g] \in AtRow /\ lib'[g] = lib[g]
    BY <1>11, <1>t DEF R!AskLogged, R!Log, R!Insert, R!OwnRecord, AtRow
  <2> QED BY <1>1, <2>1, HasRowKept
<1>12. ASSUME NEW h \in Handler, R!OpenApprove(h) PROVE HasRowInv'
  <2>1. UNCHANGED <<rows, begun, lib>>
        /\ \A g \in Handler : handling'[g] \in AtRow => handling[g] \in AtRow
    BY <1>12, <1>t DEF R!OpenApprove, AtRow
  <2> QED BY <1>1, <2>1, HasRowKept
<1>13. CASE UNCHANGED R!vars
  <2>1. UNCHANGED <<rows, begun, handling, lib>>
    BY <1>13 DEF R!vars
  <2> QED BY <1>1, <2>1, HasRowKept
<1> QED
  BY <1>1, <1>2, <1>3, <1>4, <1>5, <1>6, <1>7, <1>8, <1>9, <1>10, <1>11, <1>12, <1>13
  DEF R!Next, R!Step

\* A step after which what was through still is and what a handler covered it
\* still does, or is through; or else a handler comes to it anew.
LEMMA FulfilKept ==
  ASSUME FulfilInv, UNCHANGED target,
         \A q \in ContentRequest, l \in R!Range(target) : status'[q] = "approved" =>
           \/ Through(q, l)'
           \/ \E h \in Handler : Covers(h, q, l)'
           \/ /\ status[q] = "approved" /\ (Through(q, l) => Through(q, l)')
              /\ \A h \in Handler : Covers(h, q, l) => Covers(h, q, l)' \/ Through(q, l)'
  PROVE  FulfilInv'
<1> SUFFICES ASSUME NEW q \in ContentRequest, NEW l \in R!Range(target), status'[q] = "approved"
             PROVE  Through(q, l)' \/ \E h \in Handler : Covers(h, q, l)'
  BY DEF FulfilInv
<1> QED BY DEF FulfilInv

\* Nor does a step of a handler that fulfils nothing take anything away.
LEMMA FulfilIgnores ==
  ASSUME RequestInv, FulfilInv, UNCHANGED target, begun \subseteq begun',
         NEW h \in Handler, handling[h] \notin Working, OthersStand(h),
         \A q \in ContentRequest : status'[q] = "approved" =>
           \/ handling'[h] = "targets" /\ req'[h] = q
           \/ \A l \in R!Range(target) : <<q, l>> \in missed'
           \/ /\ status[q] = "approved"
              /\ \A l \in Library : /\ <<q, l>> \in recorded => <<q, l>> \in recorded'
                                    /\ <<q, l>> \in missed => <<q, l>> \in missed'
  PROVE  FulfilInv'
<1>1. R!Range(target) \subseteq Library
  BY TargetsAreLibraries
<1>2. ASSUME NEW q \in ContentRequest, NEW l \in R!Range(target), status'[q] = "approved"
      PROVE  \/ Through(q, l)'
             \/ \E g \in Handler : Covers(g, q, l)'
             \/ /\ status[q] = "approved" /\ (Through(q, l) => Through(q, l)')
                /\ \A g \in Handler : Covers(g, q, l) => Covers(g, q, l)' \/ Through(q, l)'
  <2>1. CASE handling'[h] = "targets" /\ req'[h] = q
    BY <2>1 DEF Covers, Working
  <2>2. CASE <<q, l>> \in missed'
    BY <2>2 DEF Through
  <2>3. CASE /\ status[q] = "approved"
             /\ <<q, l>> \in recorded => <<q, l>> \in recorded'
             /\ <<q, l>> \in missed => <<q, l>> \in missed'
    <3>1. Through(q, l) => Through(q, l)'
      BY <2>3 DEF Through
    <3>2. ASSUME NEW g \in Handler, Covers(g, q, l) PROVE Covers(g, q, l)'
      <4>1. g # h
        BY <3>2 DEF Covers
      <4> QED BY <2>3, <3>2, <4>1 DEF Covers, OthersStand
    <3> QED BY <2>3, <3>1, <3>2
  <2> QED BY <1>1, <1>2, <2>1, <2>2, <2>3
<1> QED BY <1>2, FulfilKept

\* A goroutine that goes on with a list comes to what is in it.
LEMMA NextTargetCovers ==
  ASSUME RequestInv, NEW h \in Handler, NEW list \in Seq(Library), R!NextTarget(h, list),
         NEW l \in R!Range(list), NEW q, req[h] = q
  PROVE  Covers(h, q, l)'
<1>1. list # <<>>
  BY DEF R!Range
<1>2. l = Head(list) \/ l \in R!Range(Tail(list))
  <2>1. PICK i \in 1 .. Len(list) : l = list[i]
    BY DEF R!Range
  <2>2. CASE i = 1
    BY <1>1, <2>1, <2>2
  <2>3. CASE i # 1
    <3>1. i - 1 \in 1 .. Len(Tail(list)) /\ Tail(list)[i - 1] = list[i]
      BY <1>1, <2>1, <2>3
    <3>2. DOMAIN Tail(list) = 1 .. Len(Tail(list))
      BY <1>1
    <3> QED BY <2>1, <3>1, <3>2 DEF R!Range
  <2> QED BY <2>2, <2>3
<1>3. /\ handling'[h] = "find" /\ req' = req /\ lib'[h] = Head(list)
      /\ targets'[h] = Tail(list)
  BY <1>1 DEF R!NextTarget, R!Goto, RequestInv, R!TypeOK
<1> QED BY <1>2, <1>3 DEF Covers, Working

LEMMA OneMoves ==
  ASSUME RequestInv, NEW h \in Handler,
         \/ R!End(h)
         \/ \E to : R!Goto(h, to) /\ UNCHANGED <<req, lib, targets>>
         \/ \E to, l : R!Goto(h, to) /\ lib' = [lib EXCEPT ![h] = l] /\ UNCHANGED <<req, targets>>
         \/ \E to, q : R!Goto(h, to) /\ req' = [req EXCEPT ![h] = q] /\ UNCHANGED <<lib, targets>>
         \/ \E to, l, list : /\ R!Goto(h, to) /\ lib' = [lib EXCEPT ![h] = l]
                             /\ targets' = [targets EXCEPT ![h] = list] /\ UNCHANGED req
  PROVE  OthersStand(h)
BY DEF RequestInv, R!TypeOK, OthersStand, R!End, R!Goto

LEMMA NextTargetMovesOne ==
  ASSUME RequestInv, NEW h \in Handler, NEW list, R!NextTarget(h, list)
  PROVE  OthersStand(h)
<1>1. CASE list = <<>>
  BY <1>1, OneMoves DEF R!NextTarget
<1>2. CASE list # <<>>
  BY <1>2, OneMoves DEF R!NextTarget
<1> QED BY <1>1, <1>2

\* What h covers, a step of its fulfilment leaves covered or through.
LEMMA WorkCovers ==
  ASSUME RequestInv, NEW h \in Handler, NEW q \in ContentRequest, NEW l \in R!Range(target),
         status[q] = "approved", Covers(h, q, l),
         \/ R!Find(h, "find", "create", "record") \/ R!Create(h, "create", "record")
         \/ R!ListTargets(h) \/ R!FindFails(h) \/ R!Record(h) \/ R!Begin(h)
  PROVE  Covers(h, q, l)' \/ Through(q, l)'
<1>1. /\ req[h] = q /\ target \in Seq(Library) /\ targets[h] \in Seq(Library)
      /\ handling \in [Handler -> R!Finding \cup {"idle", "setting", "approve", "withdraw", "targets",
              "record", "begin", "ask", "log", "openApprove", "ownRecord", "preempt"}]
  BY TargetsAreLibraries DEF Covers, RequestInv, R!TypeOK
<1>2. CASE R!Find(h, "find", "create", "record") \/ R!Create(h, "create", "record")
  BY <1>1, <1>2 DEF R!Find, R!Create, R!Goto, Covers, Working
<1>3. CASE R!ListTargets(h)
  <2>1. CASE R!NextTarget(h, target)
    BY <1>1, <2>1, NextTargetCovers
  <2>2. CASE R!Dropped(req[h])
    BY <1>1, <2>2 DEF R!Dropped, Through
  <2> QED BY <1>3, <2>1, <2>2 DEF R!ListTargets
<1>4. ASSUME R!FindFails(h) \/ R!Begin(h) PROVE Covers(h, q, l)' \/ Through(q, l)'
  <2>1. R!NextTarget(h, targets[h]) /\ handling[h] # "targets"
    BY <1>4 DEF R!FindFails, R!Begin
  <2>2. CASE l \in R!Range(targets[h])
    BY <1>1, <2>1, <2>2, NextTargetCovers
  <2>3. CASE lib[h] = l /\ R!FindFails(h)
    BY <1>1, <2>3 DEF R!FindFails, R!Fails, Through
  <2>4. CASE l \notin R!Range(targets[h]) /\ lib[h] = l /\ R!Begin(h)
    <3>1. <<q, l>> \in recorded /\ UNCHANGED recorded
      BY <2>4 DEF Covers, R!Begin, R!requestVars
    <3> QED BY <1>1, <2>4, <3>1 DEF R!Begin, R!Fails, Through
  <2> QED BY <1>4, <2>1, <2>2, <2>3, <2>4 DEF Covers
<1>5. CASE R!Record(h)
  <2>1. /\ handling[h] = "record" /\ handling'[h] = "begin"
        /\ UNCHANGED <<req, lib, targets>>
    BY <1>1, <1>5 DEF R!Record, R!Goto
  <2>2. CASE l \in R!Range(targets[h])
    BY <1>1, <2>1, <2>2 DEF Covers, Working
  <2>3. CASE lib[h] = l /\ R!Fails(h)
    BY <1>1, <2>3 DEF R!Fails, Through
  <2>4. CASE lib[h] = l /\ <<q, l>> \in recorded'
    BY <1>1, <2>1, <2>4 DEF Covers, Working
  <2> QED BY <1>1, <1>5, <2>1, <2>2, <2>3, <2>4 DEF Covers, R!Record, R!Exists
<1> QED BY <1>2, <1>3, <1>4, <1>5

LEMMA FulfilInvStep == RequestInv /\ FulfilInv /\ [R!Next]_(R!vars) => FulfilInv'
<1> SUFFICES ASSUME RequestInv, FulfilInv, [R!Next]_(R!vars) PROVE FulfilInv'
  OBVIOUS
<1>0. /\ R!Range(target) \subseteq Library
      /\ status \in [ContentRequest -> {"none", "pending", "approved", "declined", "deleted"}]
  BY TargetsAreLibraries DEF RequestInv, R!TypeOK
<1>1. ASSUME NEW h \in Handler, R!CreateRequest(h) \/ R!ReadSetting(h) PROVE FulfilInv'
  <2>1. OthersStand(h)
    BY <1>1, OneMoves DEF R!CreateRequest, R!Insert, R!ReadSetting
  <2>2. /\ UNCHANGED <<target, recorded, begun, missed>> /\ handling[h] \notin Working
        /\ \A q \in ContentRequest : status'[q] = "approved" => status[q] = "approved"
    BY <1>0, <1>1
    DEF R!CreateRequest, R!Insert, R!ReadSetting, Working, R!requestVars, R!itemVars
  <2> QED BY <2>1, <2>2, FulfilIgnores
<1>2. ASSUME NEW h \in Handler, R!AutoApprove(h) PROVE FulfilInv'
  <2>1. /\ req[h] \in ContentRequest /\ handling[h] \notin Working
        /\ UNCHANGED <<target, recorded, begun>>
    BY <1>2 DEF R!AutoApprove, RequestInv, HandlerInv, Working, R!itemVars
  <2>2. CASE R!Approved(req[h]) /\ R!Fulfil(h, req[h]) /\ UNCHANGED <<lib, targets>>
    <3>1. OthersStand(h)
      BY <2>2, OneMoves DEF R!Fulfil
    <3>2. handling'[h] = "targets" /\ req'[h] = req[h]
      BY <2>2 DEF R!Fulfil, R!Goto, RequestInv, R!TypeOK
    <3>3. /\ \A q \in ContentRequest : status'[q] = "approved" => q = req[h] \/ status[q] = "approved"
          /\ \A q \in ContentRequest, l \in Library : q # req[h] /\ <<q, l>> \in missed => <<q, l>> \in missed'
      BY <1>0, <2>1, <2>2 DEF R!Fulfil, R!Approved, R!Triggered
    <3> QED BY <2>1, <3>1, <3>2, <3>3, FulfilIgnores
  <2>3. CASE R!Approved(req[h]) /\ R!Dropped(req[h]) /\ R!End(h)
    <3>1. OthersStand(h)
      BY <2>3, OneMoves
    <3>2. /\ \A q \in ContentRequest : status'[q] = "approved" => q = req[h] \/ status[q] = "approved"
          /\ missed \subseteq missed' /\ \A l \in R!Range(target) : <<req[h], l>> \in missed'
      BY <1>0, <2>1, <2>3 DEF R!Approved, R!Dropped
    <3> QED BY <2>1, <3>1, <3>2, FulfilIgnores
  <2>4. CASE R!End(h) /\ UNCHANGED <<status, missed>>
    <3>1. OthersStand(h)
      BY <2>4, OneMoves
    <3> QED BY <2>1, <2>4, <3>1, FulfilIgnores
  <2> QED BY <1>2, <2>2, <2>3, <2>4 DEF R!AutoApprove
<1>3. ASSUME NEW q \in ContentRequest, R!Decline(q) \/ R!AdminDelete(q) PROVE FulfilInv'
  <2>1. /\ UNCHANGED <<target, missed, begun, handling, req, lib, targets>>
        /\ \A p \in ContentRequest : status'[p] = "approved" => p # q /\ status[p] = "approved"
        /\ \A p \in ContentRequest \ {q}, l \in Library :
             <<p, l>> \in recorded => <<p, l>> \in recorded'
    BY <1>0, <1>3 DEF R!Decline, R!AdminDelete, R!Delete, R!itemVars, R!handlerVars
  <2>2. ASSUME NEW p \in ContentRequest, NEW l \in R!Range(target), status'[p] = "approved"
        PROVE  /\ status[p] = "approved" /\ (Through(p, l) => Through(p, l)')
               /\ \A h \in Handler : Covers(h, p, l) => Covers(h, p, l)'
    <3>1. status[p] = "approved" /\ (<<p, l>> \in recorded => <<p, l>> \in recorded')
      BY <1>0, <2>1, <2>2
    <3>2. Through(p, l) => Through(p, l)'
      BY <2>1, <3>1 DEF Through
    <3>3. ASSUME NEW h \in Handler, Covers(h, p, l) PROVE Covers(h, p, l)'
      BY <2>1, <3>1, <3>3 DEF Covers
    <3> QED BY <3>1, <3>2, <3>3
  <2> QED BY <2>1, <2>2, FulfilKept
<1>4. ASSUME NEW h \in Handler, NEW q \in ContentRequest, R!Approve(h, q) PROVE FulfilInv'
  <2>1. /\ handling[h] \notin Working /\ UNCHANGED <<target, recorded, begun, lib, targets>>
        /\ \A p \in ContentRequest : status'[p] = "approved" => p = q \/ status[p] = "approved"
    BY <1>0, <1>4 DEF R!Approve, R!Approved, Working, R!itemVars
  <2>2. CASE R!Fulfil(h, q)
    <3>1. OthersStand(h)
      BY <2>1, <2>2, OneMoves DEF R!Fulfil
    <3>2. handling'[h] = "targets" /\ req'[h] = q
      BY <2>2 DEF R!Fulfil, R!Goto, RequestInv, R!TypeOK
    <3>3. \A p \in ContentRequest, l \in Library : p # q /\ <<p, l>> \in missed => <<p, l>> \in missed'
      BY <2>2 DEF R!Fulfil, R!Triggered
    <3> QED BY <2>1, <3>1, <3>2, <3>3, FulfilIgnores
  <2>3. CASE R!Dropped(q) /\ UNCHANGED <<handling, req>>
    <3>1. OthersStand(h)
      BY <2>1, <2>3 DEF OthersStand
    <3>2. missed \subseteq missed' /\ \A l \in R!Range(target) : <<q, l>> \in missed'
      BY <2>3 DEF R!Dropped
    <3> QED BY <2>1, <3>1, <3>2, FulfilIgnores
  <2> QED BY <1>4, <2>2, <2>3 DEF R!Approve
<1>5. ASSUME NEW h \in Handler, NEW q \in ContentRequest, R!BeginWithdraw(h, q) PROVE FulfilInv'
  <2>1. OthersStand(h)
    BY <1>5, OneMoves DEF R!BeginWithdraw
  <2>2. UNCHANGED <<target, status, recorded, begun, missed>> /\ handling[h] \notin Working
    BY <1>5 DEF R!BeginWithdraw, Working, R!requestVars, R!itemVars
  <2> QED BY <2>1, <2>2, FulfilIgnores
<1>6. ASSUME NEW h \in Handler, R!Withdraw(h) PROVE FulfilInv'
  <2>1. OthersStand(h)
    BY <1>6, OneMoves DEF R!Withdraw
  <2>2. UNCHANGED <<target, begun, missed>> /\ handling[h] \notin Working
    BY <1>6 DEF R!Withdraw, Working, R!itemVars
  <2>3. req[h] \in ContentRequest
    BY <1>6 DEF R!Withdraw, RequestInv, HandlerInv
  <2>4. \A p \in ContentRequest : status'[p] = "approved" =>
          /\ status[p] = "approved"
          /\ \A l \in Library : <<p, l>> \in recorded => <<p, l>> \in recorded'
    BY <1>0, <1>6, <2>3 DEF R!Withdraw, R!Delete, R!requestVars
  <2> QED BY <2>1, <2>2, <2>4, FulfilIgnores
<1>7. ASSUME NEW h \in Handler,
             \/ \E l \in Opened : R!Open(h, l)
             \/ R!Find(h, "openFind", "openCreate", "ask") \/ R!Create(h, "openCreate", "ask")
             \/ R!OpenFails(h) \/ R!AskLogged(h) \/ R!Log(h) \/ R!OwnRecord(h) \/ R!Preempt(h)
      PROVE  FulfilInv'
  <2>1. OthersStand(h)
    BY <1>7, OneMoves
    DEF R!Open, R!Find, R!Create, R!OpenFails, R!AskLogged, R!Log, R!Insert, R!OwnRecord, R!Preempt
  <2>2. /\ UNCHANGED <<target, missed>> /\ begun \subseteq begun' /\ recorded \subseteq recorded'
        /\ handling[h] \notin Working
        /\ \A q \in ContentRequest : status'[q] = "approved" => status[q] = "approved"
    BY <1>0, <1>7
    DEF R!Open, R!Find, R!Create, R!OpenFails, R!AskLogged, R!Log, R!Insert, R!OwnRecord, R!Preempt,
        Working, R!requestVars, R!itemVars
  <2> QED BY <2>1, <2>2, FulfilIgnores
<1>8. ASSUME NEW h \in Handler, R!OpenApprove(h) PROVE FulfilInv'
  <2>1. /\ handling[h] = "openApprove" /\ req[h] \in ContentRequest
        /\ UNCHANGED <<target, recorded, begun, lib, targets>>
    BY <1>8 DEF R!OpenApprove, RequestInv, HandlerInv, R!itemVars
  <2>2. CASE /\ R!Goto(h, "preempt") /\ UNCHANGED req
             /\ R!Approved(req[h]) /\ R!Dropped(req[h])
    <3>1. OthersStand(h)
      BY <2>1, <2>2, OneMoves
    <3>2. /\ \A q \in ContentRequest : status'[q] = "approved" => q = req[h] \/ status[q] = "approved"
          /\ missed \subseteq missed' /\ \A l \in R!Range(target) : <<req[h], l>> \in missed'
      BY <1>0, <2>1, <2>2 DEF R!Approved, R!Dropped
    <3> QED BY <2>1, <3>1, <3>2, FulfilIgnores DEF Working
  <2>3. CASE R!Goto(h, "preempt") /\ UNCHANGED <<status, req, missed>>
    <3>1. OthersStand(h)
      BY <2>1, <2>3, OneMoves
    <3> QED BY <2>1, <2>3, <3>1, FulfilIgnores DEF Working
  <2>4. ASSUME NEW g \in Handler, handling[g] = "idle", R!Approved(req[h]), R!Triggered(req[h]),
               handling' = [handling EXCEPT ![h] = "ownRecord", ![g] = "targets"],
               req' = [req EXCEPT ![g] = req[h]]
        PROVE  FulfilInv'
    <3>1. /\ handling'[g] = "targets" /\ req'[g] = req[h] /\ g # h
          /\ \A f \in Handler \ {g, h} : handling'[f] = handling[f] /\ req'[f] = req[f]
      BY <2>1, <2>4 DEF RequestInv, R!TypeOK
    <3>2. ASSUME NEW q, q = req[h], NEW l PROVE Covers(g, q, l)'
      BY <3>1, <3>2 DEF Covers, Working
    <3>3. ASSUME NEW q \in ContentRequest, q # req[h], NEW l \in R!Range(target),
                 status'[q] = "approved"
          PROVE  /\ status[q] = "approved" /\ (Through(q, l) => Through(q, l)')
                 /\ \A f \in Handler : Covers(f, q, l) => Covers(f, q, l)'
      <4>1. status[q] = "approved" /\ (<<q, l>> \in missed => <<q, l>> \in missed')
        BY <1>0, <2>1, <2>4, <3>3 DEF R!Approved, R!Triggered
      <4>2. Through(q, l) => Through(q, l)'
        BY <2>1, <4>1 DEF Through
      <4>3. ASSUME NEW f \in Handler, Covers(f, q, l) PROVE Covers(f, q, l)'
        <5>1. f # g /\ f # h
          BY <2>1, <2>4, <4>3 DEF Covers, Working
        <5> QED BY <2>1, <3>1, <4>3, <5>1 DEF Covers
      <4> QED BY <4>1, <4>2, <4>3
    <3>4. ASSUME NEW q \in ContentRequest, NEW l \in R!Range(target), status'[q] = "approved"
          PROVE  \/ Through(q, l)'
                 \/ \E f \in Handler : Covers(f, q, l)'
                 \/ /\ status[q] = "approved" /\ (Through(q, l) => Through(q, l)')
                    /\ \A f \in Handler : Covers(f, q, l) => Covers(f, q, l)' \/ Through(q, l)'
      <4>1. CASE q = req[h]
        BY <3>2, <4>1
      <4>2. CASE q # req[h]
        BY <3>3, <3>4, <4>2
      <4> QED BY <4>1, <4>2
    <3> QED BY <2>1, <3>4, FulfilKept
  <2> QED BY <1>8, <2>2, <2>3, <2>4 DEF R!OpenApprove
<1>9. ASSUME NEW h \in Handler,
             \/ R!Find(h, "find", "create", "record") \/ R!Create(h, "create", "record")
             \/ R!ListTargets(h) \/ R!FindFails(h) \/ R!Record(h) \/ R!Begin(h)
      PROVE  FulfilInv'
  <2>1. /\ UNCHANGED <<target, status>> /\ missed \subseteq missed' /\ begun \subseteq begun'
        /\ recorded \subseteq recorded'
    BY <1>9
    DEF R!Find, R!Create, R!ListTargets, R!FindFails, R!Record, R!Begin, R!Fails, R!Dropped,
        R!requestVars, R!itemVars
  <2>2. OthersStand(h)
    BY <1>9, OneMoves, NextTargetMovesOne
    DEF R!Find, R!Create, R!ListTargets, R!FindFails, R!Record, R!Begin
  <2>3. ASSUME NEW q \in ContentRequest, NEW l \in R!Range(target), status[q] = "approved"
        PROVE  /\ Through(q, l) => Through(q, l)'
               /\ \A g \in Handler : Covers(g, q, l) => Covers(g, q, l)' \/ Through(q, l)'
    <3>1. Through(q, l) => Through(q, l)'
      BY <2>1 DEF Through
    <3>2. ASSUME NEW g \in Handler, Covers(g, q, l) PROVE Covers(g, q, l)' \/ Through(q, l)'
      <4>1. CASE g = h
        BY <1>9, <2>3, <3>2, <4>1, WorkCovers
      <4>2. CASE g # h
        BY <2>1, <2>2, <3>2, <4>2 DEF Covers, OthersStand
      <4> QED BY <4>1, <4>2
    <3> QED BY <3>1, <3>2
  <2> QED BY <2>1, <2>3, FulfilKept
<1>10. CASE UNCHANGED R!vars
  <2>1. UNCHANGED <<target, missed, begun, recorded, status, handling, req, lib, targets>>
    BY <1>10 DEF R!vars, R!requestVars, R!itemVars, R!handlerVars
  <2>2. ASSUME NEW q, NEW l, NEW h \in Handler, Covers(h, q, l) PROVE Covers(h, q, l)'
    BY <2>1, <2>2 DEF Covers
  <2>3. \A q, l : Through(q, l) => Through(q, l)'
    BY <2>1 DEF Through
  <2> QED BY <2>1, <2>2, <2>3, FulfilKept
<1> QED
  BY <1>1, <1>2, <1>3, <1>4, <1>5, <1>6, <1>7, <1>8, <1>9, <1>10 DEF R!Next, R!Step

\* Once all handlers are at rest an approved request has a row, a fulfilment and an
\* acquisition in every default target its last approval came to and where no call
\* failed, whatever was declined, approved again, withdrawn or opened meanwhile
\* (acquisition/service.go, httpapi/content_requests.go).
THEOREM RestIsFulfilledHolds == ProgressSpec => []R!RestIsFulfilled
<1> DEFINE Inv == RequestInv /\ FulfilInv /\ HasRowInv
<1>1. R!Init => Inv
  <2> SUFFICES ASSUME R!Init PROVE FulfilInv /\ HasRowInv
    BY RequestInvInit
  <2> QED BY DEF R!Init, FulfilInv, HasRowInv, AtRow
<1>2. Inv => R!RestIsFulfilled
  BY DEF FulfilInv, HasRowInv, Covers, Through, Working, R!RestIsFulfilled
<1> QED
  BY <1>1, <1>2, InitIsOfParts, RequestInvStep, FulfilInvStep, HasRowStep, StepIsOfParts, PTL
  DEF ProgressSpec

-----------------------------------------------------------------------------

\* Every variable of every part has its type.
THEOREM ProgressTypesHold == ProgressSpec => []ProgressTypes
<1> DEFINE Inv == TypeOK /\ CountInv /\ ResolveInv /\ TranscodeInv /\ SeasonInv /\ RequestInv
<1>1. ProgressInit => Inv
  BY DirWalkAssumption, InitIsOfParts, InitHolds, ResolveInvInit, TranscodeInvInit, SeasonInvInit,
     RequestInvInit
  DEF IInv
<1>2. Inv /\ [ProgressNext]_progressVars => Inv'
  <2> SUFFICES ASSUME Inv, [ProgressNext]_progressVars PROVE Inv'
    OBVIOUS
  <2>1. TypeOK' /\ CountInv'
    BY DirWalkAssumption, StepIsOfParts, CountStep
  <2> QED
    BY <2>1, StepIsOfParts, ResolveInvStep, TranscodeInvStep, SeasonInvStep, RequestInvStep
<1>3. Inv => ProgressTypes
  BY DEF ProgressTypes, ResolveInv, TranscodeInv, SeasonInv, RequestInv
<1> QED BY <1>1, <1>2, <1>3, PTL DEF ProgressSpec
=============================================================================
