----------------------------- MODULE LibraryScan -----------------------------
(***************************************************************************)
(* The scan jobs of one library (scanner/service.go, queue.go, promote.go, *)
(* store/scan.go).  Finders discover files and push them on the job's      *)
(* staging queue in DragonflyDB; the job's own goroutine (run) pops them   *)
(* in batches into scan_files while they work and once more when they are  *)
(* done, and then promotes what is unmatched to media items.               *)
(* A finder stands for one file found by one of the walks: WalkConcurrent  *)
(* (see DirWalk), walkWebDAVDir or webdav.Walk.  Two finders may find the  *)
(* same file, because the walks of a library overlap: a download's folder  *)
(* is listed from its files' webdav_url and from its provider_ref          *)
(* (ListNZBFileWebDAVDirs) and is walked once for each.                    *)
(***************************************************************************)
EXTENDS Naturals, FiniteSets, SequencesExt

CONSTANTS
  Jobs,       \* number of scan jobs, which start in this order
  Finder,     \* files found, by who finds them
  PathOf,     \* the path each finder finds
  TitleOf,    \* the title a path is parsed to
  Hashed,     \* paths whose name is a hash (IsProbableHash)
  BatchSize,  \* flushBatchSize
  Faults,     \* calls that may fail
  Overlap,    \* a scan is started while another one of the library runs
  MaxRestarts \* bounds the restarts of the process

Job == 1 .. Jobs
Path == {PathOf[f] : f \in Finder}
Title == {TitleOf[p] : p \in Path}
Fault == {"push", "pop", "upsert", "counts", "delete", "list", "probe", "promote",
          "mark", "finish"}

ASSUME LibraryScanAssumption ==
  /\ IsFiniteSet(Finder) /\ Hashed \subseteq Path
  /\ Faults \subseteq Fault /\ Overlap \in BOOLEAN
  /\ BatchSize \in Nat \ {0} /\ Jobs \in Nat /\ MaxRestarts \in Nat

VARIABLES
  status,    \* scan_jobs.status
  counts,    \* scan_jobs.files_found and files_synced
  scanFile,  \* scan_files: "absent", "unmatched" or "matched"
  media,     \* number of media_items rows of each title
  staged,    \* the staging queue of each job, which outlives the process
  at,        \* what the goroutine of each job does next
  finder,    \* how far each finder of a job is
  found, synced, \* the counters of run
  last,      \* jobs that saw producerDone
  batch,     \* the files a job has popped
  pending,   \* the unmatched files it has listed
  exists,    \* whether findOrCreateMediaItem found the row
  refused,   \* files lost to a call that failed (history)
  restarts   \* restarts so far

table == <<status, counts, scanFile, media>>
counters == <<found, synced>>
local == <<last, batch, pending, exists, refused>>
vars == <<table, staged, at, finder, counters, local, restarts>>

Running == {"wait", "pop", "upsert", "counts", "delete", "list", "each", "write",
            "mark", "finish"}

Init ==
  /\ status = [j \in Job |-> "absent"]
  /\ counts = [j \in Job |-> [found |-> 0, synced |-> 0]]
  /\ scanFile = [p \in Path |-> "absent"]
  /\ media = [t \in Title |-> 0]
  /\ staged = [j \in Job |-> <<>>]
  /\ at = [j \in Job |-> "idle"]
  /\ finder = [j \in Job |-> [f \in Finder |-> "walk"]]
  /\ found = [j \in Job |-> 0] /\ synced = [j \in Job |-> 0]
  /\ last = {}
  /\ batch = [j \in Job |-> <<>>]
  /\ pending = [j \in Job |-> <<>>]
  /\ exists = [j \in Job |-> FALSE]
  /\ refused = [j \in Job |-> {}]
  /\ restarts = 0

Goto(j, from, to) == at[j] = from /\ at' = [at EXCEPT ![j] = to]
Set(m, j, x) == [m EXCEPT ![j] = x]

----------------------------------------------------------------------------
(* StartLibraryScan, and the goroutines that find files.                   *)

Start(j) ==
  /\ \A k \in Job : k < j => at[k] # "idle"
  /\ Overlap \/ \A k \in Job : at[k] \notin Running
  /\ Goto(j, "idle", "wait")
  /\ status' = Set(status, j, "running")
  /\ UNCHANGED <<counts, scanFile, media, staged, finder, counters, local, restarts>>

FinderGoto(j, f, from, to) ==
  /\ at[j] \in Running
  /\ finder[j][f] = from
  /\ finder' = [finder EXCEPT ![j][f] = to]

\* A directory cannot be read, or the server does not list it.
Miss(j, f) ==
  /\ FinderGoto(j, f, "walk", "missed")
  /\ UNCHANGED <<table, staged, at, counters, local, restarts>>

Count(j) == found' = [found EXCEPT ![j] = @ + 1]
Stage(j, f) == staged' = [staged EXCEPT ![j] = Append(@, PathOf[f])]

\* Mutant: it pushes, then counts.
EmitUncounted(j, f) ==
  /\ \/ FinderGoto(j, f, "walk", "push") /\ Stage(j, f) /\ UNCHANGED found
     \/ FinderGoto(j, f, "push", "pushed") /\ Count(j) /\ UNCHANGED staged
  /\ UNCHANGED <<table, at, synced, local, restarts>>

\* It counts, then pushes.
Emit(j, f) ==
  /\ \/ FinderGoto(j, f, "walk", "push") /\ Count(j) /\ UNCHANGED staged
     \/ FinderGoto(j, f, "push", "pushed") /\ Stage(j, f) /\ UNCHANGED found
  /\ UNCHANGED <<table, at, synced, local, restarts>>

PushFails(j, f) ==
  /\ "push" \in Faults
  /\ FinderGoto(j, f, "push", "missed")
  /\ UNCHANGED <<table, staged, at, counters, local, restarts>>

Find(j, f) == Miss(j, f) \/ Emit(j, f) \/ PushFails(j, f)

----------------------------------------------------------------------------
(* run: flush while the finders work, and once after they are done.        *)

Tick(j) ==
  /\ Goto(j, "wait", "pop")
  /\ UNCHANGED <<table, staged, finder, counters, local, restarts>>

\* Mutant: a walk that fails is not waited for properly; its Done is missing.
ProducerDoneUnlessMissed(j) ==
  /\ Goto(j, "wait", "pop")
  /\ \A f \in Finder : finder[j][f] = "pushed"
  /\ last' = last \cup {j}
  /\ UNCHANGED <<table, staged, finder, counters, batch, pending, exists, refused, restarts>>

\* close(producerDone)
ProducerDone(j) ==
  /\ Goto(j, "wait", "pop")
  /\ \A f \in Finder : finder[j][f] \in {"pushed", "missed"}
  /\ last' = last \cup {j}
  /\ UNCHANGED <<table, staged, finder, counters, batch, pending, exists, refused, restarts>>

\* PopBatch.  What is popped is in no table and no queue until the upsert.
Pop(j) ==
  /\ staged[j] # <<>>
  /\ Goto(j, "pop", "upsert")
  /\ LET n == IF Len(staged[j]) < BatchSize THEN Len(staged[j]) ELSE BatchSize IN
       /\ batch' = Set(batch, j, SubSeq(staged[j], 1, n))
       /\ staged' = Set(staged, j, SubSeq(staged[j], n + 1, Len(staged[j])))
  /\ UNCHANGED <<table, finder, counters, last, pending, exists, refused, restarts>>

\* What the last drain leaves in the queue is lost.
Left(j) == IF j \in last THEN ToSet(staged[j]) ELSE {}

\* drainAvailable gives up for now when the queue is empty or does not answer.
PopNothing(j) ==
  /\ staged[j] = <<>> \/ "pop" \in Faults
  /\ Goto(j, "pop", "counts")
  /\ refused' = [refused EXCEPT ![j] = @ \cup Left(j)]
  /\ UNCHANGED <<table, staged, finder, counters, last, batch, pending, exists, restarts>>

\* What is inserted: flushBatch skips hash names.
Kept(j) == ToSet(batch[j]) \ Hashed

\* INSERT ... ON CONFLICT DO UPDATE fails as a whole when it meets a row twice.
MeetsRowTwice(j) ==
  \E i, k \in DOMAIN batch[j] :
    i # k /\ batch[j][i] = batch[j][k] /\ batch[j][i] \in Kept(j)

\* Mutant: drainAvailable stops after one batch.
UpsertOnce(j) ==
  /\ ~MeetsRowTwice(j)
  /\ Goto(j, "upsert", "counts")
  /\ scanFile' = [p \in Path |->
       IF scanFile[p] = "absent" /\ p \in Kept(j)
       THEN "unmatched" ELSE scanFile[p]]
  /\ synced' = [synced EXCEPT ![j] = @ + Len(batch[j])]
  /\ batch' = Set(batch, j, <<>>)
  /\ UNCHANGED <<status, counts, media, staged, finder, found, last, pending, exists, refused, restarts>>

\* UpsertScanFiles.  A row that is there is refreshed and stays matched.  A full
\* batch is followed by another one.
Upsert(j) ==
  /\ ~MeetsRowTwice(j)
  /\ Goto(j, "upsert", IF Len(batch[j]) < BatchSize THEN "counts" ELSE "pop")
  /\ scanFile' = [p \in Path |->
       IF scanFile[p] = "absent" /\ p \in Kept(j)
       THEN "unmatched" ELSE scanFile[p]]
  /\ synced' = [synced EXCEPT ![j] = @ + Len(batch[j])]
  /\ batch' = Set(batch, j, <<>>)
  /\ UNCHANGED <<status, counts, media, staged, finder, found, last, pending, exists, refused, restarts>>

\* The batch is gone.
UpsertFails(j) ==
  /\ MeetsRowTwice(j) \/ (Kept(j) # {} /\ "upsert" \in Faults)
  /\ Goto(j, "upsert", "counts")
  /\ batch' = Set(batch, j, <<>>)
  /\ refused' = [refused EXCEPT ![j] =
       IF MeetsRowTwice(j) THEN @
       ELSE @ \cup ToSet(batch[j]) \cup Left(j)]
  /\ UNCHANGED <<table, staged, finder, counters, last, pending, exists, restarts>>

\* updateProgress reads both counters and writes them; an error is logged.
UpdateProgress(j) ==
  /\ Goto(j, "counts", IF j \in last THEN "delete" ELSE "wait")
  /\ \/ counts' = Set(counts, j, [found |-> found[j], synced |-> synced[j]])
     \/ "counts" \in Faults /\ UNCHANGED counts
  /\ UNCHANGED <<status, scanFile, media, staged, finder, counters, local, restarts>>

\* queue.Delete
Delete(j) ==
  /\ Goto(j, "delete", "list")
  /\ \/ staged' = Set(staged, j, <<>>)
     \/ "delete" \in Faults /\ UNCHANGED staged
  /\ UNCHANGED <<table, finder, counters, local, restarts>>

----------------------------------------------------------------------------
(* promoteScanFiles.                                                       *)

\* ListUnmatchedScanFiles, in some order.
List(j) ==
  /\ Goto(j, "list", "each")
  /\ \E s \in SetToSeqs({p \in Path : scanFile[p] = "unmatched"}) :
       pending' = Set(pending, j, s)
  /\ UNCHANGED <<table, staged, finder, counters, last, batch, exists, refused, restarts>>

ListFails(j) ==
  /\ "list" \in Faults
  /\ Goto(j, "list", "finish")
  /\ UNCHANGED <<table, staged, finder, counters, local, restarts>>

Dropped(j) == pending' = [pending EXCEPT ![j] = Tail(@)]

\* verifyScanFileDuration: the file is too short, or cannot be probed.
Reject(j) ==
  /\ pending[j] # <<>> /\ "probe" \in Faults
  /\ Goto(j, "each", "each")
  /\ Dropped(j)
  /\ UNCHANGED <<table, staged, finder, counters, last, batch, exists, refused, restarts>>

\* Mutant: the look for a row of the title is left out.
LookNowhere(j) ==
  /\ pending[j] # <<>>
  /\ Goto(j, "each", "write")
  /\ exists' = Set(exists, j, FALSE)
  /\ UNCHANGED <<table, staged, finder, counters, last, batch, pending, refused, restarts>>

\* findOrCreateMediaItem's SELECT ...
Look(j) ==
  /\ pending[j] # <<>>
  /\ Goto(j, "each", "write")
  /\ exists' = Set(exists, j, media[TitleOf[Head(pending[j])]] > 0)
  /\ UNCHANGED <<table, staged, finder, counters, last, batch, pending, refused, restarts>>

\* ... and its UPDATE, or its INSERT, which nobody else sees before the commit.
Write(j) ==
  /\ Goto(j, "write", "mark")
  /\ media' = IF exists[j] THEN media
              ELSE [media EXCEPT ![TitleOf[Head(pending[j])]] = @ + 1]
  /\ UNCHANGED <<status, counts, scanFile, staged, finder, counters, local, restarts>>

WriteFails(j) ==
  /\ "promote" \in Faults
  /\ Goto(j, "write", "each")
  /\ Dropped(j)
  /\ UNCHANGED <<table, staged, finder, counters, last, batch, exists, refused, restarts>>

\* MarkScanFilePromoted; an error is logged.
Mark(j) ==
  /\ Goto(j, "mark", "each")
  /\ \/ scanFile' = Set(scanFile, Head(pending[j]), "matched")
     \/ "mark" \in Faults /\ UNCHANGED scanFile
  /\ Dropped(j)
  /\ UNCHANGED <<status, counts, media, staged, finder, counters, last, batch, exists, refused, restarts>>

Promoted(j) ==
  /\ pending[j] = <<>>
  /\ Goto(j, "each", "finish")
  /\ UNCHANGED <<table, staged, finder, counters, local, restarts>>

\* What jobs J kept in memory is gone.
Forget(J) ==
  /\ finder' = [j \in Job |-> IF j \in J THEN [f \in Finder |-> "walk"] ELSE finder[j]]
  /\ found' = [j \in Job |-> IF j \in J THEN 0 ELSE found[j]]
  /\ synced' = [j \in Job |-> IF j \in J THEN 0 ELSE synced[j]]
  /\ last' = last \ J
  /\ batch' = [j \in Job |-> IF j \in J THEN <<>> ELSE batch[j]]
  /\ pending' = [j \in Job |-> IF j \in J THEN <<>> ELSE pending[j]]
  /\ exists' = [j \in Job |-> exists[j] /\ j \notin J]
  /\ refused' = [j \in Job |-> IF j \in J THEN {} ELSE refused[j]]

\* Mutant: run hands the outcome of the promotion to FinishScanJob.
FinishWithOutcome(j) ==
  /\ Goto(j, "finish", "done")
  /\ \E s \in {"completed", "failed"} : status' = Set(status, j, s)
  /\ Forget({j})
  /\ UNCHANGED <<counts, scanFile, media, staged, restarts>>

\* FinishScanJob, always without an error to record: no job ever 'failed'.
Finish(j) ==
  /\ Goto(j, "finish", "done")
  /\ \/ status' = Set(status, j, "completed")
     \/ "finish" \in Faults /\ UNCHANGED status
  /\ Forget({j})
  /\ UNCHANGED <<counts, scanFile, media, staged, restarts>>

----------------------------------------------------------------------------
Run(j) ==
  \/ Tick(j) \/ ProducerDone(j) \/ Pop(j) \/ PopNothing(j) \/ Upsert(j) \/ UpsertFails(j)
  \/ UpdateProgress(j) \/ Delete(j) \/ List(j) \/ ListFails(j) \/ Reject(j) \/ Look(j)
  \/ Write(j) \/ WriteFails(j) \/ Mark(j) \/ Promoted(j) \/ Finish(j)

\* The process dies and starts again: nobody takes the jobs up, and their rows
\* stay 'running'.
Restart ==
  /\ restarts < MaxRestarts
  /\ restarts' = restarts + 1
  /\ \E j \in Job : at[j] \in Running
  /\ at' = [j \in Job |-> IF at[j] \in Running THEN "dead" ELSE at[j]]
  /\ Forget(Job)
  /\ UNCHANGED <<table, staged>>

Next ==
  \/ \E j \in Job : Start(j) \/ Run(j) \/ \E f \in Finder : Find(j, f)
  \/ Restart

Spec == Init /\ [][Next]_vars

\* The goroutines run, and a select that finds both channels ready takes
\* producerDone sooner or later.
FairSpec ==
  /\ Spec
  /\ \A j \in Job : WF_vars(Run(j)) /\ SF_vars(ProducerDone(j))
  /\ \A j \in Job : \A f \in Finder : WF_vars(Find(j, f))

----------------------------------------------------------------------------
(* Properties.                                                             *)

TypeOK ==
  /\ status \in [Job -> {"absent", "running", "completed"}]
  /\ counts \in [Job -> [found : Nat, synced : Nat]]
  /\ scanFile \in [Path -> {"absent", "unmatched", "matched"}]
  /\ media \in [Title -> Nat]
  /\ staged \in [Job -> Seq(Path)] /\ batch \in [Job -> Seq(Path)] /\ pending \in [Job -> Seq(Path)]
  /\ at \in [Job -> Running \cup {"idle", "done", "dead"}]
  /\ finder \in [Job -> [Finder -> {"walk", "push", "pushed", "missed"}]]
  /\ found \in [Job -> Nat] /\ synced \in [Job -> Nat]
  /\ last \subseteq Job /\ exists \in [Job -> BOOLEAN] /\ refused \in [Job -> SUBSET Path]
  /\ restarts \in 0 .. MaxRestarts

\* By the time a scan turns to the promotion, every file it staged is in
\* scan_files, except those with a hash for a name and those lost to a failure of
\* Postgres or DragonflyDB: no batch is lost between the queue and the table
\* otherwise, and queue.Delete finds nothing that the last drain left.
FoundIsSaved ==
  \A j \in Job : at[j] \in {"list", "each", "write", "mark", "finish"} =>
    \A f \in Finder : finder[j][f] = "pushed" =>
      PathOf[f] \in Hashed \cup refused[j] \/ scanFile[PathOf[f]] # "absent"

\* Repeated scans converge on one media item for each title, also after a crash
\* between the promotion of a file and the mark that it was promoted.
OneItemPerTitle == \A t \in Title : media[t] <= 1

\* files_synced never runs ahead of files_found, beside which it is displayed: what
\* is popped was counted before it was pushed.
SyncedWithinFound == \A j \in Job : counts[j].synced <= counts[j].found

\* A scan that is not cut off by a restart comes to its end.
ScanEnds == \A j \in Job : at[j] \in Running ~> at[j] \in {"done", "dead"}
=============================================================================
