------------------------------ MODULE NzbSync ------------------------------
(***************************************************************************)
(* The usenet service (nzb/service.go, nzb/torbox.go, nzb/promote.go): the *)
(* nzb_downloads table, the goroutine that submits each new download to    *)
(* TorBox and looks at it once (run, runTorBox, tryImmediateCompletion),   *)
(* and the one periodic sweep that reconciles the table with the listing   *)
(* of the account (syncFromTorBox).  Both complete a download with         *)
(* catchUpDownload, and nothing keeps them off the same row.  The          *)
(* downloads in Wanted race for one media item.                            *)
(***************************************************************************)
EXTENDS Naturals

CONSTANTS
  Own,         \* rows that AddNZB / AddNZBForItem may create; TorBox's id for
               \* what such a row submits is the row itself
  Wanted,      \* those created for the media item, by AddNZBForItem
  Foreign,     \* downloads put on the account by other means
  Import,      \* rows the sweep may create (bounds importOrphanedDownload)
  Cached,      \* downloads TorBox has at once, before the look at them
  MaxRestarts, \* bounds the restarts of the process
  Sweep,       \* the goroutine of StartBackgroundSync
  None         \* SQL NULL, the empty provider_ref

Download == Own \cup Foreign
Row == Own \cup Import
Worker == Own \cup {Sweep}

ASSUME NzbSyncAssumption ==
  /\ Wanted \subseteq Own /\ Cached \subseteq Own
  /\ Own \cap Foreign = {} /\ Download \cap Import = {}
  /\ Sweep \notin Download \cup Import /\ None \notin Download \cup Import \cup {Sweep}
  /\ MaxRestarts \in Nat

VARIABLES
  remote,    \* state of each download on the TorBox account
  row,       \* nzb_downloads.status
  ref,       \* nzb_downloads.provider_ref
  promoted,  \* rows with nzb_downloads.promoted
  files,     \* how often the row's own file is recorded in nzb_files
  claim,     \* media_items.active_nzb_download_id
  path,      \* media_items.path; the item is 'owned' from then on
  at,        \* what each goroutine does next
  has,       \* goroutines that found the file recorded already
  cur,       \* row the sweep works on
  dl,        \* download the sweep works on
  listed,    \* the sweep's listing of the account, less what it has handled
  local,     \* the sweep's byRef: the row it found for each download ...
  was,       \* ... and the status that row had
  restarts   \* restarts so far

table == <<row, ref, promoted, files>>
item == <<claim, path>>
sweep == <<cur, dl, listed, local, was>>
vars == <<remote, table, item, at, has, sweep, restarts>>

Remote == {"absent", "queued", "active", "done", "failed", "duplicate",
           "deleted", "expired"}
InMylist == {"active", "done", "failed", "duplicate"}  \* the rest is queued, or gone
RowStatus == {"absent", "downloading", "repairing", "completed", "error", "removed"}
CatchUp == {"files", "add", "claim", "path", "mark", "promote", "finish", "drop", "fail"}
RunAt == {"idle", "start", "submit", "ref", "look", "reject"} \cup CatchUp
SweepAt == {"idle", "active", "queued", "local", "each", "missing", "importRef",
            "discard", "remove"} \cup CatchUp

NoDownloads(x) == [d \in Download |-> x]

Init ==
  /\ remote \in [Download -> {"absent"}]
  /\ row = [r \in Row |-> "absent"]
  /\ ref = [r \in Row |-> None]
  /\ promoted = {}
  /\ files = [r \in Row |-> 0]
  /\ claim = None /\ path = None
  /\ at = [w \in Worker |-> "idle"]
  /\ has = {}
  /\ cur = None /\ dl = None
  /\ listed = NoDownloads("none") /\ local = NoDownloads(None)
  /\ was = NoDownloads("none")
  /\ restarts = 0

----------------------------------------------------------------------------
(* TorBox.                                                                 *)

\* A download moves on.  One that is not cached is not done by the time
\* tryImmediateCompletion looks for it, half a second after its submission.
Progress(d) ==
  /\ \/ /\ remote[d] = "queued"
        /\ remote' = [remote EXCEPT ![d] = "active"]
     \/ /\ remote[d] = "active"
        /\ d \in Own \ Cached => at[d] \in {"idle"} \cup CatchUp
        /\ \E s \in {"done", "failed", "duplicate"} :
             remote' = [remote EXCEPT ![d] = s]
  /\ UNCHANGED <<table, item, at, has, sweep, restarts>>

\* Somebody adds a download on TorBox's own dashboard.
AddForeign(d) ==
  /\ d \in Foreign
  /\ remote[d] = "absent"
  /\ remote' = [remote EXCEPT ![d] = "queued"]
  /\ UNCHANGED <<table, item, at, has, sweep, restarts>>

\* A download expires, or is deleted on TorBox's own dashboard.
Expire(d) ==
  /\ remote[d] \in {"queued", "active", "done", "failed"}
  /\ remote' = [remote EXCEPT ![d] = "expired"]
  /\ UNCHANGED <<table, item, at, has, sweep, restarts>>

----------------------------------------------------------------------------
(* run and runTorBox, in the goroutine of a new row.                       *)

Goto(w, from, to) == at[w] = from /\ at' = [at EXCEPT ![w] = to]

\* CreateNZBDownload
Add(r) ==
  /\ row[r] = "absent"
  /\ Goto(r, "idle", "start")
  /\ row' = [row EXCEPT ![r] = "downloading"]
  /\ UNCHANGED <<remote, ref, promoted, files, item, has, sweep, restarts>>

\* No server is enabled.
NoServer(r) ==
  /\ Goto(r, "start", "reject")
  /\ UNCHANGED <<remote, table, item, has, sweep, restarts>>

\* UpdateNZBProgress(.., "repairing")
Start(r) ==
  /\ Goto(r, "start", "submit")
  /\ row' = [row EXCEPT ![r] = "repairing"]
  /\ UNCHANGED <<remote, ref, promoted, files, item, has, sweep, restarts>>

\* CreateUsenetDownload, with its one retry.
Submit(r) ==
  /\ Goto(r, "submit", "ref")
  /\ \E s \in IF r \in Cached THEN {"done"} ELSE {"queued", "active"} :
       remote' = [remote EXCEPT ![r] = s]
  /\ UNCHANGED <<table, item, has, sweep, restarts>>

\* An error came back; TorBox may have taken the download all the same.
SubmitFails(r) ==
  /\ Goto(r, "submit", "reject")
  /\ remote' \in {remote, [remote EXCEPT ![r] = "queued"]}
  /\ UNCHANGED <<table, item, has, sweep, restarts>>

\* finish(rec, err)
Rejected(r) ==
  /\ Goto(r, "reject", "idle")
  /\ row' = [row EXCEPT ![r] = "error"]
  /\ UNCHANGED <<remote, ref, promoted, files, item, has, sweep, restarts>>

SetRef(r) ==
  /\ Goto(r, "ref", "look")
  /\ ref' = [ref EXCEPT ![r] = r]
  /\ UNCHANGED <<remote, row, promoted, files, item, has, sweep, restarts>>

\* tryImmediateCompletion: the download is done already ...
LookDone(r) ==
  /\ remote[r] = "done"
  /\ Goto(r, "look", "files")
  /\ UNCHANGED <<remote, table, item, has, sweep, restarts>>

\* ... or it is not in the list, and UsenetInfo answers with the first one that
\* is: its files, of other names than the row's own, are recorded for the row
\* and promoted ...
LookStray(r) ==
  /\ remote[r] \notin InMylist
  /\ \E d \in Download : remote[d] = "done"
  /\ Goto(r, "look", IF r \in Wanted THEN "claim" ELSE "promote")
  /\ UNCHANGED <<remote, table, item, has, sweep, restarts>>

\* ... or it is not done, or the request failed or was cancelled.
LookAway(r) ==
  /\ Goto(r, "look", "idle")
  /\ UNCHANGED <<remote, table, item, has, sweep, restarts>>

Run(r) ==
  \/ NoServer(r) \/ Start(r) \/ Submit(r) \/ SubmitFails(r) \/ Rejected(r)
  \/ SetRef(r) \/ LookDone(r) \/ LookStray(r) \/ LookAway(r)

----------------------------------------------------------------------------
(* catchUpDownload and onComplete, run by a row's own goroutine or by the  *)
(* sweep.                                                                  *)

RowOf(w) == IF w = Sweep THEN cur ELSE w

\* The goroutine is done with the row; the sweep turns to the next download.
After(w) == IF w = Sweep THEN "each" ELSE "idle"

\* ListNZBFiles, to skip what is recorded already.
ListFiles(w) ==
  /\ Goto(w, "files", "add")
  /\ has' = IF files[RowOf(w)] > 0 THEN has \cup {w} ELSE has \ {w}
  /\ UNCHANGED <<remote, table, item, sweep, restarts>>

\* Mutant: the files recorded already are not skipped.
AddFileAgain(w) ==
  /\ Goto(w, "add", IF RowOf(w) \in Wanted THEN "claim" ELSE "promote")
  /\ files' = [files EXCEPT ![RowOf(w)] = @ + 1]
  /\ UNCHANGED <<remote, row, ref, promoted, item, has, sweep, restarts>>

\* RequestUsenetDownloadLink and AddNZBFile for the files not skipped.
AddFile(w) ==
  /\ Goto(w, "add", IF RowOf(w) \in Wanted THEN "claim" ELSE "promote")
  /\ files' = IF w \in has THEN files ELSE [files EXCEPT ![RowOf(w)] = @ + 1]
  /\ UNCHANGED <<remote, row, ref, promoted, item, has, sweep, restarts>>

\* PromoteToExistingItem: no video file, or it fails the verification.
Reject(w) ==
  /\ Goto(w, "claim", "drop")
  /\ UNCHANGED <<remote, table, item, has, sweep, restarts>>

\* Mutant: the claim does not ask whether another one holds it.
ClaimUnfenced(w) ==
  /\ IF path = None
       THEN Goto(w, "claim", "path") /\ claim' = RowOf(w)
       ELSE Goto(w, "claim", "drop") /\ UNCHANGED claim
  /\ UNCHANGED <<remote, table, path, has, sweep, restarts>>

\* ClaimMediaItemForNZBDownload
Claim(w) ==
  /\ IF path = None /\ claim = None
       THEN Goto(w, "claim", "path") /\ claim' = RowOf(w)
       ELSE Goto(w, "claim", "drop") /\ UNCHANGED claim
  /\ UNCHANGED <<remote, table, path, has, sweep, restarts>>

\* SetMediaItemPath
SetPath(w) ==
  /\ Goto(w, "path", "mark")
  /\ path' = RowOf(w)
  /\ UNCHANGED <<remote, table, claim, has, sweep, restarts>>

\* MarkNZBPromoted
Mark(w) ==
  /\ Goto(w, "mark", "finish")
  /\ promoted' = promoted \cup {RowOf(w)}
  /\ UNCHANGED <<remote, row, ref, files, item, has, sweep, restarts>>

\* Mutant: a row without an item to promote to counts as refused.
PromoteRefused(w) ==
  /\ Goto(w, "promote", "drop")
  /\ UNCHANGED <<remote, table, item, has, sweep, restarts>>

\* PromoteCompleted, for a row that was not created for an item: promoted by
\* its file name if a library takes it, and never refused.
Promote(w) ==
  /\ Goto(w, "promote", "finish")
  /\ promoted' \in {promoted, promoted \cup {RowOf(w)}}
  /\ UNCHANGED <<remote, row, ref, files, item, has, sweep, restarts>>

\* The sweep has dealt with download d.
Handled(d) ==
  /\ listed' = [listed EXCEPT ![d] = "none"]
  /\ local' = [local EXCEPT ![d] = None]
  /\ was' = [was EXCEPT ![d] = "none"]

NextListed(w) ==
  IF w = Sweep THEN cur' = None /\ dl' = None /\ Handled(dl) ELSE UNCHANGED sweep

\* FinishNZBDownload
Finish(w) ==
  /\ Goto(w, "finish", After(w))
  /\ row' = [row EXCEPT ![RowOf(w)] = "completed"]
  /\ NextListed(w)
  /\ UNCHANGED <<remote, ref, promoted, files, item, has, restarts>>

\* deleteFromTorBox, best effort.  The record a row's own goroutine holds is
\* the one CreateNZBDownload returned: it has no provider_ref, so nothing is
\* deleted.
Drop(w) ==
  /\ Goto(w, "drop", "fail")
  /\ \/ UNCHANGED remote
     \/ w = Sweep /\ remote' = [remote EXCEPT ![dl] = IF @ = "expired" THEN @ ELSE "deleted"]
  /\ UNCHANGED <<table, item, has, sweep, restarts>>

Fail(w) ==
  /\ Goto(w, "fail", After(w))
  /\ row' = [row EXCEPT ![RowOf(w)] = "error"]
  /\ NextListed(w)
  /\ UNCHANGED <<remote, ref, promoted, files, item, has, restarts>>

Complete(w) ==
  \/ ListFiles(w) \/ AddFile(w) \/ Reject(w) \/ Claim(w) \/ SetPath(w) \/ Mark(w)
  \/ Promote(w) \/ Finish(w) \/ Drop(w) \/ Fail(w)

----------------------------------------------------------------------------
(* syncFromTorBox.  syncRunning admits one sweep at a time, whether the    *)
(* ticker or TriggerSync starts it.                                        *)

Begin ==
  /\ Goto(Sweep, "idle", "active")
  /\ UNCHANGED <<remote, table, item, has, sweep, restarts>>

ListActive ==
  /\ Goto(Sweep, "active", "queued")
  /\ listed' = [d \in Download |->
       IF remote[d] \in InMylist THEN remote[d] ELSE "none"]
  /\ UNCHANGED <<remote, table, item, has, cur, dl, local, was, restarts>>

ListActiveFails ==
  /\ Goto(Sweep, "active", "idle")
  /\ UNCHANGED <<remote, table, item, has, sweep, restarts>>

\* A second request; when it fails the sweep goes on without its result.
ListQueued ==
  /\ Goto(Sweep, "queued", "local")
  /\ \/ listed' = [d \in Download |-> IF remote[d] = "queued" THEN "queued" ELSE listed[d]]
     \/ UNCHANGED listed
  /\ UNCHANGED <<remote, table, item, has, cur, dl, local, was, restarts>>

\* Of two rows with the same ref the older one, last in the list, stays in the
\* map: the one that submitted the download.
RowFor(d) ==
  LET rows == {r \in Row : ref[r] = d /\ row[r] # "removed"} IN
  IF d \in rows THEN d
  ELSE IF rows = {} THEN None ELSE CHOOSE r \in rows : TRUE

StatusOf(r) ==
  IF r = None THEN "none"
  ELSE IF row[r] = "completed" /\ r \notin promoted THEN "unpromoted" ELSE row[r]

ListLocal ==
  /\ Goto(Sweep, "local", "each")
  /\ local' = [d \in Download |-> RowFor(d)]
  /\ was' = [d \in Download |-> StatusOf(RowFor(d))]
  /\ UNCHANGED <<remote, table, item, has, cur, dl, listed, restarts>>

\* A completed download whose row still waits for it.
CatchUpRow(d) ==
  /\ listed[d] = "done"
  /\ was[d] \in {"repairing", "unpromoted"}
  /\ Goto(Sweep, "each", "files")
  /\ cur' = local[d] /\ dl' = d
  /\ UNCHANGED <<remote, table, item, has, listed, local, was, restarts>>

\* Rows not created yet.
Spare == {i \in Import : row[i] = "absent"}

\* importOrphanedDownload: a completed download without a row gets one.
ImportOrphan(d) ==
  /\ listed[d] = "done"
  /\ local[d] = None
  /\ Spare # {}
  /\ Goto(Sweep, "each", "importRef")
  /\ cur' = CHOOSE i \in Spare : TRUE
  /\ row' = [row EXCEPT ![cur'] = "downloading"]
  /\ dl' = d
  /\ UNCHANGED <<remote, ref, promoted, files, item, has, listed, local, was, restarts>>

\* Mutant: the write of the provider_ref is lost.
ImportRefLost ==
  /\ Goto(Sweep, "importRef", "add")
  /\ has' = has \ {Sweep}
  /\ UNCHANGED <<remote, table, item, sweep, restarts>>

ImportRef ==
  /\ Goto(Sweep, "importRef", "add")
  /\ ref' = [ref EXCEPT ![cur] = dl]
  /\ has' = has \ {Sweep}
  /\ UNCHANGED <<remote, row, promoted, files, item, sweep, restarts>>

\* TorBox turned a repeated submission down: it is deleted there ...
Discard(d) ==
  /\ listed[d] = "duplicate"
  /\ Goto(Sweep, "each", "discard")
  /\ cur' = local[d] /\ dl' = d
  /\ UNCHANGED <<remote, table, item, has, listed, local, was, restarts>>

DiscardRemote ==
  /\ Goto(Sweep, "discard", "remove")
  /\ remote' \in {remote, [remote EXCEPT ![dl] = IF @ = "duplicate" THEN "deleted" ELSE @]}
  /\ UNCHANGED <<table, item, has, sweep, restarts>>

\* ... and its row, if it has one, is removed.
DiscardRow ==
  /\ Goto(Sweep, "remove", "each")
  /\ row' = IF cur = None THEN row ELSE [row EXCEPT ![cur] = "removed"]
  /\ NextListed(Sweep)
  /\ UNCHANGED <<remote, ref, promoted, files, item, has, restarts>>

\* A download that failed: finish(existing, err) unless the row says so.
RemoteFailed(d) ==
  /\ listed[d] = "failed"
  /\ Goto(Sweep, "each", "each")
  /\ row' = IF was[d] \in {"none", "error"} THEN row ELSE [row EXCEPT ![local[d]] = "error"]
  /\ Handled(d)
  /\ UNCHANGED <<remote, ref, promoted, files, item, has, cur, dl, restarts>>

\* A download still on its way: UpdateNZBProgress(.., "repairing").
RemoteWorking(d) ==
  /\ listed[d] \in {"queued", "active"}
  /\ Goto(Sweep, "each", "each")
  /\ row' = IF was[d] = "repairing" THEN [row EXCEPT ![local[d]] = "repairing"] ELSE row
  /\ Handled(d)
  /\ UNCHANGED <<remote, ref, promoted, files, item, has, cur, dl, restarts>>

\* Nothing to do for this download: its row is settled (or, a bound of the
\* model, there is no row left to import it with).
Skip(d) ==
  /\ listed[d] = "done"
  /\ was[d] \notin {"repairing", "unpromoted"}
  /\ local[d] = None => Spare = {}
  /\ Goto(Sweep, "each", "each")
  /\ Handled(d)
  /\ UNCHANGED <<remote, table, item, has, cur, dl, restarts>>

Each(d) ==
  \/ CatchUpRow(d) \/ Discard(d) \/ RemoteFailed(d) \/ RemoteWorking(d) \/ Skip(d)
  \/ ImportOrphan(d)

\* Mutant: only completed rows are looked at.
MissingCompleted(d) ==
  /\ \A e \in Download : listed[e] = "none"
  /\ local[d] # None
  /\ Goto(Sweep, "each", "each")
  /\ row' = IF was[d] = "completed" THEN [row EXCEPT ![local[d]] = "removed"] ELSE row
  /\ Handled(d)
  /\ UNCHANGED <<remote, ref, promoted, files, item, has, cur, dl, restarts>>

\* byRef holds a row whose download was in neither listing: it is over, one
\* way or the other.
Missing(d) ==
  /\ \A e \in Download : listed[e] = "none"
  /\ local[d] # None
  /\ Goto(Sweep, "each", "each")
  /\ row' = CASE was[d] = "repairing" -> [row EXCEPT ![local[d]] = "error"]
              [] was[d] = "completed" -> [row EXCEPT ![local[d]] = "removed"]
              [] OTHER -> row
  /\ Handled(d)
  /\ UNCHANGED <<remote, ref, promoted, files, item, has, cur, dl, restarts>>

End ==
  /\ \A d \in Download : listed[d] = "none" /\ local[d] = None
  /\ Goto(Sweep, "each", "idle")
  /\ UNCHANGED <<remote, table, item, has, sweep, restarts>>

SweepStep ==
  \/ Begin \/ ListActive \/ ListQueued \/ ListLocal \/ End
  \/ ImportRef \/ DiscardRemote \/ DiscardRow
  \/ \E d \in Download : Each(d) \/ Missing(d)

\* The process dies and starts again; the rows stay as they are.
Restart ==
  /\ restarts < MaxRestarts
  /\ restarts' = restarts + 1
  /\ at' = [w \in Worker |-> "idle"]
  /\ cur' = None /\ dl' = None
  /\ listed' = NoDownloads("none") /\ local' = NoDownloads(None)
  /\ was' = NoDownloads("none")
  /\ has' = {}
  /\ UNCHANGED <<remote, table, item>>

----------------------------------------------------------------------------

Next ==
  \/ \E d \in Download : Progress(d) \/ AddForeign(d) \/ Expire(d)
  \/ \E r \in Own : Add(r) \/ Run(r)
  \/ \E w \in Worker : Complete(w)
  \/ SweepStep \/ ListActiveFails
  \/ Restart

\* Goroutines are scheduled and the ticker ticks; TorBox brings every download
\* to an end, and answers the listing ever again.
Fairness ==
  /\ \A d \in Download : WF_vars(Progress(d))
  /\ \A r \in Own : WF_vars(Run(r))
  /\ \A w \in Worker : WF_vars(Complete(w))
  /\ WF_vars(SweepStep) /\ SF_vars(ListActive)

Spec == Init /\ [][Next]_vars /\ Fairness

----------------------------------------------------------------------------
(* Properties.                                                             *)

\* Every variable has its type.  A file is recorded at most once by each of
\* the two goroutines that may complete its row.
TypeOK ==
  /\ remote \in [Download -> Remote]
  /\ row \in [Row -> RowStatus]
  /\ ref \in [Row -> Download \cup {None}]
  /\ promoted \subseteq Row
  /\ files \in [Row -> 0 .. 2]
  /\ claim \in Wanted \cup {None} /\ path \in Wanted \cup {None}
  /\ at \in [Worker -> RunAt \cup SweepAt]
  /\ has \subseteq Worker
  /\ cur \in Row \cup {None} /\ dl \in Download \cup {None}
  /\ listed \in [Download -> Remote \cup {"none"}]
  /\ local \in [Download -> Row \cup {None}]
  /\ was \in [Download -> RowStatus \cup {"none", "unpromoted"}]
  /\ restarts \in 0 .. MaxRestarts

\* Vorn deletes nothing it did not put on the account, except what TorBox
\* turned down as a duplicate.
ForeignIsKept ==
  [][\A d \in Foreign : remote'[d] = "deleted" /\ remote[d] # "deleted"
       => remote[d] = "duplicate"]_vars

\* Of the downloads that race for the item the first to claim it is the one it
\* plays from then on, whoever completes which row, and however often.
FirstWinnerStays == [][path # None => path' = path]_vars

\* The download the item plays is never taken for one that lost the race.
PlayedDownloadIsKept == path # None => remote[path] # "deleted"

\* A repeated catch-up does not record the files of a download twice.
FilesRecordedOnce == \A r \in Row : files[r] <= 1

\* Whatever is complete on the account gets a row, also after a restart and
\* whether or not Vorn submitted it.
DownloadIsRecorded ==
  \A d \in Download :
    remote[d] = "done" ~>
      remote[d] # "done" \/ \E r \in Row : ref[r] = d /\ row[r] # "removed"

\* A row does not stay in progress once TorBox is through with its download.
RepairingEnds ==
  \A r \in Own : row[r] = "repairing" /\ ref[r] # None ~> row[r] # "repairing"
=============================================================================
