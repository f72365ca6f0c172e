--------------------------- MODULE NzbSyncProofs ---------------------------
(* Proofs about NzbSync, for any number of rows, downloads and restarts.   *)
EXTENDS NzbSync, TLAPS

\* What the goroutines hold: each is at a known step, and the sweep's copy of
\* the table names rows.
HoldsInv ==
  /\ at \in [Worker -> RunAt \cup SweepAt]
  /\ remote \in [Download -> Remote]
  /\ row \in [Row -> RowStatus]
  /\ ref \in [Row -> Download \cup {None}]
  /\ local \in [Download -> Row \cup {None}]
  /\ was \in [Download -> RowStatus \cup {"none", "unpromoted"}]
  /\ dl \in Download \cup {None}
  /\ cur \in Row \cup {None}
  /\ \A d \in Download : was[d] # "none" => local[d] # None

\* The sweep completes a row for the download that row names, and a row that
\* Vorn submitted names nobody else's download.
OwnershipInv ==
  /\ \A r \in Own : ref[r] \in {r, None}
  /\ \A d \in Download : local[d] \in Own => local[d] = d
  /\ at[Sweep] \in CatchUp => cur # None /\ dl # None /\ (cur \in Own => dl = cur)
  /\ at[Sweep] = "importRef" => cur \in Import /\ dl # None
  /\ \A w \in Worker : at[w] \in {"claim", "path", "mark", "drop"} => RowOf(w) \in Own

\* The claim is taken once, and whoever took it is the only one who may set the
\* path, once.
ClaimInv ==
  /\ path # None => claim # None
  /\ \A w \in Worker : at[w] = "path" => claim # None /\ path = None
  /\ \A v, w \in Worker : at[v] = "path" /\ at[w] = "path" => v = w

IInv == HoldsInv /\ OwnershipInv /\ ClaimInv

\* The row byRef holds for a download is one that names it.
LEMMA RowForNames ==
  ASSUME NzbSyncAssumption, NEW d \in Download
  PROVE  /\ RowFor(d) \in Row \cup {None}
         /\ RowFor(d) # None => ref[RowFor(d)] = d
  <1> DEFINE rows == {r \in Row : ref[r] = d /\ row[r] # "removed"}
  <1>1. CASE d \in rows
    BY <1>1 DEF RowFor
  <1>2. CASE d \notin rows /\ rows = {}
    BY <1>2 DEF RowFor
  <1>3. CASE d \notin rows /\ rows # {}
    <2>1. (CHOOSE r \in rows : TRUE) \in rows
      BY <1>3
    <2>2. RowFor(d) = CHOOSE r \in rows : TRUE
      BY <1>3 DEF RowFor
    <2> QED BY <2>1, <2>2
  <1> QED BY <1>1, <1>2, <1>3

\* The invariant holds in the initial states.
LEMMA InitHolds == NzbSyncAssumption /\ Init => IInv
  <1> SUFFICES ASSUME NzbSyncAssumption, Init
               PROVE  IInv
    OBVIOUS
  <1>1. HoldsInv
    BY DEF NzbSyncAssumption, Init, HoldsInv, NoDownloads, RunAt, RowStatus, Remote
  <1>2. \A w \in Worker : at[w] = "idle"
    BY DEF Init
  <1>3. "idle" \notin CatchUp /\ Sweep \in Worker
    BY DEF CatchUp, Worker
  <1>4. OwnershipInv
    <2>1. \A d \in Download : local[d] \notin Own
      BY DEF NzbSyncAssumption, Init, NoDownloads, Download
    <2>2. \A r \in Own : ref[r] = None
      BY DEF Init, Row
    <2> QED BY <1>2, <1>3, <2>1, <2>2 DEF OwnershipInv
  <1>5. ClaimInv
    BY <1>2 DEF Init, ClaimInv
  <1> QED BY <1>1, <1>4, <1>5 DEF IInv

\* A step of addNZB and runTorBox for one row keeps the invariant.
LEMMA RunKeeps ==
  ASSUME NzbSyncAssumption, IInv, NEW r \in Own,
         \/ Add(r)
         \/ NoServer(r)
         \/ Start(r)
         \/ Submit(r)
         \/ SubmitFails(r)
         \/ Rejected(r)
         \/ SetRef(r)
         \/ LookDone(r)
         \/ LookAway(r)
         \/ LookStray(r)
  PROVE  IInv'
  <1> USE DEF IInv
  <1>1. CASE Add(r)
    BY <1>1
       DEF Add, sweep, item, table, RowStatus, Remote, HoldsInv, OwnershipInv, ClaimInv,
           NzbSyncAssumption, Goto, RowOf, Worker, Download, Row, CatchUp, RunAt, SweepAt
  <1>2. CASE NoServer(r)
    BY <1>2
       DEF NoServer, sweep, item, table, RowStatus, Remote, HoldsInv, OwnershipInv, ClaimInv,
           NzbSyncAssumption, Goto, RowOf, Worker, Download, Row, CatchUp, RunAt, SweepAt
  <1>3. CASE Start(r)
    BY <1>3
       DEF Start, sweep, item, table, RowStatus, Remote, HoldsInv, OwnershipInv, ClaimInv,
           NzbSyncAssumption, Goto, RowOf, Worker, Download, Row, CatchUp, RunAt, SweepAt
  <1>4. CASE Submit(r)
    BY <1>4
       DEF Submit, sweep, item, table, RowStatus, Remote, HoldsInv, OwnershipInv, ClaimInv,
           NzbSyncAssumption, Goto, RowOf, Worker, Download, Row, CatchUp, RunAt, SweepAt
  <1>5. CASE SubmitFails(r)
    BY <1>5
       DEF SubmitFails, sweep, item, table, RowStatus, Remote, HoldsInv, OwnershipInv, ClaimInv,
           NzbSyncAssumption, Goto, RowOf, Worker, Download, Row, CatchUp, RunAt, SweepAt
  <1>6. CASE Rejected(r)
    BY <1>6
       DEF Rejected, sweep, item, table, RowStatus, Remote, HoldsInv, OwnershipInv, ClaimInv,
           NzbSyncAssumption, Goto, RowOf, Worker, Download, Row, CatchUp, RunAt, SweepAt
  <1>7. CASE SetRef(r)
    BY <1>7
       DEF SetRef, sweep, item, table, RowStatus, Remote, HoldsInv, OwnershipInv, ClaimInv,
           NzbSyncAssumption, Goto, RowOf, Worker, Download, Row, CatchUp, RunAt, SweepAt
  <1>8. CASE LookDone(r)
    BY <1>8
       DEF LookDone, sweep, item, table, RowStatus, Remote, HoldsInv, OwnershipInv, ClaimInv,
           NzbSyncAssumption, Goto, RowOf, Worker, Download, Row, CatchUp, RunAt, SweepAt
  <1>9. CASE LookAway(r)
    BY <1>9
       DEF LookAway, sweep, item, table, RowStatus, Remote, HoldsInv, OwnershipInv, ClaimInv,
           NzbSyncAssumption, Goto, RowOf, Worker, Download, Row, CatchUp, RunAt, SweepAt
  <1>10. CASE LookStray(r)
    BY <1>10
       DEF LookStray, sweep, item, table, RowStatus, Remote, HoldsInv, OwnershipInv, ClaimInv,
           NzbSyncAssumption, Goto, RowOf, Worker, Download, Row, CatchUp, RunAt, SweepAt
  <1> QED BY <1>1, <1>2, <1>3, <1>4, <1>5, <1>6, <1>7, <1>8, <1>9, <1>10

\* A step of catchUpDownload, with the promotion in it, keeps the invariant,
\* whichever goroutine completes the row.
LEMMA CompleteKeeps ==
  ASSUME NzbSyncAssumption, IInv, NEW w \in Worker,
         \/ ListFiles(w)
         \/ AddFile(w)
         \/ Reject(w)
         \/ Claim(w)
         \/ SetPath(w)
         \/ Mark(w)
         \/ Promote(w)
         \/ Finish(w)
         \/ Drop(w)
         \/ Fail(w)
  PROVE  IInv'
  <1> USE DEF IInv
  <1>1. CASE ListFiles(w)
    BY <1>1
       DEF ListFiles, sweep, item, table, NextListed, Handled, After, RowStatus, Remote,
           HoldsInv, OwnershipInv, ClaimInv, NzbSyncAssumption, Goto, RowOf, Worker, Download,
           Row, CatchUp, RunAt, SweepAt
  <1>2. CASE AddFile(w)
    BY <1>2
       DEF AddFile, sweep, item, table, NextListed, Handled, After, RowStatus, Remote, HoldsInv,
           OwnershipInv, ClaimInv, NzbSyncAssumption, Goto, RowOf, Worker, Download, Row,
           CatchUp, RunAt, SweepAt
  <1>3. CASE Reject(w)
    BY <1>3
       DEF Reject, sweep, item, table, NextListed, Handled, After, RowStatus, Remote, HoldsInv,
           OwnershipInv, ClaimInv, NzbSyncAssumption, Goto, RowOf, Worker, Download, Row,
           CatchUp, RunAt, SweepAt
  <1>4. CASE Claim(w)
    BY <1>4
       DEF Claim, sweep, item, table, NextListed, Handled, After, RowStatus, Remote, HoldsInv,
           OwnershipInv, ClaimInv, NzbSyncAssumption, Goto, RowOf, Worker, Download, Row,
           CatchUp, RunAt, SweepAt
  <1>5. CASE SetPath(w)
    BY <1>5
       DEF SetPath, sweep, item, table, NextListed, Handled, After, RowStatus, Remote, HoldsInv,
           OwnershipInv, ClaimInv, NzbSyncAssumption, Goto, RowOf, Worker, Download, Row,
           CatchUp, RunAt, SweepAt
  <1>6. CASE Mark(w)
    BY <1>6
       DEF Mark, sweep, item, table, NextListed, Handled, After, RowStatus, Remote, HoldsInv,
           OwnershipInv, ClaimInv, NzbSyncAssumption, Goto, RowOf, Worker, Download, Row,
           CatchUp, RunAt, SweepAt
  <1>7. CASE Promote(w)
    BY <1>7
       DEF Promote, sweep, item, table, NextListed, Handled, After, RowStatus, Remote, HoldsInv,
           OwnershipInv, ClaimInv, NzbSyncAssumption, Goto, RowOf, Worker, Download, Row,
           CatchUp, RunAt, SweepAt
  <1>8. CASE Finish(w)
    BY <1>8
       DEF Finish, sweep, item, table, NextListed, Handled, After, RowStatus, Remote, HoldsInv,
           OwnershipInv, ClaimInv, NzbSyncAssumption, Goto, RowOf, Worker, Download, Row,
           CatchUp, RunAt, SweepAt
  <1>9. CASE Drop(w)
    BY <1>9
       DEF Drop, sweep, item, table, NextListed, Handled, After, RowStatus, Remote, HoldsInv,
           OwnershipInv, ClaimInv, NzbSyncAssumption, Goto, RowOf, Worker, Download, Row,
           CatchUp, RunAt, SweepAt
  <1>10. CASE Fail(w)
    BY <1>10
       DEF Fail, sweep, item, table, NextListed, Handled, After, RowStatus, Remote, HoldsInv,
           OwnershipInv, ClaimInv, NzbSyncAssumption, Goto, RowOf, Worker, Download, Row,
           CatchUp, RunAt, SweepAt
  <1> QED BY <1>1, <1>2, <1>3, <1>4, <1>5, <1>6, <1>7, <1>8, <1>9, <1>10

\* What the sweep does with one entry of its listing keeps the invariant.
LEMMA EachKeeps ==
  ASSUME NzbSyncAssumption, IInv, NEW d \in Download,
         \/ CatchUpRow(d)
         \/ Discard(d)
         \/ RemoteFailed(d)
         \/ RemoteWorking(d)
         \/ Skip(d)
         \/ ImportOrphan(d)
         \/ Missing(d)
  PROVE  IInv'
  <1> USE DEF IInv
  <1>1. CASE CatchUpRow(d)
    BY <1>1
       DEF CatchUpRow, sweep, item, table, Handled, RowStatus, Remote, Spare, HoldsInv,
           OwnershipInv, ClaimInv, NzbSyncAssumption, Goto, RowOf, Worker, Download, Row,
           CatchUp, RunAt, SweepAt
  <1>2. CASE Discard(d)
    BY <1>2
       DEF Discard, sweep, item, table, Handled, RowStatus, Remote, Spare, HoldsInv,
           OwnershipInv, ClaimInv, NzbSyncAssumption, Goto, RowOf, Worker, Download, Row,
           CatchUp, RunAt, SweepAt
  <1>3. CASE RemoteFailed(d)
    BY <1>3
       DEF RemoteFailed, sweep, item, table, Handled, RowStatus, Remote, Spare, HoldsInv,
           OwnershipInv, ClaimInv, NzbSyncAssumption, Goto, RowOf, Worker, Download, Row,
           CatchUp, RunAt, SweepAt
  <1>4. CASE RemoteWorking(d)
    BY <1>4
       DEF RemoteWorking, sweep, item, table, Handled, RowStatus, Remote, Spare, HoldsInv,
           OwnershipInv, ClaimInv, NzbSyncAssumption, Goto, RowOf, Worker, Download, Row,
           CatchUp, RunAt, SweepAt
  <1>5. CASE Skip(d)
    BY <1>5
       DEF Skip, sweep, item, table, Handled, RowStatus, Remote, Spare, HoldsInv, OwnershipInv,
           ClaimInv, NzbSyncAssumption, Goto, RowOf, Worker, Download, Row, CatchUp, RunAt, SweepAt
  <1>6. CASE ImportOrphan(d)
    BY <1>6
       DEF ImportOrphan, sweep, item, table, Handled, RowStatus, Remote, Spare, HoldsInv,
           OwnershipInv, ClaimInv, NzbSyncAssumption, Goto, RowOf, Worker, Download, Row,
           CatchUp, RunAt, SweepAt
  <1>7. CASE Missing(d)
    BY <1>7
       DEF Missing, sweep, item, table, Handled, RowStatus, Remote, Spare, HoldsInv,
           OwnershipInv, ClaimInv, NzbSyncAssumption, Goto, RowOf, Worker, Download, Row,
           CatchUp, RunAt, SweepAt
  <1> QED BY <1>1, <1>2, <1>3, <1>4, <1>5, <1>6, <1>7

\* The other steps of a sweep keep the invariant: its start, its two listings, the
\* import of an orphan, and its end.
LEMMA SweepKeeps ==
  ASSUME NzbSyncAssumption, IInv, 
         \/ Begin
         \/ ListActive
         \/ ListQueued
         \/ ListLocal
         \/ End
         \/ ImportRef
         \/ DiscardRemote
         \/ DiscardRow
         \/ ListActiveFails
  PROVE  IInv'
  <1> USE DEF IInv
  <1>1. CASE Begin
    BY <1>1
       DEF Begin, sweep, item, table, NextListed, Handled, RowStatus, Remote, HoldsInv,
           OwnershipInv, ClaimInv, NzbSyncAssumption, Goto, RowOf, Worker, Download, Row,
           CatchUp, RunAt, SweepAt
  <1>2. CASE ListActive
    BY <1>2
       DEF ListActive, sweep, item, table, NextListed, Handled, RowStatus, Remote, HoldsInv,
           OwnershipInv, ClaimInv, NzbSyncAssumption, Goto, RowOf, Worker, Download, Row,
           CatchUp, RunAt, SweepAt
  <1>3. CASE ListQueued
    BY <1>3
       DEF ListQueued, sweep, item, table, NextListed, Handled, RowStatus, Remote, HoldsInv,
           OwnershipInv, ClaimInv, NzbSyncAssumption, Goto, RowOf, Worker, Download, Row,
           CatchUp, RunAt, SweepAt
  <1>4. CASE ListLocal
    <2>1. \A d \in Download : /\ local'[d] = RowFor(d)
                             /\ was'[d] = StatusOf(RowFor(d))
      BY <1>4 DEF ListLocal
    <2>2. \A d \in Download : /\ local'[d] \in Row \cup {None}
                             /\ local'[d] # None => ref[local'[d]] = d
      BY <2>1, RowForNames
    <2>3. \A d \in Download : was'[d] # "none" => local'[d] # None
      BY <2>1 DEF StatusOf
    <2>4. \A d \in Download : was'[d] \in RowStatus \cup {"none", "unpromoted"}
      BY <2>1, RowForNames DEF StatusOf, HoldsInv
    <2>5. local' \in [Download -> Row \cup {None}]
      BY <1>4, RowForNames DEF ListLocal
    <2>6. was' \in [Download -> RowStatus \cup {"none", "unpromoted"}]
      BY <1>4, <2>4 DEF ListLocal
    <2>7. HoldsInv'
      BY <1>4, <2>3, <2>5, <2>6 DEF ListLocal, HoldsInv, Goto, SweepAt, table
    <2> QED
      BY <1>4, <2>2, <2>7
         DEF ListLocal, item, table, Goto, NzbSyncAssumption, OwnershipInv, ClaimInv,
             RowOf, Worker, Download, Row, CatchUp
  <1>5. CASE End
    BY <1>5
       DEF End, sweep, item, table, NextListed, Handled, RowStatus, Remote, HoldsInv,
           OwnershipInv, ClaimInv, NzbSyncAssumption, Goto, RowOf, Worker, Download, Row,
           CatchUp, RunAt, SweepAt
  <1>6. CASE ImportRef
    BY <1>6
       DEF ImportRef, sweep, item, table, NextListed, Handled, RowStatus, Remote, HoldsInv,
           OwnershipInv, ClaimInv, NzbSyncAssumption, Goto, RowOf, Worker, Download, Row,
           CatchUp, RunAt, SweepAt
  <1>7. CASE DiscardRemote
    BY <1>7
       DEF DiscardRemote, sweep, item, table, NextListed, Handled, RowStatus, Remote, HoldsInv,
           OwnershipInv, ClaimInv, NzbSyncAssumption, Goto, RowOf, Worker, Download, Row,
           CatchUp, RunAt, SweepAt
  <1>8. CASE DiscardRow
    BY <1>8
       DEF DiscardRow, sweep, item, table, NextListed, Handled, RowStatus, Remote, HoldsInv,
           OwnershipInv, ClaimInv, NzbSyncAssumption, Goto, RowOf, Worker, Download, Row,
           CatchUp, RunAt, SweepAt
  <1>9. CASE ListActiveFails
    BY <1>9
       DEF ListActiveFails, sweep, item, table, NextListed, Handled, RowStatus, Remote, HoldsInv,
           OwnershipInv, ClaimInv, NzbSyncAssumption, Goto, RowOf, Worker, Download, Row,
           CatchUp, RunAt, SweepAt
  <1> QED BY <1>1, <1>2, <1>3, <1>4, <1>5, <1>6, <1>7, <1>8, <1>9

\* Every step keeps the invariant.
LEMMA StepKeeps == NzbSyncAssumption /\ IInv /\ [Next]_vars => IInv'
  <1> SUFFICES ASSUME NzbSyncAssumption, IInv, [Next]_vars
               PROVE  IInv'
    OBVIOUS
  <1>1. CASE \E d \in Download : Progress(d) \/ AddForeign(d) \/ Expire(d)
    BY <1>1 DEF Progress, AddForeign, Expire, Remote, table, item, sweep,
                IInv, HoldsInv, OwnershipInv, ClaimInv, RowOf
  <1>2. CASE \E r \in Own : Add(r) \/ Run(r)
    BY <1>2, RunKeeps DEF Run
  <1>3. CASE \E w \in Worker : Complete(w)
    BY <1>3, CompleteKeeps DEF Complete
  <1>4. CASE SweepStep \/ ListActiveFails
    BY <1>4, EachKeeps, SweepKeeps DEF SweepStep, Each
  <1>5. CASE Restart
    <2>1. \A w \in Worker : at'[w] = "idle"
      BY <1>5 DEF Restart
    <2>2. \A d \in Download : local'[d] = None /\ was'[d] = "none"
      BY <1>5 DEF Restart, NoDownloads
    <2>3. HoldsInv'
      BY <1>5 DEF Restart, NoDownloads, table, IInv, HoldsInv, RunAt
    <2>4. Sweep \in Worker /\ "idle" \notin CatchUp /\ None \notin Own
      BY DEF Worker, CatchUp, NzbSyncAssumption, Download
    <2>5. OwnershipInv'
      BY <1>5, <2>1, <2>2, <2>4 DEF Restart, table, IInv, OwnershipInv
    <2>6. ClaimInv'
      BY <1>5, <2>1 DEF Restart, item, IInv, ClaimInv
    <2> QED BY <2>3, <2>5, <2>6 DEF IInv
  <1>6. CASE UNCHANGED vars
    BY <1>6 DEF vars, table, item, sweep, IInv, HoldsInv, OwnershipInv, ClaimInv, RowOf
  <1> QED BY <1>1, <1>2, <1>3, <1>4, <1>5, <1>6 DEF Next

\* The invariant holds in every state.
LEMMA Inductive == Spec => []IInv
  BY NzbSyncAssumption, InitHolds, StepKeeps, PTL DEF Spec

----------------------------------------------------------------------------

\* The path is written by SetPath alone, and only while the item has none: of
\* all downloads, the first that claims the item is the one it plays for ever.
THEOREM WinnerStays == Spec => FirstWinnerStays
  <1>1. ASSUME IInv, [Next]_vars
        PROVE  path # None => path' = path
    <2>1. CASE \E w \in Worker : SetPath(w)
      BY <1>1, <2>1 DEF SetPath, Goto, IInv, ClaimInv
    <2>2. CASE \E w \in Worker : Complete(w) /\ ~SetPath(w)
      BY <2>2 DEF Complete, ListFiles, AddFile, Reject, Claim, Mark, Promote, Finish, Drop,
                  Fail, item
    <2>3. CASE \E r \in Own : Add(r) \/ Run(r)
      BY <2>3 DEF Add, Run, NoServer, Start, Submit, SubmitFails, Rejected, SetRef, LookDone,
                  LookAway, LookStray, item
    <2>4. CASE SweepStep \/ ListActiveFails
      BY <2>4 DEF SweepStep, Begin, ListActive, ListQueued, ListLocal, End, ImportRef,
                  DiscardRemote, DiscardRow, Each, CatchUpRow, Discard, RemoteFailed,
                  RemoteWorking, Skip, ImportOrphan, Missing, ListActiveFails, item
    <2>5. CASE \E d \in Download : Progress(d) \/ AddForeign(d) \/ Expire(d)
      BY <2>5 DEF Progress, AddForeign, Expire, item
    <2>6. CASE Restart \/ UNCHANGED vars
      BY <2>6 DEF Restart, vars, item
    <2> QED BY <1>1, <2>1, <2>2, <2>3, <2>4, <2>5, <2>6 DEF Next
  <1> QED BY <1>1, Inductive, PTL DEF Spec, FirstWinnerStays

\* Vorn deletes what lost a race, by way of a row of its own, and duplicates;
\* nothing else that is on the account.
THEOREM ForeignKept == Spec => ForeignIsKept
  <1>1. ASSUME IInv, [Next]_vars
        PROVE  \A d \in Foreign : remote'[d] = "deleted" /\ remote[d] # "deleted"
                 => remote[d] = "duplicate"
    <2> SUFFICES ASSUME NEW d \in Foreign, remote'[d] = "deleted", remote[d] # "deleted"
                 PROVE  remote[d] = "duplicate"
      OBVIOUS
    <2> USE <1>1
    <2>0. remote \in [Download -> Remote] /\ d \in Download
      BY DEF IInv, HoldsInv, Download
    <2>1. CASE \E w \in Worker : Drop(w)
      BY <2>0, <2>1, NzbSyncAssumption
         DEF Drop, Goto, IInv, OwnershipInv, RowOf, Worker, Download, CatchUp
    <2>2. CASE \E w \in Worker : Complete(w) /\ ~Drop(w)
      BY <2>2 DEF Complete, ListFiles, AddFile, Reject, Claim, SetPath, Mark, Promote, Finish,
                  Fail
    <2>3. CASE \E r \in Own : Add(r) \/ Run(r)
      BY <2>0, <2>3, NzbSyncAssumption
         DEF Add, Run, NoServer, Start, Submit, SubmitFails, Rejected, SetRef, LookDone,
             LookAway, LookStray
    <2>4. CASE SweepStep \/ ListActiveFails
      BY <2>0, <2>4 DEF SweepStep, Begin, ListActive, ListQueued, ListLocal, End, ImportRef,
                  DiscardRemote, DiscardRow, Each, CatchUpRow, Discard, RemoteFailed,
                  RemoteWorking, Skip, ImportOrphan, Missing, ListActiveFails
    <2>5. CASE \E e \in Download : Progress(e) \/ AddForeign(e) \/ Expire(e)
      BY <2>0, <2>5 DEF Progress, AddForeign, Expire
    <2>6. CASE Restart \/ UNCHANGED vars
      BY <2>6 DEF Restart, vars
    <2> QED BY <2>1, <2>2, <2>3, <2>4, <2>5, <2>6 DEF Next
  <1> QED BY <1>1, Inductive, PTL DEF Spec, ForeignIsKept

----------------------------------------------------------------------------

\* Whether goroutine w will still record the files of row r: it has not asked
\* what is recorded already, or found nothing.
WillAdd(w, r) ==
  IF /\ RowOf(w) = r
     /\ \/ at[w] = "add" /\ w \notin has
        \/ w # Sweep /\ at[w] \in {"start", "submit", "ref", "look", "files"}
    THEN 1 ELSE 0

\* The types HoldsInv leaves out: only downloads wanted for the item get to the
\* claim and the path.
RecordTypes ==
  /\ promoted \subseteq Row
  /\ files \in [Row -> Nat]
  /\ claim \in Wanted \cup {None} /\ path \in Wanted \cup {None}
  /\ has \subseteq Worker
  /\ listed \in [Download -> Remote \cup {"none"}]
  /\ restarts \in 0 .. MaxRestarts
  /\ \A w \in Worker : at[w] \in {"claim", "path"} => RowOf(w) \in Wanted

\* No goroutine is at a row that does not exist, and a row is recorded by its
\* own goroutine once in its life and by the sweep while it has no files.
RecordOnce ==
  /\ \A r \in Row : row[r] = "absent" => files[r] = 0 /\ ref[r] = None
  /\ \A r \in Own : at[r] # "idle" => row[r] # "absent"
  /\ \A d \in Download : local[d] # None => row[local[d]] # "absent"
  /\ at[Sweep] \in CatchUp \cup {"importRef"} => row[cur] # "absent"
  /\ at[Sweep] = "importRef" => files[cur] = 0
  /\ \A r \in Own : files[r] + WillAdd(r, r) + WillAdd(Sweep, r) <= 2
  /\ \A r \in Import : files[r] + WillAdd(Sweep, r) <= 1

RecordInv == RecordTypes /\ RecordOnce

\* Unless TorBox has a download at once, its row's own goroutine has looked by
\* the time it is done: only the sweep records its files.
OnceInv ==
  /\ \A r \in Own \ Cached :
       /\ row[r] = "absent" => remote[r] = "absent"
       /\ at[r] \in {"start", "submit", "ref", "look", "reject"} => remote[r] # "done"
       /\ at[r] \notin {"files", "add"}
  /\ \A r \in Row \ Cached : files[r] + WillAdd(Sweep, r) <= 1

\* A step of addNZB and runTorBox for one row keeps what is recorded of a row.
LEMMA RunRecords ==
  ASSUME NzbSyncAssumption, IInv, RecordInv, NEW r \in Own,
         \/ Add(r)
         \/ NoServer(r)
         \/ Start(r)
         \/ Submit(r)
         \/ SubmitFails(r)
         \/ Rejected(r)
         \/ SetRef(r)
         \/ LookDone(r)
         \/ LookAway(r)
         \/ LookStray(r)
  PROVE  RecordInv'
  <1> USE DEF IInv, HoldsInv, OwnershipInv, RecordInv, RecordTypes, RecordOnce
  <1>1. CASE Add(r)
    BY <1>1 DEF Add, WillAdd, Remote, RunAt, SweepAt, sweep, item, table, Goto, RowOf,
       Worker, Download, Row, CatchUp, NzbSyncAssumption
  <1>2. CASE NoServer(r)
    BY <1>2 DEF NoServer, WillAdd, Remote, RunAt, SweepAt, sweep, item, table, Goto, RowOf,
       Worker, Download, Row, CatchUp, NzbSyncAssumption
  <1>3. CASE Start(r)
    BY <1>3 DEF Start, WillAdd, Remote, RunAt, SweepAt, sweep, item, table, Goto, RowOf,
       Worker, Download, Row, CatchUp, NzbSyncAssumption
  <1>4. CASE Submit(r)
    BY <1>4 DEF Submit, WillAdd, Remote, RunAt, SweepAt, sweep, item, table, Goto, RowOf,
       Worker, Download, Row, CatchUp, NzbSyncAssumption
  <1>5. CASE SubmitFails(r)
    BY <1>5 DEF SubmitFails, WillAdd, Remote, RunAt, SweepAt, sweep, item, table, Goto,
       RowOf, Worker, Download, Row, CatchUp, NzbSyncAssumption
  <1>6. CASE Rejected(r)
    BY <1>6 DEF Rejected, WillAdd, Remote, RunAt, SweepAt, sweep, item, table, Goto, RowOf,
       Worker, Download, Row, CatchUp, NzbSyncAssumption
  <1>7. CASE SetRef(r)
    BY <1>7 DEF SetRef, WillAdd, Remote, RunAt, SweepAt, sweep, item, table, Goto, RowOf,
       Worker, Download, Row, CatchUp, NzbSyncAssumption
  <1>8. CASE LookDone(r)
    BY <1>8 DEF LookDone, WillAdd, Remote, RunAt, SweepAt, sweep, item, table, Goto, RowOf,
       Worker, Download, Row, CatchUp, NzbSyncAssumption
  <1>9. CASE LookAway(r)
    BY <1>9 DEF LookAway, WillAdd, Remote, RunAt, SweepAt, sweep, item, table, Goto, RowOf,
       Worker, Download, Row, CatchUp, NzbSyncAssumption
  <1>10. CASE LookStray(r)
    BY <1>10 DEF LookStray, WillAdd, Remote, RunAt, SweepAt, sweep, item, table, Goto, RowOf,
       Worker, Download, Row, CatchUp, NzbSyncAssumption
  <1> QED BY <1>1, <1>2, <1>3, <1>4, <1>5, <1>6, <1>7, <1>8, <1>9, <1>10

\* A step that completes a row keeps what is recorded of a row.
LEMMA CompleteRecords ==
  ASSUME NzbSyncAssumption, IInv, RecordInv, NEW w \in Worker,
         \/ ListFiles(w)
         \/ AddFile(w)
         \/ Reject(w)
         \/ Claim(w)
         \/ SetPath(w)
         \/ Mark(w)
         \/ Promote(w)
         \/ Finish(w)
         \/ Drop(w)
         \/ Fail(w)
  PROVE  RecordInv'
  <1> USE DEF IInv, HoldsInv, OwnershipInv, RecordInv, RecordTypes, RecordOnce
  <1>1. CASE ListFiles(w)
    BY <1>1 DEF ListFiles, NextListed, Handled, After, WillAdd, Remote, RunAt, SweepAt,
       sweep, item, table, Goto, RowOf, Worker, Download, Row, CatchUp, NzbSyncAssumption
  <1>2. CASE AddFile(w)
    BY <1>2 DEF AddFile, NextListed, Handled, After, WillAdd, Remote, RunAt, SweepAt, sweep,
       item, table, Goto, RowOf, Worker, Download, Row, CatchUp, NzbSyncAssumption
  <1>3. CASE Reject(w)
    BY <1>3 DEF Reject, NextListed, Handled, After, WillAdd, Remote, RunAt, SweepAt, sweep,
       item, table, Goto, RowOf, Worker, Download, Row, CatchUp, NzbSyncAssumption
  <1>4. CASE Claim(w)
    BY <1>4 DEF Claim, NextListed, Handled, After, WillAdd, Remote, RunAt, SweepAt, sweep,
       item, table, Goto, RowOf, Worker, Download, Row, CatchUp, NzbSyncAssumption
  <1>5. CASE SetPath(w)
    BY <1>5 DEF SetPath, NextListed, Handled, After, WillAdd, Remote, RunAt, SweepAt, sweep,
       item, table, Goto, RowOf, Worker, Download, Row, CatchUp, NzbSyncAssumption
  <1>6. CASE Mark(w)
    BY <1>6 DEF Mark, NextListed, Handled, After, WillAdd, Remote, RunAt, SweepAt, sweep,
       item, table, Goto, RowOf, Worker, Download, Row, CatchUp, NzbSyncAssumption
  <1>7. CASE Promote(w)
    BY <1>7 DEF Promote, NextListed, Handled, After, WillAdd, Remote, RunAt, SweepAt, sweep,
       item, table, Goto, RowOf, Worker, Download, Row, CatchUp, NzbSyncAssumption
  <1>8. CASE Finish(w)
    BY <1>8 DEF Finish, NextListed, Handled, After, WillAdd, Remote, RunAt, SweepAt, sweep,
       item, table, Goto, RowOf, Worker, Download, Row, CatchUp, NzbSyncAssumption
  <1>9. CASE Drop(w)
    BY <1>9 DEF Drop, NextListed, Handled, After, WillAdd, Remote, RunAt, SweepAt, sweep,
       item, table, Goto, RowOf, Worker, Download, Row, CatchUp, NzbSyncAssumption
  <1>10. CASE Fail(w)
    BY <1>10 DEF Fail, NextListed, Handled, After, WillAdd, Remote, RunAt, SweepAt, sweep,
       item, table, Goto, RowOf, Worker, Download, Row, CatchUp, NzbSyncAssumption
  <1> QED BY <1>1, <1>2, <1>3, <1>4, <1>5, <1>6, <1>7, <1>8, <1>9, <1>10

\* What the sweep does with one entry of its listing keeps what is recorded of a row.
LEMMA EachRecords ==
  ASSUME NzbSyncAssumption, IInv, RecordInv, NEW d \in Download,
         \/ CatchUpRow(d)
         \/ Discard(d)
         \/ RemoteFailed(d)
         \/ RemoteWorking(d)
         \/ Skip(d)
         \/ ImportOrphan(d)
         \/ Missing(d)
  PROVE  RecordInv'
  <1> USE DEF IInv, HoldsInv, OwnershipInv, RecordInv, RecordTypes, RecordOnce
  <1>1. CASE CatchUpRow(d)
    BY <1>1 DEF CatchUpRow, Handled, Spare, WillAdd, Remote, RunAt, SweepAt, sweep, item,
       table, Goto, RowOf, Worker, Download, Row, CatchUp, NzbSyncAssumption
  <1>2. CASE Discard(d)
    BY <1>2 DEF Discard, Handled, Spare, WillAdd, Remote, RunAt, SweepAt, sweep, item, table,
       Goto, RowOf, Worker, Download, Row, CatchUp, NzbSyncAssumption
  <1>3. CASE RemoteFailed(d)
    BY <1>3 DEF RemoteFailed, Handled, Spare, WillAdd, Remote, RunAt, SweepAt, sweep, item,
       table, Goto, RowOf, Worker, Download, Row, CatchUp, NzbSyncAssumption
  <1>4. CASE RemoteWorking(d)
    BY <1>4 DEF RemoteWorking, Handled, Spare, WillAdd, Remote, RunAt, SweepAt, sweep, item,
       table, Goto, RowOf, Worker, Download, Row, CatchUp, NzbSyncAssumption
  <1>5. CASE Skip(d)
    BY <1>5 DEF Skip, Handled, Spare, WillAdd, Remote, RunAt, SweepAt, sweep, item, table,
       Goto, RowOf, Worker, Download, Row, CatchUp, NzbSyncAssumption
  <1>6. CASE ImportOrphan(d)
    BY <1>6 DEF ImportOrphan, Handled, Spare, WillAdd, Remote, RunAt, SweepAt, sweep, item,
       table, Goto, RowOf, Worker, Download, Row, CatchUp, NzbSyncAssumption
  <1>7. CASE Missing(d)
    BY <1>7 DEF Missing, Handled, Spare, WillAdd, Remote, RunAt, SweepAt, sweep, item, table,
       Goto, RowOf, Worker, Download, Row, CatchUp, NzbSyncAssumption
  <1> QED BY <1>1, <1>2, <1>3, <1>4, <1>5, <1>6, <1>7

\* The other steps of a sweep keep what is recorded of a row.
LEMMA SweepRecords ==
  ASSUME NzbSyncAssumption, IInv, RecordInv,
         \/ Begin
         \/ ListActive
         \/ ListQueued
         \/ ListLocal
         \/ End
         \/ ImportRef
         \/ DiscardRemote
         \/ DiscardRow
         \/ ListActiveFails
  PROVE  RecordInv'
  <1> USE DEF IInv, HoldsInv, OwnershipInv, RecordInv, RecordTypes, RecordOnce
  <1>1. CASE Begin
    BY <1>1 DEF Begin, NextListed, Handled, WillAdd, Remote, RunAt, SweepAt, sweep, item,
       table, Goto, RowOf, Worker, Download, Row, CatchUp, NzbSyncAssumption
  <1>2. CASE ListActive
    BY <1>2 DEF ListActive, NextListed, Handled, WillAdd, Remote, RunAt, SweepAt, sweep,
       item, table, Goto, RowOf, Worker, Download, Row, CatchUp, NzbSyncAssumption
  <1>3. CASE ListQueued
    BY <1>3 DEF ListQueued, NextListed, Handled, WillAdd, Remote, RunAt, SweepAt, sweep,
       item, table, Goto, RowOf, Worker, Download, Row, CatchUp, NzbSyncAssumption
  <1>4. CASE ListLocal
    <2>1. \A d \in Download : local'[d] = RowFor(d) /\ (local'[d] # None => ref[local'[d]] = d)
      BY <1>4, RowForNames DEF ListLocal
    <2> QED
      BY <1>4, <2>1, RowForNames DEF ListLocal, WillAdd, Remote, RunAt, SweepAt, sweep, item,
         table, Goto, RowOf, Worker, Download, Row, CatchUp, NzbSyncAssumption
  <1>5. CASE End
    BY <1>5 DEF End, NextListed, Handled, WillAdd, Remote, RunAt, SweepAt, sweep, item,
       table, Goto, RowOf, Worker, Download, Row, CatchUp, NzbSyncAssumption
  <1>6. CASE ImportRef
    BY <1>6 DEF ImportRef, NextListed, Handled, WillAdd, Remote, RunAt, SweepAt, sweep, item,
       table, Goto, RowOf, Worker, Download, Row, CatchUp, NzbSyncAssumption
  <1>7. CASE DiscardRemote
    BY <1>7 DEF DiscardRemote, NextListed, Handled, WillAdd, Remote, RunAt, SweepAt, sweep,
       item, table, Goto, RowOf, Worker, Download, Row, CatchUp, NzbSyncAssumption
  <1>8. CASE DiscardRow
    BY <1>8 DEF DiscardRow, NextListed, Handled, WillAdd, Remote, RunAt, SweepAt, sweep,
       item, table, Goto, RowOf, Worker, Download, Row, CatchUp, NzbSyncAssumption
  <1>9. CASE ListActiveFails
    BY <1>9 DEF ListActiveFails, NextListed, Handled, WillAdd, Remote, RunAt, SweepAt, sweep,
       item, table, Goto, RowOf, Worker, Download, Row, CatchUp, NzbSyncAssumption
  <1> QED BY <1>1, <1>2, <1>3, <1>4, <1>5, <1>6, <1>7, <1>8, <1>9

\* A step of addNZB and runTorBox for one row keeps the uncached rows to one record.
LEMMA RunOnce ==
  ASSUME NzbSyncAssumption, IInv, RecordInv, OnceInv, NEW r \in Own,
         \/ Add(r)
         \/ NoServer(r)
         \/ Start(r)
         \/ Submit(r)
         \/ SubmitFails(r)
         \/ Rejected(r)
         \/ SetRef(r)
         \/ LookDone(r)
         \/ LookAway(r)
         \/ LookStray(r)
  PROVE  OnceInv'
  <1> USE DEF IInv, HoldsInv, OwnershipInv, OnceInv
  <1>1. CASE Add(r)
    BY <1>1 DEF Add, WillAdd, RecordInv, RecordTypes, RecordOnce, sweep, item, table, Goto,
       RowOf, Worker, Download, Row, CatchUp, NzbSyncAssumption
  <1>2. CASE NoServer(r)
    BY <1>2 DEF NoServer, WillAdd, RecordInv, RecordTypes, RecordOnce, sweep, item, table,
       Goto, RowOf, Worker, Download, Row, CatchUp, NzbSyncAssumption
  <1>3. CASE Start(r)
    BY <1>3 DEF Start, WillAdd, RecordInv, RecordTypes, RecordOnce, sweep, item, table, Goto,
       RowOf, Worker, Download, Row, CatchUp, NzbSyncAssumption
  <1>4. CASE Submit(r)
    BY <1>4 DEF Submit, WillAdd, RecordInv, RecordTypes, RecordOnce, sweep, item, table,
       Goto, RowOf, Worker, Download, Row, CatchUp, NzbSyncAssumption
  <1>5. CASE SubmitFails(r)
    BY <1>5 DEF SubmitFails, WillAdd, RecordInv, RecordTypes, RecordOnce, sweep, item, table,
       Goto, RowOf, Worker, Download, Row, CatchUp, NzbSyncAssumption
  <1>6. CASE Rejected(r)
    BY <1>6 DEF Rejected, WillAdd, RecordInv, RecordTypes, RecordOnce, sweep, item, table,
       Goto, RowOf, Worker, Download, Row, CatchUp, NzbSyncAssumption
  <1>7. CASE SetRef(r)
    BY <1>7 DEF SetRef, WillAdd, RecordInv, RecordTypes, RecordOnce, sweep, item, table,
       Goto, RowOf, Worker, Download, Row, CatchUp, NzbSyncAssumption
  <1>8. CASE LookDone(r)
    BY <1>8 DEF LookDone, WillAdd, RecordInv, RecordTypes, RecordOnce, sweep, item, table,
       Goto, RowOf, Worker, Download, Row, CatchUp, NzbSyncAssumption
  <1>9. CASE LookAway(r)
    BY <1>9 DEF LookAway, WillAdd, RecordInv, RecordTypes, RecordOnce, sweep, item, table,
       Goto, RowOf, Worker, Download, Row, CatchUp, NzbSyncAssumption
  <1>10. CASE LookStray(r)
    BY <1>10 DEF LookStray, WillAdd, RecordInv, RecordTypes, RecordOnce, sweep, item, table,
       Goto, RowOf, Worker, Download, Row, CatchUp, NzbSyncAssumption
  <1> QED BY <1>1, <1>2, <1>3, <1>4, <1>5, <1>6, <1>7, <1>8, <1>9, <1>10

\* A step that completes a row keeps the uncached rows to one record.
LEMMA CompleteOnce ==
  ASSUME NzbSyncAssumption, IInv, RecordInv, OnceInv, NEW w \in Worker,
         \/ ListFiles(w)
         \/ AddFile(w)
         \/ Reject(w)
         \/ Claim(w)
         \/ SetPath(w)
         \/ Mark(w)
         \/ Promote(w)
         \/ Finish(w)
         \/ Drop(w)
         \/ Fail(w)
  PROVE  OnceInv'
  <1> USE DEF IInv, HoldsInv, OwnershipInv, OnceInv
  <1>1. CASE ListFiles(w)
    BY <1>1 DEF ListFiles, NextListed, Handled, After, WillAdd, RecordInv, RecordTypes,
       RecordOnce, sweep, item, table, Goto, RowOf, Worker, Download, Row, CatchUp,
       NzbSyncAssumption
  <1>2. CASE AddFile(w)
    BY <1>2 DEF AddFile, NextListed, Handled, After, WillAdd, RecordInv, RecordTypes,
       RecordOnce, sweep, item, table, Goto, RowOf, Worker, Download, Row, CatchUp,
       NzbSyncAssumption
  <1>3. CASE Reject(w)
    BY <1>3 DEF Reject, NextListed, Handled, After, WillAdd, RecordInv, RecordTypes,
       RecordOnce, sweep, item, table, Goto, RowOf, Worker, Download, Row, CatchUp,
       NzbSyncAssumption
  <1>4. CASE Claim(w)
    BY <1>4 DEF Claim, NextListed, Handled, After, WillAdd, RecordInv, RecordTypes,
       RecordOnce, sweep, item, table, Goto, RowOf, Worker, Download, Row, CatchUp,
       NzbSyncAssumption
  <1>5. CASE SetPath(w)
    BY <1>5 DEF SetPath, NextListed, Handled, After, WillAdd, RecordInv, RecordTypes,
       RecordOnce, sweep, item, table, Goto, RowOf, Worker, Download, Row, CatchUp,
       NzbSyncAssumption
  <1>6. CASE Mark(w)
    BY <1>6 DEF Mark, NextListed, Handled, After, WillAdd, RecordInv, RecordTypes,
       RecordOnce, sweep, item, table, Goto, RowOf, Worker, Download, Row, CatchUp,
       NzbSyncAssumption
  <1>7. CASE Promote(w)
    BY <1>7 DEF Promote, NextListed, Handled, After, WillAdd, RecordInv, RecordTypes,
       RecordOnce, sweep, item, table, Goto, RowOf, Worker, Download, Row, CatchUp,
       NzbSyncAssumption
  <1>8. CASE Finish(w)
    BY <1>8 DEF Finish, NextListed, Handled, After, WillAdd, RecordInv, RecordTypes,
       RecordOnce, sweep, item, table, Goto, RowOf, Worker, Download, Row, CatchUp,
       NzbSyncAssumption
  <1>9. CASE Drop(w)
    BY <1>9 DEF Drop, NextListed, Handled, After, WillAdd, RecordInv, RecordTypes,
       RecordOnce, sweep, item, table, Goto, RowOf, Worker, Download, Row, CatchUp,
       NzbSyncAssumption
  <1>10. CASE Fail(w)
    BY <1>10 DEF Fail, NextListed, Handled, After, WillAdd, RecordInv, RecordTypes,
       RecordOnce, sweep, item, table, Goto, RowOf, Worker, Download, Row, CatchUp,
       NzbSyncAssumption
  <1> QED BY <1>1, <1>2, <1>3, <1>4, <1>5, <1>6, <1>7, <1>8, <1>9, <1>10

\* What the sweep does with one entry of its listing keeps the uncached rows to one record.
LEMMA EachOnce ==
  ASSUME NzbSyncAssumption, IInv, RecordInv, OnceInv, NEW d \in Download,
         \/ CatchUpRow(d)
         \/ Discard(d)
         \/ RemoteFailed(d)
         \/ RemoteWorking(d)
         \/ Skip(d)
         \/ ImportOrphan(d)
         \/ Missing(d)
  PROVE  OnceInv'
  <1> USE DEF IInv, HoldsInv, OwnershipInv, OnceInv
  <1>1. CASE CatchUpRow(d)
    BY <1>1 DEF CatchUpRow, Handled, Spare, WillAdd, RecordInv, RecordTypes, RecordOnce,
       sweep, item, table, Goto, RowOf, Worker, Download, Row, CatchUp, NzbSyncAssumption
  <1>2. CASE Discard(d)
    BY <1>2 DEF Discard, Handled, Spare, WillAdd, RecordInv, RecordTypes, RecordOnce, sweep,
       item, table, Goto, RowOf, Worker, Download, Row, CatchUp, NzbSyncAssumption
  <1>3. CASE RemoteFailed(d)
    BY <1>3 DEF RemoteFailed, Handled, Spare, WillAdd, RecordInv, RecordTypes, RecordOnce,
       sweep, item, table, Goto, RowOf, Worker, Download, Row, CatchUp, NzbSyncAssumption
  <1>4. CASE RemoteWorking(d)
    BY <1>4 DEF RemoteWorking, Handled, Spare, WillAdd, RecordInv, RecordTypes, RecordOnce,
       sweep, item, table, Goto, RowOf, Worker, Download, Row, CatchUp, NzbSyncAssumption
  <1>5. CASE Skip(d)
    BY <1>5 DEF Skip, Handled, Spare, WillAdd, RecordInv, RecordTypes, RecordOnce, sweep,
       item, table, Goto, RowOf, Worker, Download, Row, CatchUp, NzbSyncAssumption
  <1>6. CASE ImportOrphan(d)
    BY <1>6 DEF ImportOrphan, Handled, Spare, WillAdd, RecordInv, RecordTypes, RecordOnce,
       sweep, item, table, Goto, RowOf, Worker, Download, Row, CatchUp, NzbSyncAssumption
  <1>7. CASE Missing(d)
    BY <1>7 DEF Missing, Handled, Spare, WillAdd, RecordInv, RecordTypes, RecordOnce, sweep,
       item, table, Goto, RowOf, Worker, Download, Row, CatchUp, NzbSyncAssumption
  <1> QED BY <1>1, <1>2, <1>3, <1>4, <1>5, <1>6, <1>7

\* The other steps of a sweep keep the uncached rows to one record.
LEMMA SweepOnce ==
  ASSUME NzbSyncAssumption, IInv, RecordInv, OnceInv,
         \/ Begin
         \/ ListActive
         \/ ListQueued
         \/ ListLocal
         \/ End
         \/ ImportRef
         \/ DiscardRemote
         \/ DiscardRow
         \/ ListActiveFails
  PROVE  OnceInv'
  <1> USE DEF IInv, HoldsInv, OwnershipInv, OnceInv
  <1>1. CASE Begin
    BY <1>1 DEF Begin, NextListed, Handled, WillAdd, RecordInv, RecordTypes, RecordOnce,
       sweep, item, table, Goto, RowOf, Worker, Download, Row, CatchUp, NzbSyncAssumption
  <1>2. CASE ListActive
    BY <1>2 DEF ListActive, NextListed, Handled, WillAdd, RecordInv, RecordTypes, RecordOnce,
       sweep, item, table, Goto, RowOf, Worker, Download, Row, CatchUp, NzbSyncAssumption
  <1>3. CASE ListQueued
    BY <1>3 DEF ListQueued, NextListed, Handled, WillAdd, RecordInv, RecordTypes, RecordOnce,
       sweep, item, table, Goto, RowOf, Worker, Download, Row, CatchUp, NzbSyncAssumption
  <1>4. CASE ListLocal
    <2>1. \A d \in Download : local'[d] = RowFor(d) /\ (local'[d] # None => ref[local'[d]] = d)
      BY <1>4, RowForNames DEF ListLocal
    <2> QED
      BY <1>4, <2>1, RowForNames DEF ListLocal, WillAdd, RecordInv, RecordTypes, RecordOnce,
         sweep, item, table, Goto, RowOf, Worker, Download, Row, CatchUp, NzbSyncAssumption
  <1>5. CASE End
    BY <1>5 DEF End, NextListed, Handled, WillAdd, RecordInv, RecordTypes, RecordOnce, sweep,
       item, table, Goto, RowOf, Worker, Download, Row, CatchUp, NzbSyncAssumption
  <1>6. CASE ImportRef
    BY <1>6 DEF ImportRef, NextListed, Handled, WillAdd, RecordInv, RecordTypes, RecordOnce,
       sweep, item, table, Goto, RowOf, Worker, Download, Row, CatchUp, NzbSyncAssumption
  <1>7. CASE DiscardRemote
    BY <1>7 DEF DiscardRemote, NextListed, Handled, WillAdd, RecordInv, RecordTypes,
       RecordOnce, sweep, item, table, Goto, RowOf, Worker, Download, Row, CatchUp,
       NzbSyncAssumption
  <1>8. CASE DiscardRow
    BY <1>8 DEF DiscardRow, NextListed, Handled, WillAdd, RecordInv, RecordTypes, RecordOnce,
       sweep, item, table, Goto, RowOf, Worker, Download, Row, CatchUp, NzbSyncAssumption
  <1>9. CASE ListActiveFails
    BY <1>9 DEF ListActiveFails, NextListed, Handled, WillAdd, RecordInv, RecordTypes,
       RecordOnce, sweep, item, table, Goto, RowOf, Worker, Download, Row, CatchUp,
       NzbSyncAssumption
  <1> QED BY <1>1, <1>2, <1>3, <1>4, <1>5, <1>6, <1>7, <1>8, <1>9

\* Nothing is recorded in the initial states.
LEMMA InitRecords == NzbSyncAssumption /\ Init => RecordInv /\ OnceInv
  <1> SUFFICES ASSUME NzbSyncAssumption, Init
               PROVE  RecordInv /\ OnceInv
    OBVIOUS
  <1> USE DEF Init
  <1>1. \A w \in Worker : at[w] = "idle"
    OBVIOUS
  <1>2. Sweep \in Worker /\ Own \subseteq Worker /\ Own \subseteq Row /\ Import \subseteq Row
    BY DEF Worker, Row
  <1>3. \A w \in Worker, r \in Row : WillAdd(w, r) = 0
    BY <1>1 DEF WillAdd
  <1>4. RecordTypes
    BY <1>1 DEF RecordTypes, NoDownloads, NzbSyncAssumption
  <1>5. RecordOnce
    BY <1>1, <1>2, <1>3 DEF RecordOnce, NoDownloads, CatchUp
  <1>6. OnceInv
    BY <1>1, <1>2, <1>3 DEF OnceInv, CatchUp, Download
  <1> QED BY <1>4, <1>5, <1>6 DEF RecordInv

\* Every step keeps what is recorded of a row, and the uncached rows to one
\* record.
LEMMA StepRecords ==
  NzbSyncAssumption /\ IInv /\ RecordInv /\ OnceInv /\ [Next]_vars => RecordInv' /\ OnceInv'
  <1> SUFFICES ASSUME NzbSyncAssumption, IInv, RecordInv, OnceInv, [Next]_vars
               PROVE  RecordInv' /\ OnceInv'
    OBVIOUS
  <1>1. CASE \E d \in Download : Progress(d) \/ AddForeign(d) \/ Expire(d)
    <2>1. RecordInv'
      BY <1>1 DEF Progress, AddForeign, Expire, table, item, sweep,
                  RecordInv, RecordTypes, RecordOnce, WillAdd, RowOf
    <2>2. OnceInv'
      BY <1>1 DEF Progress, AddForeign, Expire, table, item, sweep, OnceInv, WillAdd, RowOf,
                  IInv, HoldsInv, RecordInv, RecordTypes, RecordOnce, Download, Row, CatchUp,
                  NzbSyncAssumption
    <2> QED BY <2>1, <2>2
  <1>2. CASE \E r \in Own : Add(r) \/ Run(r)
    BY <1>2, RunRecords, RunOnce DEF Run
  <1>3. CASE \E w \in Worker : Complete(w)
    BY <1>3, CompleteRecords, CompleteOnce DEF Complete
  <1>4. CASE SweepStep \/ ListActiveFails
    BY <1>4, EachRecords, EachOnce, SweepRecords, SweepOnce DEF SweepStep, Each
  <1>5. CASE Restart
    <2>1. \A w \in Worker : at'[w] = "idle"
      BY <1>5 DEF Restart
    <2>2. \A w \in Worker, r \in Row : WillAdd(w, r)' = 0
      BY <2>1 DEF WillAdd
    <2>3. Sweep \in Worker /\ Own \subseteq Worker /\ Own \subseteq Row /\ Import \subseteq Row
      BY DEF Worker, Row
    <2>4. RecordTypes'
      BY <1>5, <2>1 DEF Restart, NoDownloads, table, item, RecordInv, RecordTypes,
                        NzbSyncAssumption
    <2>5. \A w \in Worker, r \in Row : WillAdd(w, r) \in {0, 1}
      BY DEF WillAdd
    <2>6. RecordOnce'
      BY <1>5, <2>1, <2>2, <2>3, <2>5
         DEF Restart, NoDownloads, table, item, RecordInv, RecordTypes, RecordOnce, CatchUp
    <2>7. OnceInv'
      BY <1>5, <2>1, <2>2, <2>3, <2>5
         DEF Restart, table, RecordInv, RecordTypes, OnceInv, CatchUp
    <2> QED BY <2>4, <2>6, <2>7 DEF RecordInv
  <1>6. CASE UNCHANGED vars
    BY <1>6 DEF vars, table, item, sweep, RecordInv, RecordTypes, RecordOnce, OnceInv, WillAdd,
                RowOf
  <1> QED BY <1>1, <1>2, <1>3, <1>4, <1>5, <1>6 DEF Next

\* Both invariants hold in every state.
LEMMA RecordsInductive == Spec => [](IInv /\ RecordInv /\ OnceInv)
  BY NzbSyncAssumption, InitHolds, InitRecords, StepKeeps, StepRecords, PTL DEF Spec

\* Every variable has its type; in particular the files of a download are never
\* recorded more than twice, whoever completes its row and after whatever crash.
THEOREM TypesHold == Spec => []TypeOK
  <1>1. IInv /\ RecordInv => TypeOK
    <2> SUFFICES ASSUME IInv, RecordInv
                 PROVE  TypeOK
      OBVIOUS
    <2>1. \A w \in Worker, r \in Row : WillAdd(w, r) \in {0, 1}
      BY DEF WillAdd
    <2>2. Sweep \in Worker /\ Own \subseteq Worker /\ Own \subseteq Row /\ Import \subseteq Row
      BY DEF Worker, Row
    <2>3. ASSUME NEW r \in Row
          PROVE  files[r] \in 0 .. 2
      <3>1. files[r] \in Nat
        BY DEF RecordInv, RecordTypes
      <3>2. CASE r \in Own
        BY <2>1, <2>2, <3>1, <3>2 DEF RecordInv, RecordOnce
      <3>3. CASE r \in Import
        BY <2>1, <2>2, <3>1, <3>3 DEF RecordInv, RecordOnce
      <3> QED BY <3>2, <3>3 DEF Row
    <2>4. files \in [Row -> 0 .. 2]
      BY <2>3 DEF RecordInv, RecordTypes
    <2> QED BY <2>4 DEF TypeOK, IInv, HoldsInv, RecordInv, RecordTypes
  <1> QED BY <1>1, RecordsInductive, PTL

\* The files of a download that TorBox does not have at once are recorded at
\* most once: its row's own goroutine has looked before there is a file, and the
\* sweep, which alone records them then, records nothing while it finds files.
THEOREM UncachedRecordedOnce == Spec => [](\A r \in Row \ Cached : files[r] <= 1)
  <1>1. IInv /\ RecordInv /\ OnceInv => \A r \in Row \ Cached : files[r] <= 1
    <2> SUFFICES ASSUME RecordInv, OnceInv, NEW r \in Row \ Cached
                 PROVE  files[r] <= 1
      OBVIOUS
    <2>1. files[r] \in Nat
      BY DEF RecordInv, RecordTypes
    <2>2. WillAdd(Sweep, r) \in {0, 1}
      BY DEF WillAdd
    <2>3. files[r] + WillAdd(Sweep, r) <= 1
      BY DEF OnceInv
    <2> QED BY <2>1, <2>2, <2>3
  <1> QED BY <1>1, RecordsInductive, PTL

\* Nobody's files are recorded twice while TorBox has none of the downloads at
\* once, the case the run checks.
THEOREM RecordedOnce == ASSUME Cached = {} PROVE Spec => []FilesRecordedOnce
  <1>1. (\A r \in Row \ Cached : files[r] <= 1) => FilesRecordedOnce
    BY DEF FilesRecordedOnce
  <1> QED BY <1>1, UncachedRecordedOnce, PTL
=============================================================================
