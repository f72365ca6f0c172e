--------------------------- MODULE ServicesProofs ---------------------------
(***************************************************************************)
(* Proofs about the components that Services composes, for every value of  *)
(* the constants: each component's inductive invariant, and that every     *)
(* behaviour of the composition is one of the component.                   *)
(***************************************************************************)
EXTENDS Services, FiniteSetTheorems, TLAPS

\* What RateLimiterProofs proves of the limiter.
LP == INSTANCE RateLimiterProofs WITH Call <- Waiter, MaxTime <- LastTick

\* Every behaviour of the composition is one of each component.
LEMMA LimiterRuns == Spec => L!Spec
<1>1. Init => L!Init
  BY DEF Init
<1>2. [Next]_vars => [L!Next]_(L!vars)
  BY DEF Next, OthersStay, vars, limiterVars, L!vars
<1> QED BY <1>1, <1>2, PTL DEF Spec, L!Spec

LEMMA PlayRuns == Spec => P!Spec
<1>1. Init => P!Init
  BY DEF Init
<1>2. [Next]_vars => [P!Next]_(P!vars)
  BY DEF Next, OthersStay, vars, playVars, P!vars, P!itemVars
<1> QED BY <1>1, <1>2, PTL DEF Spec, P!Spec

LEMMA MetadataRuns == Spec => M!Spec
<1>1. Init => M!Init
  BY DEF Init
<1>2. [Next]_vars => [M!Next]_(M!vars)
  BY DEF Next, OthersStay, vars, metadataVars, M!vars, M!itemVars, M!jobVars
<1> QED BY <1>1, <1>2, PTL DEF Spec, M!Spec

\* The limiter paces (debrid/limiter.go).
THEOREM LimiterPaces == Spec => []Paced
<1>1. LP!ConstantsOK
  BY ServicesAssumption DEF L!ConstantsOK, LP!ConstantsOK
<1>2. LP!Spec => []LP!Paced
  BY <1>1, LP!LimiterPaces
<1>3. L!Spec => LP!Spec
  BY PTL DEF L!Spec, LP!Spec, L!Init, LP!Init, L!Next, LP!Next, L!vars, LP!vars,
     L!Reserve, LP!Reserve, L!Grant, LP!Grant, L!Cancel, LP!Cancel, L!Tick, LP!Tick, L!Later,
     LP!Later
<1>4. LP!Paced => Paced
  BY DEF Paced, L!Paced, LP!Paced, L!Taken, LP!Taken
<1> QED BY <1>2, <1>3, <1>4, LimiterRuns, PTL

-----------------------------------------------------------------------------
(* PlayItem.                                                               *)

\* A row without a path never says 'owned' and nobody probes or streams it; a
\* local file stays what the row has, and nobody holds a link of it.
PlayInv ==
  /\ P!TypeOK /\ NoDeadEnd
  /\ path = "none" => status # "owned" /\ \A v \in Viewer : playing[v] = "idle"
  /\ path = "local" => status = "owned" /\ \A v \in Viewer : sees[v] \notin P!Remote
  /\ \A v \in Viewer : playing[v] = "probing" =>
       sees[v] # "none" /\ (sees[v] = "local" => path = "local")

LEMMA PlayInvInit == P!Init => PlayInv
BY DEF P!Init, PlayInv, P!TypeOK, P!Remote, NoDeadEnd, P!NoDeadEnd

LEMMA PlayInvStep == PlayInv /\ [P!Next]_(P!vars) => PlayInv'
<1> SUFFICES ASSUME PlayInv, [P!Next]_(P!vars) PROVE PlayInv'
  OBVIOUS
<1> USE DEF PlayInv, P!TypeOK, P!Remote, NoDeadEnd, P!NoDeadEnd
<1>1. CASE P!LinkDies
  BY <1>1 DEF P!LinkDies
<1>2. CASE P!AcquisitionEnds
  BY <1>2 DEF P!AcquisitionEnds
<1>3. ASSUME NEW v \in Viewer, P!PlayInFlight(v) PROVE PlayInv'
  BY <1>3 DEF P!PlayInFlight, P!Answer, P!itemVars
<1>4. ASSUME NEW v \in Viewer, P!PlayPlaceholder(v) PROVE PlayInv'
  BY <1>4 DEF P!PlayPlaceholder, P!Answer
<1>5. ASSUME NEW v \in Viewer, P!PlayProbes(v) PROVE PlayInv'
  BY <1>5 DEF P!PlayProbes, P!itemVars
<1>6. ASSUME NEW v \in Viewer, P!ProbeFails(v) PROVE PlayInv'
  BY <1>6 DEF P!ProbeFails, P!Reacquire, P!Answer
<1>7. ASSUME NEW v \in Viewer, P!ProbeSucceeds(v) PROVE PlayInv'
  BY <1>7 DEF P!ProbeSucceeds, P!Answer, P!itemVars
<1>8. ASSUME NEW v \in Viewer, P!DirectStream(v) PROVE PlayInv'
  BY <1>8 DEF P!DirectStream, P!Answer, P!itemVars
<1>9. ASSUME NEW v \in Viewer, P!LoadFails(v) PROVE PlayInv'
  BY <1>9 DEF P!LoadFails, P!Answer, P!itemVars
<1>10. CASE UNCHANGED P!vars
  BY <1>10 DEF P!vars, P!itemVars
<1> QED BY <1>1, <1>2, <1>3, <1>4, <1>5, <1>6, <1>7, <1>8, <1>9, <1>10 DEF P!Next

\* No play ends with nothing left to do but that of a local file that cannot be
\* read or of a server that cannot transcode, however many viewers probe, search
\* and stream at one time and whatever call of theirs fails (httpapi/stream.go).
THEOREM PlayIsNoDeadEnd == Spec => []NoDeadEnd
<1>1. PlayInv => NoDeadEnd
  BY DEF PlayInv
<1> QED BY <1>1, PlayInvInit, PlayInvStep, PlayRuns, PTL DEF P!Spec

-----------------------------------------------------------------------------
(* MetadataSync.                                                           *)

\* What a job has still to look at can be counted without passing what it found;
\* while it goes through its first list, that is the length of that list.
JobCounts(j) ==
  /\ syncing[j] \in {"none", "list"} => todo[j] = {} /\ done[j] = 0
  /\ syncing[j] = "match" => found[j] = listed[j]
  /\ done[j] + Cardinality(todo[j]) <= found[j]

MetadataInv == M!TypeOK /\ \A j \in SyncJob : JobCounts(j)

\* FiniteSets as the component has it, and as this module has it.
LEMMA MetadataFinite == \A S : M!IsFiniteSet(S) <=> IsFiniteSet(S)
BY DEF M!IsFiniteSet, IsFiniteSet

LEMMA MetadataCardinality == \A S : M!Cardinality(S) = Cardinality(S)
BY DEF M!Cardinality, Cardinality, M!IsFiniteSet, IsFiniteSet

LEMMA ItemsAreFinite == IsFiniteSet(M!Item)
BY ServicesAssumption, MetadataFinite, FS_Union DEF ServicesAssumption, M!ConstantsOK, M!Item

LEMMA ListsAreFinite ==
  ASSUME NEW list \in SUBSET M!Item
  PROVE  IsFiniteSet(list) /\ Cardinality(list) \in Nat
BY ItemsAreFinite, FS_Subset, FS_CardinalityType

\* An item that is taken off the list makes it one shorter.
LEMMA TakeCounts ==
  ASSUME M!TypeOK, NEW j \in SyncJob, NEW i, M!Take(j, i)
  PROVE  /\ todo' = [todo EXCEPT ![j] = todo[j] \ {i}]
         /\ Cardinality(todo[j] \ {i}) = Cardinality(todo[j]) - 1
         /\ Cardinality(todo[j]) \in Nat /\ Cardinality(todo[j] \ {i}) \in Nat
<1>1. todo[j] \in SUBSET M!Item /\ i \in todo[j]
  BY DEF M!TypeOK, M!Take
<1> QED BY <1>1, ListsAreFinite, FS_RemoveElement DEF M!Take

\* A job's step that leaves the other jobs alone keeps the invariant if it keeps
\* the job's own part.
LEMMA OneJobMoves ==
  ASSUME MetadataInv, M!TypeOK', NEW j \in SyncJob, JobCounts(j)',
         \A k \in SyncJob \ {j} : /\ syncing'[k] = syncing[k] /\ todo'[k] = todo[k]
                             /\ listed'[k] = listed[k] /\ found'[k] = found[k]
                             /\ done'[k] = done[k]
  PROVE  MetadataInv'
BY DEF MetadataInv, JobCounts

LEMMA MetadataInvInit == M!Init => MetadataInv
BY FS_EmptySet DEF M!Init, MetadataInv, JobCounts, M!TypeOK, M!Provider

LEMMA StartSyncStep ==
  ASSUME MetadataInv, NEW j \in SyncJob, M!StartLibrarySync(j) PROVE MetadataInv'
<1> USE DEF M!StartLibrarySync
<1>1. M!TypeOK'
  BY DEF MetadataInv, M!TypeOK, M!itemVars
<1>2. JobCounts(j)'
  BY DEF MetadataInv, JobCounts, M!TypeOK
<1> QED BY <1>1, <1>2, OneJobMoves DEF MetadataInv, M!TypeOK

LEMMA ListStep ==
  ASSUME MetadataInv, NEW j \in SyncJob, M!List(j) \/ M!ListFails(j) PROVE MetadataInv'
<1>1. M!NeedsMetadata \in SUBSET M!Item /\ Cardinality(M!NeedsMetadata) \in Nat
  BY ListsAreFinite DEF M!NeedsMetadata
<1>2. M!TypeOK'
  BY <1>1, MetadataCardinality DEF M!List, M!ListFails, MetadataInv, M!TypeOK, M!itemVars
<1>3. JobCounts(j)'
  BY <1>1, MetadataCardinality DEF M!List, M!ListFails, MetadataInv, JobCounts, M!TypeOK
<1> QED BY <1>2, <1>3, OneJobMoves DEF M!List, M!ListFails, MetadataInv, M!TypeOK

LEMMA LookStep ==
  ASSUME MetadataInv, NEW j \in SyncJob, NEW i \in M!Item,
         M!Match(j, i) \/ M!Skip(j, i) \/ M!Backfill(j, i)
  PROVE  MetadataInv'
<1> USE DEF MetadataInv
<1>1. /\ M!Take(j, i)
      /\ UNCHANGED <<configured, locked, syncing, listed, found, job>>
      /\ done' = [done EXCEPT ![j] = @ + 1] \/ done' = done
  BY DEF M!Match, M!Skip, M!Backfill, M!Count, M!itemVars
<1>2. matched' \subseteq M!Item /\ hasCast' \subseteq M!Item
  BY DEF M!Match, M!Skip, M!Backfill, M!itemVars, M!TypeOK, M!Item
<1>3. /\ todo' = [todo EXCEPT ![j] = todo[j] \ {i}]
      /\ Cardinality(todo[j] \ {i}) = Cardinality(todo[j]) - 1
      /\ Cardinality(todo[j]) \in Nat
  BY <1>1, TakeCounts
<1>4. M!TypeOK'
  BY <1>1, <1>2, <1>3 DEF M!TypeOK
<1>5. syncing[j] \in {"match", "cast"}
  BY DEF M!Match, M!Skip, M!Backfill
<1>6. JobCounts(j)'
  BY <1>1, <1>3, <1>5 DEF JobCounts, M!TypeOK
<1> QED BY <1>1, <1>3, <1>4, <1>6, OneJobMoves DEF M!TypeOK

LEMMA ListCastStep ==
  ASSUME MetadataInv, NEW j \in SyncJob, M!ListCast(j) PROVE MetadataInv'
<1> USE DEF MetadataInv
<1>1. PICK list \in {M!NeedsCast, {}} :
        /\ todo' = [todo EXCEPT ![j] = list]
        /\ found' = [found EXCEPT ![j] = IF list = {} THEN @ ELSE listed[j] + Cardinality(list)]
  BY MetadataCardinality DEF M!ListCast
<1>2. list \in SUBSET M!Item /\ Cardinality(list) \in Nat /\ (list = {} => Cardinality(list) = 0)
  BY <1>1, ListsAreFinite, FS_EmptySet DEF M!NeedsCast, M!Item
<1>3. M!TypeOK'
  BY <1>1, <1>2 DEF M!ListCast, M!TypeOK, M!itemVars
<1>4. done[j] \in Nat /\ done[j] <= listed[j] /\ found[j] = listed[j] /\ listed[j] \in Nat
  <2>1. Cardinality(todo[j]) = 0 /\ syncing[j] = "match"
    BY FS_EmptySet DEF M!ListCast
  <2> QED BY <2>1 DEF JobCounts, M!TypeOK
<1>5. JobCounts(j)'
  BY <1>1, <1>2, <1>4 DEF M!ListCast, JobCounts, M!TypeOK
<1> QED BY <1>1, <1>3, <1>5, OneJobMoves DEF M!ListCast, M!TypeOK

LEMMA FinishSyncStep ==
  ASSUME MetadataInv, NEW j \in SyncJob, M!Finish(j) PROVE MetadataInv'
<1> USE DEF M!Finish
<1>1. M!TypeOK'
  BY DEF MetadataInv, M!TypeOK, M!itemVars
<1>2. JobCounts(j)'
  BY DEF MetadataInv, JobCounts, M!TypeOK
<1> QED BY <1>1, <1>2, OneJobMoves DEF MetadataInv, M!TypeOK

\* What is not a job's step changes nothing that is counted.
LEMMA OtherMetadataStep ==
  ASSUME MetadataInv,
         M!Reconfigure \/ (\E i \in M!Item : M!Correct(i)) \/ UNCHANGED M!vars
  PROVE  MetadataInv'
<1>1. UNCHANGED <<syncing, todo, listed, found, done, job>>
  BY DEF M!Reconfigure, M!Correct, M!vars, M!jobVars
<1>2. M!TypeOK'
  BY <1>1 DEF MetadataInv, M!TypeOK, M!Reconfigure, M!Correct, M!vars, M!itemVars, M!Item
<1> QED BY <1>1, <1>2 DEF MetadataInv, JobCounts

LEMMA MetadataInvStep == MetadataInv /\ [M!Next]_(M!vars) => MetadataInv'
BY StartSyncStep, ListStep, LookStep, ListCastStep, FinishSyncStep, OtherMetadataStep
DEF M!Next, M!Run

\* A metadata job never reports more matched items than it found, for any
\* library and any number of jobs at one time (metadata/sync.go).
THEOREM MatchedStaysWithinFound == Spec => []MatchedWithinFound
<1>1. MetadataInv => MatchedWithinFound
  <2> SUFFICES ASSUME MetadataInv, NEW j \in SyncJob PROVE done[j] <= found[j]
    BY DEF MatchedWithinFound, M!MatchedWithinFound
  <2>1. Cardinality(todo[j]) \in Nat /\ done[j] \in Nat /\ found[j] \in Nat
    BY ListsAreFinite DEF MetadataInv, M!TypeOK
  <2> QED BY <2>1 DEF MetadataInv, JobCounts
<1> QED BY <1>1, MetadataInvInit, MetadataInvStep, MetadataRuns, PTL DEF M!Spec

-----------------------------------------------------------------------------
(* Indexers.                                                               *)

Named(e, o) == e.kind = o.kind /\ e.name = o.name

\* The rows that count as o's, and the loops that may still insert one.
Mirrored(o) == {r \in I!OfKind(o.kind) \ renamed : indexers[r].name = o.name}
Adds(l, o) ==
  \/ /\ writing[l] \in {"add", "insert"} /\ on[l] = o.kind
     /\ \E e \in unwritten[l] : Named(e, o)
  \/ writing[l] = "insert" /\ Named(write[l].row, o)
Adding(o) == {l \in Loop : Adds(l, o)}

\* What the columns of a row come from: an entry, a change, or nothing.
Entry == Offers \cup Forms
Names == {"none"} \cup {e.name : e \in Entry} \cup {c.name : c \in Changes}
Sites == {TorBox} \cup {e.site : e \in Entry} \cup {c.site : c \in Changes}
Switches == BOOLEAN \cup {c.enabled : c \in Changes}
IndexerRow ==
  [kind : {"none", "torrent", "nzb"}, name : Names, site : Sites, enabled : Switches,
   reason : BOOLEAN]

IndexerTypes ==
  /\ indexers \in [Row -> IndexerRow]
  /\ writing \in [I!Agent -> {"off", "idle", "list", "add", "test", "insert", "update", "done"}]
  /\ on \in [Loop \cup {Sweep} -> {"torrent", "nzb"}]
  /\ unwritten \in [Loop \cup {Sweep} -> SUBSET (Offers \cup Row)]
  /\ \A l \in Loop : unwritten[l] \subseteq Offers
  /\ unwritten[Sweep] \subseteq Row /\ renamed \subseteq Row
  /\ write \in [I!Agent -> [id : Row \cup {0}, row : IndexerRow]]
  /\ cancelled \subseteq Loop /\ requests \in 0..MaxRequests

\* A list has a name once, and what is being inserted is off the list.
ListsHaveNamesOnce ==
  \A l \in Loop :
    /\ \A e, f \in unwritten[l] : Named(e, f) => e = f
    /\ writing[l] = "insert" =>
         /\ write[l].row.kind # "none"
         /\ \A e \in unwritten[l] : ~Named(e, write[l].row)

\* An update keeps the kind and name of a row that no admin named.
UpdatesKeepNames ==
  \A a \in I!Agent, r \in Row :
    write[a].id = r /\ indexers[r] # I!NoRow =>
      /\ write[a].row.kind = indexers[r].kind
      /\ r \notin renamed => write[a].row.name = indexers[r].name

Counts(o) ==
  /\ IsFiniteSet(Mirrored(o))
  /\ Cardinality(Mirrored(o)) + Cardinality(Adding(o)) <= Cardinality(Loop)

IndexerInv ==
  /\ IndexerTypes /\ ListsHaveNamesOnce /\ UpdatesKeepNames
  /\ \A o \in Offers : Counts(o)

LEMMA IndexersRun == Spec => I!Spec
<1>1. Init => I!Init
  BY DEF Init
<1>2. [Next]_vars => [I!Next]_(I!vars)
  BY DEF Next, OthersStay, vars, indexerVars, I!vars
<1> QED BY <1>1, <1>2, PTL DEF Spec, I!Spec

LEMMA IndexerFinite == \A S : I!IsFiniteSet(S) <=> IsFiniteSet(S)
BY DEF I!IsFiniteSet, IsFiniteSet

LEMMA IndexerCardinality == \A S : I!Cardinality(S) = Cardinality(S)
BY DEF I!Cardinality, Cardinality, I!IsFiniteSet, IsFiniteSet

LEMMA IndexerConstants ==
  /\ IsFiniteSet(Loop) /\ Cardinality(Loop) \in Nat /\ Cardinality(Loop) >= 1
  /\ Row \subseteq Nat \ {0} /\ MaxRequests \in Nat
  /\ Sweep \notin Loop \cup Editor /\ Loop \cap Editor = {}
  /\ \A o \in Offers : o.kind \in {"torrent", "nzb"}
  /\ \A f \in Forms : f.kind \in {"torrent", "nzb"}
  /\ \A c \in Changes : DOMAIN c \subseteq I!Column
<1>1. I!ConstantsOK
  BY ServicesAssumption DEF ServicesAssumption
<1>2. IsFiniteSet(Loop) /\ Loop # {}
  BY <1>1, IndexerFinite DEF I!ConstantsOK
<1> QED BY <1>1, <1>2, FS_CardinalityType, FS_EmptySet DEF I!ConstantsOK

LEMMA AddingIsFinite ==
  ASSUME NEW o PROVE /\ IsFiniteSet(Adding(o)) /\ Cardinality(Adding(o)) \in Nat
                     /\ Cardinality(Adding(o)) <= Cardinality(Loop)
BY IndexerConstants, FS_Subset, FS_CardinalityType DEF Adding

LEMMA AddingIsFiniteThen ==
  ASSUME NEW o PROVE /\ IsFiniteSet(Adding(o)') /\ Cardinality(Adding(o)') \in Nat
                     /\ Cardinality(Adding(o)') <= Cardinality(Loop)
BY IndexerConstants, FS_Subset, FS_CardinalityType DEF Adding

\* Neither more rows nor more loops that insert one: they count no more.
LEMMA FewerCount ==
  ASSUME NEW o \in Offers, Counts(o), Mirrored(o)' \subseteq Mirrored(o),
         Adding(o)' \subseteq Adding(o)
  PROVE  Counts(o)'
<1>1. IsFiniteSet(Mirrored(o)') /\ Cardinality(Mirrored(o)') <= Cardinality(Mirrored(o))
  BY FS_Subset DEF Counts
<1>2. Cardinality(Adding(o)') <= Cardinality(Adding(o))
  BY AddingIsFinite, FS_Subset
<1>3. /\ Cardinality(Mirrored(o)) \in Nat /\ Cardinality(Mirrored(o)') \in Nat
      /\ Cardinality(Adding(o)) \in Nat /\ Cardinality(Adding(o)') \in Nat
  BY <1>1, AddingIsFinite, AddingIsFiniteThen, FS_CardinalityType DEF Counts
<1>4. Cardinality(Mirrored(o)) + Cardinality(Adding(o)) <= Cardinality(Loop)
  BY DEF Counts
<1>5. Cardinality(Mirrored(o)') + Cardinality(Adding(o)') <= Cardinality(Loop)
  BY <1>1, <1>2, <1>3, <1>4, IndexerConstants
<1> QED BY <1>1, <1>5 DEF Counts

\* A loop's insert: the row it adds is one more, and the loop one less.
LEMMA InsertCounts ==
  ASSUME NEW o \in Offers, Counts(o), NEW r, r \notin Mirrored(o),
         Mirrored(o)' = Mirrored(o) \cup {r},
         NEW l \in Adding(o), Adding(o)' \subseteq Adding(o) \ {l}
  PROVE  Counts(o)'
<1>1. /\ IsFiniteSet(Mirrored(o)')
      /\ Cardinality(Mirrored(o)') = Cardinality(Mirrored(o)) + 1
  BY FS_AddElement DEF Counts
<1>2. /\ IsFiniteSet(Adding(o) \ {l})
      /\ Cardinality(Adding(o) \ {l}) = Cardinality(Adding(o)) - 1
  BY AddingIsFinite, FS_RemoveElement
<1>3. Cardinality(Adding(o)') <= Cardinality(Adding(o)) - 1
  BY <1>2, FS_Subset
<1>4. /\ Cardinality(Mirrored(o)) \in Nat /\ Cardinality(Adding(o)) \in Nat
      /\ Cardinality(Adding(o)') \in Nat
  BY AddingIsFinite, AddingIsFiniteThen, FS_CardinalityType DEF Counts
<1>5. Cardinality(Mirrored(o)) + Cardinality(Adding(o)) <= Cardinality(Loop)
  BY DEF Counts
<1>6. Cardinality(Mirrored(o)') + Cardinality(Adding(o)') <= Cardinality(Loop)
  BY <1>1, <1>3, <1>4, <1>5, IndexerConstants
<1> QED BY <1>1, <1>6 DEF Counts

\* A loop that lists the names while no row is o's may add one.
LEMMA ListCounts ==
  ASSUME NEW o \in Offers, Mirrored(o)' = {} PROVE Counts(o)'
<1>1. IsFiniteSet(Mirrored(o)') /\ Cardinality(Mirrored(o)') = 0
  BY FS_EmptySet
<1>2. Cardinality(Mirrored(o)') + Cardinality(Adding(o)') <= Cardinality(Loop)
  BY <1>1, AddingIsFiniteThen, IndexerConstants
<1> QED BY <1>1, <1>2 DEF Counts

LEMMA NoRowIsRow == I!NoRow \in IndexerRow /\ I!NoRow.kind = "none"
BY DEF IndexerRow, I!NoRow, Names, Sites, Switches

LEMMA NewRowIsRow ==
  ASSUME NEW e \in Entry
  PROVE  /\ I!NewRow(e) \in IndexerRow /\ Named(I!NewRow(e), e)
         /\ I!NewRow(e).kind # "none"
BY IndexerConstants DEF IndexerRow, I!NewRow, Named, Entry, Names, Sites, Switches

\* A change of some columns, and what the sweep writes.
ChangedRow(row, c) == [d \in DOMAIN I!NoRow |-> IF d \in DOMAIN c THEN c[d] ELSE row[d]]
SweptRow(row) == [row EXCEPT !.enabled = FALSE, !.reason = TRUE]

LEMMA ChangedRowIsRow ==
  ASSUME NEW row \in IndexerRow, NEW c \in Changes
  PROVE  /\ ChangedRow(row, c) \in IndexerRow /\ ChangedRow(row, c).kind = row.kind
         /\ "name" \notin DOMAIN c => ChangedRow(row, c).name = row.name
<1> DEFINE new == [kind |-> row.kind, name |-> IF "name" \in DOMAIN c THEN c.name ELSE row.name,
                   site |-> IF "site" \in DOMAIN c THEN c.site ELSE row.site,
                   enabled |-> IF "enabled" \in DOMAIN c THEN c.enabled ELSE row.enabled,
                   reason |-> row.reason]
<1>1. DOMAIN I!NoRow = {"kind", "name", "site", "enabled", "reason"}
  BY DEF I!NoRow
<1>2. DOMAIN c \subseteq {"name", "site", "enabled"}
  BY IndexerConstants DEF I!Column
<1>3. ChangedRow(row, c) = new
  BY <1>1, <1>2 DEF ChangedRow
<1>4. new \in IndexerRow
  BY DEF IndexerRow, Names, Sites, Switches
<1> QED BY <1>3, <1>4

LEMMA SweptRowIsRow ==
  ASSUME NEW row \in IndexerRow
  PROVE  /\ SweptRow(row) \in IndexerRow
         /\ SweptRow(row).kind = row.kind /\ SweptRow(row).name = row.name
BY DEF SweptRow, IndexerRow, Switches

LEMMA IndexerInvInit == I!Init => IndexerInv
<1> SUFFICES ASSUME I!Init PROVE IndexerInv
  OBVIOUS
<1>1. \/ indexers = [r \in Row |-> I!NoRow]
      \/ \E f \in Forms \cup Offers :
           indexers = [r \in Row |-> IF r = 1 THEN I!NewRow(f) ELSE I!NoRow]
  BY DEF I!Init
<1>2. IndexerTypes
  <2>1. indexers \in [Row -> IndexerRow]
    BY <1>1, NewRowIsRow, NoRowIsRow DEF Entry
  <2> QED BY <2>1, NoRowIsRow, IndexerConstants DEF I!Init, IndexerTypes, I!Agent
<1>3. ListsHaveNamesOnce /\ UpdatesKeepNames
  BY IndexerConstants DEF I!Init, ListsHaveNamesOnce, UpdatesKeepNames, I!Agent
<1>4. ASSUME NEW o \in Offers PROVE Counts(o)
  <2>1. Mirrored(o) \subseteq {1}
    BY <1>1 DEF Mirrored, I!OfKind, I!Rows
  <2>2. IsFiniteSet(Mirrored(o)) /\ Cardinality(Mirrored(o)) <= 1 /\ Cardinality(Mirrored(o)) \in Nat
    <3>1. IsFiniteSet({1}) /\ Cardinality({1}) = 1
      BY FS_Singleton
    <3> QED BY <2>1, <3>1, FS_Subset, FS_CardinalityType
  <2>3. Adding(o) = {}
    BY DEF I!Init, Adding, Adds, I!Agent
  <2> QED BY <2>2, <2>3, FS_EmptySet, IndexerConstants DEF Counts
<1> QED BY <1>2, <1>3, <1>4 DEF IndexerInv

\* A step that no loop takes and that leaves the rows and the names alone.
LEMMA IndexerAskStep ==
  ASSUME IndexerInv, NEW a \in Editor, NEW f \in Forms, I!AddIndexer(a, f)
  PROVE  IndexerInv'
<1> USE IndexerConstants DEF I!AddIndexer, I!Request, I!Write, I!Goto, IndexerInv
<1>1. IndexerTypes'
  BY NewRowIsRow, NoRowIsRow DEF IndexerTypes, I!Agent, Entry
<1>2. ListsHaveNamesOnce' /\ UpdatesKeepNames'
  BY DEF IndexerTypes, ListsHaveNamesOnce, UpdatesKeepNames, I!Agent
<1>3. ASSUME NEW o \in Offers PROVE Counts(o)'
  <2>1. Mirrored(o)' = Mirrored(o)
    BY DEF Mirrored, I!OfKind, I!Rows
  <2>2. Adding(o)' = Adding(o)
    BY DEF Adding, Adds, IndexerTypes, I!Agent
  <2> QED BY <2>1, <2>2, FewerCount
<1> QED BY <1>1, <1>2, <1>3

LEMMA IndexerChangeStep ==
  ASSUME IndexerInv, NEW a \in Editor, NEW r \in Row, NEW c \in Changes,
         I!UpdateIndexer(a, r, c)
  PROVE  IndexerInv'
<1> USE IndexerConstants DEF I!UpdateIndexer, I!Request, I!Write, I!Goto, IndexerInv
<1> DEFINE row == ChangedRow(indexers[r], c)
<1>1. /\ row \in IndexerRow /\ row.kind = indexers[r].kind
      /\ "name" \notin DOMAIN c => row.name = indexers[r].name
  BY ChangedRowIsRow DEF IndexerTypes
<1>2. write' = [write EXCEPT ![a] = [id |-> r, row |-> row]]
  BY DEF ChangedRow
<1> HIDE DEF row
<1>3. IndexerTypes'
  <2>1. write' \in [I!Agent -> [id : Row \cup {0}, row : IndexerRow]]
    BY <1>1, <1>2 DEF IndexerTypes, I!Agent
  <2>2. renamed' \subseteq Row /\ requests' \in 0..MaxRequests
    BY DEF IndexerTypes
  <2> QED BY <2>1, <2>2 DEF IndexerTypes, I!Agent
<1>4. ListsHaveNamesOnce' /\ UpdatesKeepNames'
  BY <1>1, <1>2 DEF IndexerTypes, ListsHaveNamesOnce, UpdatesKeepNames, I!Agent
<1>5. ASSUME NEW o \in Offers PROVE Counts(o)'
  <2>1. Mirrored(o)' \subseteq Mirrored(o)
    BY DEF Mirrored, I!OfKind, I!Rows
  <2>2. Adding(o)' = Adding(o)
    BY <1>2 DEF Adding, Adds, IndexerTypes, I!Agent
  <2> QED BY <2>1, <2>2, FewerCount
<1> QED BY <1>3, <1>4, <1>5

LEMMA IndexerRemoveStep ==
  ASSUME IndexerInv, NEW a \in Editor, NEW r \in Row, I!RemoveIndexer(a, r)
  PROVE  IndexerInv'
<1> USE IndexerConstants DEF I!RemoveIndexer, I!Request, IndexerInv
<1>1. IndexerTypes'
  BY NoRowIsRow DEF IndexerTypes
<1>2. ListsHaveNamesOnce' /\ UpdatesKeepNames'
  BY DEF IndexerTypes, ListsHaveNamesOnce, UpdatesKeepNames
<1>3. ASSUME NEW o \in Offers PROVE Counts(o)'
  <2>1. Mirrored(o)' \subseteq Mirrored(o)
    BY DEF Mirrored, I!OfKind, I!Rows, IndexerTypes
  <2>2. Adding(o)' = Adding(o)
    BY DEF Adding, Adds
  <2> QED BY <2>1, <2>2, FewerCount
<1> QED BY <1>1, <1>2, <1>3

LEMMA IndexerInsertStep ==
  ASSUME IndexerInv, NEW a \in Editor \cup Loop, NEW r \in Row, I!Insert(a, r)
  PROVE  IndexerInv'
<1> USE IndexerConstants DEF I!Insert, I!Write, I!Goto, I!Unused, IndexerInv
<1>1. writing' = [writing EXCEPT ![a] = IF a \in Loop THEN "add" ELSE "idle"] /\ a \in I!Agent
  BY DEF I!Back, I!Agent
<1>2. IndexerTypes'
  <2>1. write' \in [I!Agent -> [id : Row \cup {0}, row : IndexerRow]]
    BY <1>1, NoRowIsRow DEF IndexerTypes
  <2>2. renamed' \subseteq Row
    <3>1. renamed' \in {renamed, renamed \cup {r}, renamed \ {r}}
      OBVIOUS
    <3>2. renamed \subseteq Row
      BY DEF IndexerTypes
    <3> HIDE DEF I!Insert, IndexerInv
    <3> QED BY <3>1, <3>2
  <2>3. indexers' \in [Row -> IndexerRow]
    <3>1. write[a].row \in IndexerRow
      BY <1>1 DEF IndexerTypes
    <3> QED BY <3>1 DEF IndexerTypes
  <2> QED BY <1>1, <2>1, <2>2, <2>3 DEF IndexerTypes
<1>3. ListsHaveNamesOnce' /\ UpdatesKeepNames'
  BY <1>1 DEF IndexerTypes, ListsHaveNamesOnce, UpdatesKeepNames, I!Agent
<1>4. ASSUME NEW o \in Offers PROVE Counts(o)'
  <2>1. Adding(o)' \subseteq Adding(o)
    BY <1>1 DEF Adding, Adds, IndexerTypes, I!Agent
  <2>2. r \notin Mirrored(o)
    BY DEF Mirrored, I!OfKind, I!Rows
  <2>3. CASE UNCHANGED <<indexers, renamed>> \/ a \in Editor \/ ~Named(write[a].row, o)
    <3>1. Mirrored(o)' \subseteq Mirrored(o)
      BY <2>3 DEF Mirrored, I!OfKind, I!Rows, IndexerTypes, Named
    <3> QED BY <2>1, <3>1, FewerCount
  <2>4. CASE ~UNCHANGED <<indexers, renamed>> /\ a \in Loop /\ Named(write[a].row, o)
    <3>1. /\ indexers' = [indexers EXCEPT ![r] = write[a].row] /\ renamed' = renamed \ {r}
          /\ write[a].row # I!NoRow
      BY <2>4 DEF ListsHaveNamesOnce, I!NoRow
    <3>2. Mirrored(o)' = Mirrored(o) \cup {r}
      BY <2>4, <3>1 DEF Mirrored, I!OfKind, I!Rows, IndexerTypes, Named
    <3>3. a \in Adding(o) /\ Adding(o)' \subseteq Adding(o) \ {a}
      BY <1>1, <2>1, <2>4 DEF Adding, Adds, IndexerTypes, ListsHaveNamesOnce, Named, I!Agent
    <3> QED BY <2>2, <3>2, <3>3, InsertCounts
  <2> QED BY <2>3, <2>4
<1> QED BY <1>2, <1>3, <1>4

LEMMA IndexerUpdateStep ==
  ASSUME IndexerInv, NEW a \in Editor \cup {Sweep}, I!Update(a)
  PROVE  IndexerInv'
<1> USE IndexerConstants DEF I!Update, I!Write, I!Goto, IndexerInv
<1>1. writing' = [writing EXCEPT ![a] = IF a \in Editor THEN "idle" ELSE "test"] /\ a \in I!Agent
  BY DEF I!Back, I!Agent
<1>2. IndexerTypes'
  BY <1>1, NoRowIsRow DEF IndexerTypes, I!Agent
<1>3. /\ indexers' = [r \in Row |-> indexers'[r]]
      /\ \A r \in Row : indexers'[r] # indexers[r] =>
           indexers[r] # I!NoRow /\ write[a].id = r /\ indexers'[r] = write[a].row
  BY DEF IndexerTypes
<1>4. \A r \in Row : indexers'[r] # I!NoRow =>
        /\ indexers[r] # I!NoRow /\ indexers'[r].kind = indexers[r].kind
        /\ r \notin renamed => indexers'[r].name = indexers[r].name
  BY <1>1, <1>3 DEF UpdatesKeepNames
<1>5. ListsHaveNamesOnce'
  BY <1>1 DEF IndexerTypes, ListsHaveNamesOnce, I!Agent
<1>6. UpdatesKeepNames'
  <2> SUFFICES ASSUME NEW b \in I!Agent, NEW r \in Row,
                      write'[b].id = r, indexers'[r] # I!NoRow
               PROVE  /\ write'[b].row.kind = indexers'[r].kind
                      /\ r \notin renamed' => write'[b].row.name = indexers'[r].name
    BY DEF UpdatesKeepNames
  <2>1. b # a /\ write'[b] = write[b]
    BY <1>1 DEF IndexerTypes
  <2> QED BY <1>4, <2>1 DEF UpdatesKeepNames
<1>7. ASSUME NEW o \in Offers PROVE Counts(o)'
  <2>1. Mirrored(o)' \subseteq Mirrored(o)
    BY <1>4 DEF Mirrored, I!OfKind, I!Rows
  <2>2. Adding(o)' = Adding(o)
    BY <1>1 DEF Adding, Adds, IndexerTypes, I!Agent
  <2> QED BY <2>1, <2>2, FewerCount
<1> QED BY <1>2, <1>5, <1>6, <1>7

\* Without a change of the rows and writes, only a list that was read matters.
LEMMA IndexerLoopStep ==
  ASSUME IndexerInv, NEW l \in Loop,
         \/ I!Run(l) \/ \E offered \in SUBSET Offers : I!Tick(l, offered)
         \/ I!AllAdded(l)
  PROVE  IndexerInv'
<1> USE IndexerConstants DEF I!Run, I!Tick, I!AllAdded, I!EndKind, I!Goto, IndexerInv
<1>1. IndexerTypes'
  <2>1. CASE I!Run(l)
    BY <2>1 DEF IndexerTypes, I!Agent
  <2>2. ASSUME NEW offered \in SUBSET Offers, I!Tick(l, offered) PROVE IndexerTypes'
    BY <2>2 DEF IndexerTypes, I!Agent
  <2>3. CASE I!AllAdded(l)
    BY <2>3 DEF IndexerTypes, I!Agent
  <2> QED BY <2>1, <2>2, <2>3
<1>2. ListsHaveNamesOnce'
  <2>1. ASSUME UNCHANGED <<unwritten, write>>, writing' = [writing EXCEPT ![l] = "idle"]
        PROVE  ListsHaveNamesOnce'
    BY <2>1 DEF IndexerTypes, ListsHaveNamesOnce
  <2>2. ASSUME UNCHANGED <<unwritten, write>>, writing' = [writing EXCEPT ![l] = "list"]
        PROVE  ListsHaveNamesOnce'
    BY <2>2 DEF IndexerTypes, ListsHaveNamesOnce
  <2>3. ASSUME NEW offered \in SUBSET Offers, I!Tick(l, offered) PROVE ListsHaveNamesOnce'
    BY <2>3 DEF IndexerTypes, ListsHaveNamesOnce, Named
  <2>4. CASE I!Run(l)
    BY <2>1, <2>4
  <2>5. CASE I!AllAdded(l)
    BY <2>1, <2>2, <2>5
  <2> QED BY <2>3, <2>4, <2>5
<1>3. UpdatesKeepNames'
  BY DEF UpdatesKeepNames
<1>4. ASSUME NEW o \in Offers PROVE Counts(o)'
  <2>1. Mirrored(o)' = Mirrored(o)
    BY DEF Mirrored, I!OfKind, I!Rows
  <2>2. Adding(o)' \subseteq Adding(o)
    BY DEF Adding, Adds, IndexerTypes, I!Agent
  <2> QED BY <2>1, <2>2, FewerCount
<1> QED BY <1>1, <1>2, <1>3, <1>4

LEMMA IndexerListStep ==
  ASSUME IndexerInv, NEW l \in Loop, I!ListNames(l) PROVE IndexerInv'
<1> USE IndexerConstants DEF I!ListNames, I!Goto, IndexerInv
<1> DEFINE list == unwritten'[l]
<1>1. /\ list \subseteq unwritten[l] /\ unwritten' = [unwritten EXCEPT ![l] = list]
      /\ \A e \in list : e.kind = on[l] =>
           e.name \notin {indexers[r].name : r \in I!OfKind(on[l])}
  BY DEF IndexerTypes, I!Missing
<1> HIDE DEF list
<1>2. IndexerTypes'
  BY <1>1 DEF IndexerTypes, I!Agent
<1>3. ListsHaveNamesOnce' /\ UpdatesKeepNames'
  BY <1>1 DEF IndexerTypes, ListsHaveNamesOnce, UpdatesKeepNames, I!Agent
<1>4. ASSUME NEW o \in Offers PROVE Counts(o)'
  <2>1. Mirrored(o)' = Mirrored(o)
    BY DEF Mirrored, I!OfKind, I!Rows
  <2>2. CASE Adding(o)' \subseteq Adding(o)
    BY <2>1, <2>2, FewerCount
  <2>3. CASE ~(Adding(o)' \subseteq Adding(o))
    <3>1. on[l] = o.kind /\ \E e \in list : Named(e, o)
      BY <1>1, <2>3 DEF Adding, Adds, IndexerTypes, I!Agent
    <3>2. Mirrored(o) = {}
      BY <1>1, <3>1 DEF Mirrored, Named
    <3> QED BY <2>1, <3>2, ListCounts
  <2> QED BY <2>2, <2>3
<1> QED BY <1>2, <1>3, <1>4

LEMMA IndexerAddStep ==
  ASSUME IndexerInv, NEW l \in Loop, NEW e \in Offers, I!AddOne(l, e) PROVE IndexerInv'
<1> USE IndexerConstants DEF I!AddOne, I!Goto, I!Write, IndexerInv
<1>1. IndexerTypes'
  BY NewRowIsRow, NoRowIsRow DEF IndexerTypes, I!Agent, Entry
<1>2. Named(I!NewRow(e), e) /\ I!NewRow(e).kind # "none"
  BY NewRowIsRow DEF Entry
<1>3. UpdatesKeepNames'
  BY DEF IndexerTypes, UpdatesKeepNames, I!Agent
<1>4. ListsHaveNamesOnce'
  BY <1>2 DEF IndexerTypes, ListsHaveNamesOnce, I!Agent, Named
<1>5. ASSUME NEW o \in Offers PROVE Counts(o)'
  <2>1. Mirrored(o)' = Mirrored(o)
    BY DEF Mirrored, I!OfKind, I!Rows
  <2>2. Adding(o)' \subseteq Adding(o)
    BY <1>2 DEF Adding, Adds, IndexerTypes, I!Agent, Named
  <2> QED BY <2>1, <2>2, FewerCount
<1> QED BY <1>1, <1>3, <1>4, <1>5

LEMMA IndexerSweepStep ==
  ASSUME IndexerInv, I!SweepList \/ (\E r \in Row : I!SweepTest(r)) \/ I!AllTested
  PROVE  IndexerInv'
<1> USE IndexerConstants DEF I!Goto, IndexerInv
<1>1. /\ UNCHANGED <<indexers, cancelled, renamed, requests>>
      /\ writing' \in [I!Agent -> {"off", "idle", "list", "add", "test", "insert", "update", "done"}]
      /\ on' \in [Loop \cup {Sweep} -> {"torrent", "nzb"}]
      /\ unwritten' \in [Loop \cup {Sweep} -> SUBSET (Offers \cup Row)]
      /\ unwritten'[Sweep] \subseteq Row
      /\ \A l \in Loop : /\ writing'[l] = writing[l] /\ on'[l] = on[l]
                        /\ unwritten'[l] = unwritten[l] /\ write'[l] = write[l]
  <2> USE DEF I!OfKind, I!Rows, IndexerTypes, I!Agent, I!Write
  <2>1. CASE I!SweepList
    BY <2>1 DEF I!SweepList
  <2>2. ASSUME NEW r \in Row, I!SweepTest(r)
        PROVE  /\ UNCHANGED <<indexers, on, cancelled, renamed, requests>>
               /\ unwritten' = [unwritten EXCEPT ![Sweep] = @ \ {r}]
               /\ writing' = writing \/ writing' = [writing EXCEPT ![Sweep] = "update"]
               /\ \A l \in Loop : write'[l] = write[l]
    BY <2>2 DEF I!SweepTest
  <2>3. CASE I!AllTested
    BY <2>3 DEF I!AllTested, I!EndKind
  <2> QED BY <2>1, <2>2, <2>3
<1>2. \/ write' = write
      \/ \E r \in Row : write' = [write EXCEPT ![Sweep] = [id |-> r, row |-> SweptRow(indexers[r])]]
  BY DEF I!SweepList, I!SweepTest, I!AllTested, I!EndKind, I!Write, SweptRow
<1>3. IndexerTypes'
  BY <1>1, <1>2, SweptRowIsRow DEF IndexerTypes, I!Agent
<1>4. ListsHaveNamesOnce'
  BY <1>1 DEF ListsHaveNamesOnce
<1>5. UpdatesKeepNames'
  BY <1>1, <1>2, SweptRowIsRow DEF IndexerTypes, UpdatesKeepNames, I!Agent
<1>6. ASSUME NEW o \in Offers PROVE Counts(o)'
  <2>1. Mirrored(o)' = Mirrored(o)
    BY <1>1 DEF Mirrored, I!OfKind, I!Rows
  <2>2. Adding(o)' = Adding(o)
    BY <1>1 DEF Adding, Adds
  <2> QED BY <2>1, <2>2, FewerCount
<1> QED BY <1>3, <1>4, <1>5, <1>6

LEMMA IndexerInvStep == IndexerInv /\ [I!Next]_(I!vars) => IndexerInv'
<1> SUFFICES ASSUME IndexerInv, [I!Next]_(I!vars) PROVE IndexerInv'
  OBVIOUS
<1>1. CASE UNCHANGED I!vars
  BY <1>1 DEF I!vars, IndexerInv, IndexerTypes, ListsHaveNamesOnce, UpdatesKeepNames, Counts,
     Mirrored, I!OfKind, I!Rows, Adding, Adds
<1>2. ASSUME NEW a \in Editor, I!Ask(a) PROVE IndexerInv'
  BY <1>2, IndexerAskStep, IndexerChangeStep, IndexerRemoveStep, IndexerInsertStep,
     IndexerUpdateStep DEF I!Ask
<1>3. ASSUME NEW l \in Loop, I!Mirror(l) PROVE IndexerInv'
  BY <1>3, IndexerLoopStep, IndexerListStep, IndexerAddStep, IndexerInsertStep DEF I!Mirror
<1>4. CASE I!SweepStep
  BY <1>4, IndexerSweepStep, IndexerUpdateStep DEF I!SweepStep
<1> QED BY <1>1, <1>2, <1>3, <1>4 DEF I!Next

\* An indexer of Prowlarr has no more rows than loops ever ran, whatever the
\* admins, the sweep and loops that were replaced write meanwhile
\* (prowlarr/sync.go, store/torrent_indexers.go).
THEOREM MirroredOncePerLoopHolds == Spec => []MirroredOncePerLoop
<1>1. IndexerInv => MirroredOncePerLoop
  <2> SUFFICES ASSUME IndexerInv, NEW o \in Offers
               PROVE  Cardinality(Mirrored(o)) <= Cardinality(Loop)
    BY IndexerCardinality DEF MirroredOncePerLoop, I!MirroredOncePerLoop, Mirrored
  <2> QED BY AddingIsFinite, IndexerConstants, FS_CardinalityType DEF IndexerInv, Counts
<1> QED BY <1>1, IndexerInvInit, IndexerInvStep, IndexersRun, PTL DEF I!Spec

-----------------------------------------------------------------------------
(* ServerConfig.                                                           *)

Value == {"on", "off", "unset"} \cup UNION {{in[f] : f \in DOMAIN in} : in \in Input}
Settings ==
  {s \in [C!Field -> Value] : {s["torrent"], s["nzb"]} \subseteq {"on", "off", "unset"}}

\* Saves, and reconfigures that may still start services.
Underway == {a \in C!Actor : saving[a] \in {"saving", "stored", "clients", "sources"}}

ConfigTypes ==
  /\ saving \in [C!Actor -> C!Applying \cup {"idle", "saving", "stored"}]
  /\ stored \in Settings /\ copy \in [C!Actor -> Settings] /\ missed \in BOOLEAN
  /\ started \in Nat /\ torrentSvc \in 0..started /\ nzbSvc \in 0..started
  /\ changed \in BOOLEAN /\ prowlarrOn \in BOOLEAN /\ rebooted \in BOOLEAN
  /\ sweeping \subseteq 1..started
  /\ saves \in 0..MaxSaves

\* A service is started for a save, or for the boot.
StartsAreSaved ==
  /\ IsFiniteSet(Underway)
  /\ started + Cardinality(Underway) <= saves + 1

OneApplies ==
  \A a, b \in C!Actor : saving[a] \in C!Applying /\ saving[b] \in C!Applying => a = b

\* The clients, and the sources, that the settings ask for.
ClientsAre(s) ==
  tmdb = C!Effective(s)["tmdb"] /\ subtitles \in {C!Effective(s)["subtitles"], "unset"}
SourcesAre(s) ==
  /\ torrentSvc # 0 <=> C!Effective(s)["torrent"] = "on"
  /\ nzbSvc # 0 <=> C!Effective(s)["nzb"] = "on"

\* How far a reconfigure has come with the settings it read.
AppliesInOrder ==
  \A a \in C!Actor :
    /\ saving[a] \in {"sources", "acquisition", "prowlarr"} => ClientsAre(copy[a])
    /\ saving[a] \in {"acquisition", "prowlarr"} => SourcesAre(copy[a])

\* What was stored last is being applied, or has been.
StoredIsApplied ==
  ~missed /\ (\A a \in C!Actor : saving[a] # "stored") =>
    /\ \A a \in C!Actor : saving[a] \in C!Applying => copy[a] = stored
    /\ (\A a \in C!Actor : saving[a] \notin C!Applying) => ClientsAre(stored) /\ SourcesAre(stored)

UsesSources == acquisition.torrent = torrentSvc /\ acquisition.nzb = nzbSvc
Wanted == tmdb # "unset" /\ (torrentSvc # 0 \/ nzbSvc # 0)

\* Acquisition and the syncs go with the sources but while a reconfigure that
\* changed these has not come to them.
AcquisitionFollows ==
  /\ monitors = {acquisition} \ {C!NoAcquisition}
  /\ acquisition # C!NoAcquisition =>
       (UsesSources <=> \A a \in C!Actor : saving[a] = "acquisition" => ~changed)
  /\ (\A a \in C!Actor : saving[a] \notin {"sources", "acquisition"}) =>
       (acquisition # C!NoAcquisition <=> Wanted)
LoopsFollow ==
  /\ sweepers = {nzbSvc} \ {0}
  /\ (\A a \in C!Actor : saving[a] \in {"acquisition", "prowlarr"} => ~changed) =>
       syncs \subseteq {<<torrentSvc, nzbSvc>>}

ConfigInv ==
  /\ ConfigTypes /\ StartsAreSaved /\ OneApplies /\ AppliesInOrder /\ StoredIsApplied
  /\ AcquisitionFollows /\ LoopsFollow

LEMMA ConfigRuns == Spec => C!Spec
<1>1. Init => C!Init
  BY DEF Init
<1>2. [Next]_vars => [C!Next]_(C!vars)
  BY DEF Next, OthersStay, vars, configVars, C!vars, C!savedVars, C!clientVars, C!sourceVars,
     C!acquisitionVars, C!syncVars
<1> QED BY <1>1, <1>2, PTL DEF Spec, C!Spec

LEMMA ConfigConstants ==
  /\ Boot \notin Admin /\ MaxSaves \in Nat /\ Prowlarr \in BOOLEAN
  /\ {Base["torrent"], Base["nzb"]} \subseteq {"on", "off"}
  /\ \A in \in Input : \A f \in DOMAIN in :
       f \in C!Field /\ (f \in {"torrent", "nzb"} => in[f] \in {"on", "off", "unset"})
BY ServicesAssumption DEF ServicesAssumption, C!ConstantsOK

LEMMA UnderwayCounts ==
  ASSUME ConfigTypes, StartsAreSaved
  PROVE  /\ IsFiniteSet(Underway) /\ Cardinality(Underway) \in Nat
         /\ started + Cardinality(Underway) <= saves + 1
BY FS_CardinalityType DEF StartsAreSaved

LEMMA NoMoreUnderway ==
  ASSUME ConfigTypes, StartsAreSaved, Underway' \subseteq Underway, UNCHANGED <<started, saves>>
  PROVE  StartsAreSaved'
<1>1. IsFiniteSet(Underway') /\ Cardinality(Underway') <= Cardinality(Underway)
  BY UnderwayCounts, FS_Subset
<1>2. Cardinality(Underway') \in Nat
  BY <1>1, FS_CardinalityType
<1>3. started + Cardinality(Underway') <= saves + 1
  BY <1>1, <1>2, UnderwayCounts DEF ConfigTypes
<1> QED BY <1>1, <1>3 DEF StartsAreSaved

LEMMA SaveUnderway ==
  ASSUME ConfigTypes, StartsAreSaved, NEW a, Underway' = Underway \cup {a},
         started' = started, saves' = saves + 1
  PROVE  StartsAreSaved'
<1>1. /\ IsFiniteSet(Underway') /\ Cardinality(Underway') \in Nat
      /\ Cardinality(Underway') <= Cardinality(Underway) + 1
  <2>1. /\ IsFiniteSet(Underway \cup {a})
        /\ Cardinality(Underway \cup {a}) =
             IF a \in Underway THEN Cardinality(Underway) ELSE Cardinality(Underway) + 1
    BY UnderwayCounts, FS_AddElement
  <2> QED BY <2>1, UnderwayCounts
<1>2. started' + Cardinality(Underway') <= saves' + 1
  BY <1>1, UnderwayCounts DEF ConfigTypes
<1> QED BY <1>1, <1>2 DEF StartsAreSaved

LEMMA StartUnderway ==
  ASSUME ConfigTypes, StartsAreSaved, NEW a \in Underway, Underway' = Underway \ {a},
         started' \in {started, started + 1}, saves' = saves
  PROVE  StartsAreSaved' /\ started' <= MaxSaves + 1
<1>1. /\ IsFiniteSet(Underway') /\ Cardinality(Underway') \in Nat
      /\ Cardinality(Underway') = Cardinality(Underway) - 1
  BY UnderwayCounts, FS_RemoveElement, FS_CardinalityType
<1>2. started' + Cardinality(Underway') <= saves' + 1
  BY <1>1, UnderwayCounts DEF ConfigTypes
<1> QED BY <1>1, <1>2, ConfigConstants DEF StartsAreSaved, ConfigTypes

LEMMA BootUnderway ==
  ASSUME ConfigTypes, Underway' = {Boot}, started' = 0, saves' = saves
  PROVE  StartsAreSaved'
<1>1. IsFiniteSet(Underway') /\ Cardinality(Underway') = 1
  BY FS_Singleton
<1> QED BY <1>1 DEF StartsAreSaved, ConfigTypes

\* The toggles come out as on or off.
LEMMA EffectiveToggles ==
  ASSUME NEW s \in Settings
  PROVE  C!Effective(s)["torrent"] \in {"on", "off"} /\ C!Effective(s)["nzb"] \in {"on", "off"}
BY ConfigConstants DEF Settings, C!Effective, C!Field

LEMMA MergeIsSettings ==
  ASSUME NEW s \in Settings, NEW in \in Input PROVE C!Merge(s, in) \in Settings
<1>1. C!Merge(s, in) \in [C!Field -> Value]
  BY DEF C!Merge, Settings, Value
<1> QED BY <1>1, ConfigConstants DEF C!Merge, Settings, C!Field

LEMMA UnsetIsSettings == C!Unset \in Settings
BY DEF C!Unset, Settings, Value, C!Field

\* At boot nothing runs.
LEMMA FreshConfig ==
  ASSUME saving = C!AtBoot, tmdb = "unset", torrentSvc = 0, nzbSvc = 0,
         acquisition = C!NoAcquisition, monitors = {}, sweepers = {}, syncs = {}
  PROVE  /\ OneApplies /\ AppliesInOrder /\ StoredIsApplied /\ AcquisitionFollows /\ LoopsFollow
         /\ Underway = {Boot}
BY ConfigConstants DEF C!AtBoot, C!Actor, C!Applying, OneApplies, AppliesInOrder, StoredIsApplied,
   AcquisitionFollows, LoopsFollow, Wanted, C!NoAcquisition, Underway

LEMMA ConfigInvInit == C!Init => ConfigInv
<1> SUFFICES ASSUME C!Init PROVE ConfigInv
  OBVIOUS
<1>1. ConfigTypes
  <2>1. saving \in [C!Actor -> C!Applying \cup {"idle", "saving", "stored"}]
    BY DEF C!Init, C!AtBoot
  <2>2. stored \in Settings /\ copy \in [C!Actor -> Settings]
    BY UnsetIsSettings DEF C!Init
  <2>3. missed \in BOOLEAN /\ changed \in BOOLEAN /\ prowlarrOn \in BOOLEAN /\ rebooted \in BOOLEAN
    BY DEF C!Init
  <2>4. /\ started \in Nat /\ torrentSvc \in 0..started /\ nzbSvc \in 0..started
        /\ sweeping \subseteq 1..started /\ saves \in 0..MaxSaves
    BY ConfigConstants DEF C!Init
  <2> QED BY <2>1, <2>2, <2>3, <2>4 DEF ConfigTypes
<1>2. /\ OneApplies /\ AppliesInOrder /\ StoredIsApplied /\ AcquisitionFollows /\ LoopsFollow
      /\ Underway = {Boot}
  BY FreshConfig DEF C!Init
<1>3. StartsAreSaved
  <2>1. IsFiniteSet(Underway) /\ Cardinality(Underway) = 1
    BY <1>2, FS_Singleton
  <2> QED BY <2>1 DEF StartsAreSaved, C!Init
<1> QED BY <1>1, <1>2, <1>3 DEF ConfigInv

LEMMA ConfigRestartStep == ASSUME ConfigInv, C!Restart PROVE ConfigInv'
<1> USE DEF C!Restart, ConfigInv
<1>1. ConfigTypes'
  <2>1. saving' \in [C!Actor -> C!Applying \cup {"idle", "saving", "stored"}]
    BY DEF C!AtBoot
  <2>2. UNCHANGED <<stored, copy, missed, saves>>
    BY DEF C!savedVars
  <2>3. changed' \in BOOLEAN /\ prowlarrOn' \in BOOLEAN /\ rebooted' \in BOOLEAN
    OBVIOUS
  <2>4. /\ started' \in Nat /\ torrentSvc' \in 0..started' /\ nzbSvc' \in 0..started'
        /\ sweeping' \subseteq 1..started'
    OBVIOUS
  <2> QED BY <2>1, <2>2, <2>3, <2>4 DEF ConfigTypes
<1>2. OneApplies' /\ AppliesInOrder' /\ StoredIsApplied' /\ LoopsFollow' /\ AcquisitionFollows'
  BY ConfigConstants
     DEF C!AtBoot, C!Actor, C!Applying, OneApplies, AppliesInOrder, StoredIsApplied,
     AcquisitionFollows, LoopsFollow, Wanted, C!NoAcquisition
<1>3. Underway' = {Boot}
  BY ConfigConstants DEF Underway, C!AtBoot, C!Actor
<1> QED BY <1>1, <1>2, <1>3, BootUnderway

\* What is neither a save nor a reconfigure.
LEMMA ConfigOtherStep ==
  ASSUME ConfigInv,
         \/ C!BeginSweep \/ (\E n \in sweeping : C!EndSweep(n)) \/ C!GiveUpSync \/ UNCHANGED C!vars
  PROVE  ConfigInv'
<1> USE DEF ConfigInv
<1>1. /\ UNCHANGED <<stored, saving, copy, missed, tmdb, subtitles, started, torrentSvc, nzbSvc,
                     changed, acquisition, monitors, sweepers, prowlarrOn, saves, rebooted>>
      /\ syncs' \in {syncs, {}} /\ sweeping' \subseteq sweeping \cup ({nzbSvc} \ {0})
  BY DEF C!BeginSweep, C!EndSweep, C!GiveUpSync, C!vars, C!savedVars, C!clientVars, C!sourceVars,
     C!acquisitionVars, C!syncVars
<1>2. ConfigTypes'
  BY <1>1 DEF ConfigTypes
<1>3. OneApplies' /\ AppliesInOrder' /\ StoredIsApplied' /\ AcquisitionFollows'
  BY <1>1 DEF OneApplies, AppliesInOrder, StoredIsApplied, AcquisitionFollows, ClientsAre,
     SourcesAre, UsesSources, Wanted
<1>4. LoopsFollow'
  BY <1>1 DEF LoopsFollow
<1>5. StartsAreSaved'
  BY <1>1 DEF StartsAreSaved, Underway
<1> QED BY <1>2, <1>3, <1>4, <1>5

\* A save: nobody's clients or services change, and nobody comes to apply.
LEMMA ConfigSaveStep ==
  ASSUME ConfigInv, NEW a \in Admin, C!Save(a) \/ \E in \in Input : C!ReadForSave(a, in)
  PROVE  ConfigInv'
<1> USE DEF ConfigInv
<1>1. /\ UNCHANGED <<tmdb, subtitles, started, torrentSvc, nzbSvc, changed, acquisition, monitors,
                     sweepers, sweeping, syncs, prowlarrOn, rebooted>>
      /\ a \in C!Actor
      /\ saving[a] \in {"idle", "saving"}
      /\ saving' \in {[saving EXCEPT ![a] = where] : where \in {"idle", "saving", "stored"}}
      /\ \A b \in C!Actor \ {a} : copy'[b] = copy[b]
  BY DEF C!Save, C!ReadForSave, C!Goto, C!clientVars, C!sourceVars, C!acquisitionVars,
     C!syncVars, C!Actor, ConfigTypes
<1>2. \A b \in C!Actor : saving'[b] \in C!Applying \/ saving[b] \in C!Applying =>
        b # a /\ saving'[b] = saving[b]
  BY <1>1 DEF ConfigTypes, C!Applying
<1>3. ConfigTypes'
  <2>1. CASE C!Save(a)
    <3>1. stored' \in {stored, copy[a]} /\ UNCHANGED <<copy, saves>> /\ missed' \in {missed, TRUE}
      BY <2>1 DEF C!Save
    <3> QED BY <3>1, <1>1 DEF ConfigTypes
  <2>2. ASSUME NEW in \in Input, C!ReadForSave(a, in) PROVE ConfigTypes'
    BY <2>2, <1>1, MergeIsSettings, ConfigConstants DEF C!ReadForSave, ConfigTypes, C!Goto
  <2> QED BY <2>1, <2>2
<1>4. OneApplies' /\ AppliesInOrder'
  BY <1>1, <1>2 DEF OneApplies, AppliesInOrder, ClientsAre, SourcesAre, C!Applying
<1>5. StoredIsApplied'
  <2>1. CASE missed' \/ saving'[a] = "stored"
    BY <2>1, <1>1 DEF StoredIsApplied
  <2>2. CASE ~missed' /\ saving'[a] # "stored"
    <3>1. ~missed /\ stored' = stored
      BY <2>2, <1>1 DEF C!Save, C!ReadForSave, C!Goto, C!savedVars, ConfigTypes
    <3>2. \A b \in C!Actor : saving[b] = "stored" => saving'[b] = "stored"
      BY <1>1 DEF ConfigTypes
    <3> QED BY <1>1, <1>2, <3>1, <3>2 DEF StoredIsApplied, ClientsAre, SourcesAre
  <2> QED BY <2>1, <2>2
<1>6. AcquisitionFollows' /\ LoopsFollow'
  BY <1>1, <1>2 DEF AcquisitionFollows, LoopsFollow, UsesSources, Wanted, C!Applying
<1>7. StartsAreSaved'
  <2>1. CASE C!Save(a)
    <3>1. Underway' \subseteq Underway
      BY <2>1, <1>1 DEF Underway, C!Save, ConfigTypes
    <3> QED BY <2>1, <3>1, <1>1, NoMoreUnderway DEF C!Save
  <2>2. ASSUME NEW in \in Input, C!ReadForSave(a, in) PROVE StartsAreSaved'
    <3>1. Underway' = Underway \cup {a}
      BY <2>2, <1>1 DEF Underway, C!ReadForSave, C!Goto, ConfigTypes
    <3> QED BY <2>2, <3>1, <1>1, SaveUnderway DEF C!ReadForSave
  <2> QED BY <2>1, <2>2
<1> QED BY <1>3, <1>4, <1>5, <1>6, <1>7

LEMMA ConfigReadStep ==
  ASSUME ConfigInv, NEW a \in C!Actor, C!ReadSettings(a) PROVE ConfigInv'
<1> USE DEF ConfigInv
<1>1. /\ UNCHANGED <<stored, tmdb, subtitles, started, torrentSvc, nzbSvc, changed, acquisition,
                     monitors, sweepers, sweeping, syncs, prowlarrOn, saves, rebooted>>
      /\ saving[a] = "stored" /\ \A b \in C!Actor : saving[b] \notin C!Applying
      /\ \/ /\ saving' = [saving EXCEPT ![a] = "clients"]
            /\ copy' = [copy EXCEPT ![a] = stored] /\ missed' = FALSE
         \/ saving' = [saving EXCEPT ![a] = "idle"] /\ copy' = copy /\ missed' = TRUE
  BY DEF C!ReadSettings, C!Free, C!Goto, C!clientVars, C!sourceVars, C!acquisitionVars,
     C!syncVars, ConfigTypes
<1>2. ConfigTypes'
  BY <1>1 DEF ConfigTypes, C!Applying
<1>3. OneApplies' /\ AppliesInOrder' /\ StoredIsApplied'
  BY <1>1 DEF OneApplies, AppliesInOrder, StoredIsApplied, C!Applying, ConfigTypes
<1>4. AcquisitionFollows' /\ LoopsFollow'
  BY <1>1 DEF AcquisitionFollows, LoopsFollow, UsesSources, Wanted, C!Applying, ConfigTypes
<1>5. Underway' \subseteq Underway
  BY <1>1 DEF Underway, ConfigTypes
<1> QED BY <1>1, <1>2, <1>3, <1>4, <1>5, NoMoreUnderway

\* The reconfigure that moves on is the only one that applies.
LEMMA OnlyOneMoves ==
  ASSUME ConfigTypes, OneApplies, NEW a \in C!Actor, saving[a] \in C!Applying,
         NEW where, saving' = [saving EXCEPT ![a] = where]
  PROVE  /\ saving'[a] = where
         /\ \A b \in C!Actor \ {a} : saving'[b] = saving[b] /\ saving[b] \notin C!Applying
         /\ OneApplies'
BY DEF ConfigTypes, OneApplies

LEMMA ConfigClientsStep ==
  ASSUME ConfigInv, NEW a \in C!Actor, C!ApplyClients(a) PROVE ConfigInv'
<1> USE DEF ConfigInv
<1>1. /\ UNCHANGED <<stored, copy, missed, started, torrentSvc, nzbSvc, changed, acquisition,
                     monitors, sweepers, sweeping, syncs, prowlarrOn, saves, rebooted>>
      /\ saving[a] = "clients" /\ saving' = [saving EXCEPT ![a] = "sources"]
      /\ ClientsAre(copy[a])'
  BY DEF C!ApplyClients, C!Goto, C!savedVars, C!sourceVars, C!acquisitionVars, C!syncVars,
     ClientsAre, C!Effective
<1>2. /\ saving'[a] = "sources" /\ OneApplies'
      /\ \A b \in C!Actor \ {a} : saving'[b] = saving[b] /\ saving[b] \notin C!Applying
  BY <1>1, OnlyOneMoves DEF C!Applying
<1>3. ConfigTypes'
  BY <1>1 DEF ConfigTypes, C!Applying
<1>4. AppliesInOrder'
  BY <1>1, <1>2 DEF AppliesInOrder, C!Applying
<1>5. StoredIsApplied'
  BY <1>1, <1>2 DEF StoredIsApplied, C!Applying
<1>6. AcquisitionFollows' /\ LoopsFollow'
  BY <1>1, <1>2 DEF AcquisitionFollows, LoopsFollow, UsesSources, C!Applying
<1>7. Underway' \subseteq Underway
  BY <1>1 DEF Underway, ConfigTypes
<1> QED BY <1>1, <1>2, <1>3, <1>4, <1>5, <1>6, <1>7, NoMoreUnderway

LEMMA ConfigSourcesStep ==
  ASSUME ConfigInv, NEW a \in C!Actor, C!ApplySources(a) PROVE ConfigInv'
<1> USE DEF ConfigInv
<1>1. /\ UNCHANGED <<stored, copy, missed, tmdb, subtitles, acquisition, monitors, sweeping, syncs,
                     prowlarrOn, saves, rebooted>>
      /\ saving[a] = "sources" /\ saving' = [saving EXCEPT ![a] = "acquisition"]
      /\ torrentSvc' = C!Toggle(torrentSvc, C!Effective(copy[a])["torrent"])
      /\ nzbSvc' = C!Toggle(nzbSvc, C!Effective(copy[a])["nzb"])
      /\ changed' = (torrentSvc' # torrentSvc \/ nzbSvc' # nzbSvc)
      /\ started' = IF started + 1 \in {torrentSvc', nzbSvc'} THEN started + 1 ELSE started
      /\ sweepers' = IF nzbSvc' = nzbSvc THEN sweepers ELSE (sweepers \cup {nzbSvc'}) \ {nzbSvc, 0}
  BY DEF C!ApplySources, C!Goto, C!savedVars, C!clientVars, C!acquisitionVars, C!syncVars
<1>2. /\ saving'[a] = "acquisition" /\ OneApplies'
      /\ \A b \in C!Actor \ {a} : saving'[b] = saving[b] /\ saving[b] \notin C!Applying
  BY <1>1, OnlyOneMoves DEF C!Applying
<1>3. copy[a] \in Settings
  BY DEF ConfigTypes
<1>4. /\ torrentSvc \in Nat /\ nzbSvc \in Nat /\ started \in Nat
      /\ torrentSvc <= started /\ nzbSvc <= started
  BY DEF ConfigTypes
<1>5. SourcesAre(copy[a])'
  BY <1>1, <1>3, <1>4, EffectiveToggles DEF SourcesAre, C!Toggle, C!Effective
<1>6. started' \in {started, started + 1} /\ torrentSvc' \in 0..started' /\ nzbSvc' \in 0..started'
  BY <1>1, <1>4 DEF C!Toggle
<1>7. ConfigTypes'
  <2>1. changed' \in BOOLEAN /\ started' \in Nat /\ sweeping' \subseteq 1..started'
    BY <1>1, <1>4, <1>6 DEF ConfigTypes
  <2> QED BY <1>1, <1>6, <2>1 DEF ConfigTypes, C!Applying
<1>8. AppliesInOrder'
  BY <1>1, <1>2, <1>5 DEF AppliesInOrder, C!Applying, ClientsAre
<1>9. StoredIsApplied'
  BY <1>1, <1>2 DEF StoredIsApplied, C!Applying
<1>10. AcquisitionFollows'
  BY <1>1, <1>2 DEF AcquisitionFollows, UsesSources, C!Applying
<1>11. LoopsFollow'
  BY <1>1, <1>2 DEF LoopsFollow, C!Applying
<1>12. StartsAreSaved'
  <2>1. a \in Underway /\ Underway' = Underway \ {a}
    BY <1>1, <1>2 DEF Underway, C!Applying
  <2> QED BY <1>1, <1>6, <2>1, StartUnderway
<1> QED BY <1>2, <1>7, <1>8, <1>9, <1>10, <1>11, <1>12

LEMMA ConfigAcquisitionStep ==
  ASSUME ConfigInv, NEW a \in C!Actor, C!ApplyAcquisition(a) PROVE ConfigInv'
<1> USE DEF ConfigInv
<1> DEFINE new == IF Wanted THEN [tmdb |-> tmdb, torrent |-> torrentSvc, nzb |-> nzbSvc]
                  ELSE C!NoAcquisition
<1>1. /\ UNCHANGED <<stored, copy, missed, tmdb, subtitles, started, torrentSvc, nzbSvc, changed,
                     sweepers, sweeping, syncs, prowlarrOn, saves, rebooted>>
      /\ saving[a] = "acquisition" /\ saving' = [saving EXCEPT ![a] = "prowlarr"]
      /\ IF changed \/ Wanted # (acquisition # C!NoAcquisition)
         THEN /\ acquisition' = new
              /\ monitors' = (monitors \cup {new}) \ {acquisition, C!NoAcquisition}
         ELSE UNCHANGED <<acquisition, monitors>>
  BY DEF C!ApplyAcquisition, C!Goto, C!savedVars, C!clientVars, C!sourceVars, C!acquisitionVars,
     C!syncVars, Wanted
<1>2. /\ saving'[a] = "prowlarr" /\ OneApplies'
      /\ \A b \in C!Actor \ {a} : saving'[b] = saving[b] /\ saving[b] \notin C!Applying
  BY <1>1, OnlyOneMoves DEF C!Applying
<1>3. new # C!NoAcquisition <=> Wanted
  BY DEF Wanted, C!NoAcquisition
<1>4. /\ monitors = {acquisition} \ {C!NoAcquisition} /\ changed \in BOOLEAN
      /\ acquisition # C!NoAcquisition => (UsesSources <=> ~changed)
  BY <1>1, <1>2 DEF AcquisitionFollows, C!Applying, ConfigTypes
<1>5. /\ acquisition' # C!NoAcquisition <=> Wanted
      /\ acquisition' # C!NoAcquisition => UsesSources'
  <2>1. CASE acquisition' = new
    BY <1>1, <1>3, <2>1 DEF UsesSources
  <2>2. CASE ~changed /\ acquisition' = acquisition /\ (Wanted <=> acquisition # C!NoAcquisition)
    BY <1>1, <1>4, <2>2 DEF UsesSources
  <2>3. Wanted \in BOOLEAN
    BY DEF Wanted
  <2> QED BY <1>1, <2>1, <2>2, <2>3
<1>6. monitors' = {acquisition'} \ {C!NoAcquisition}
  <2>1. CASE UNCHANGED <<acquisition, monitors>>
    BY <1>4, <2>1
  <2>2. CASE /\ changed \/ Wanted # (acquisition # C!NoAcquisition) 
             /\ acquisition' = new
             /\ monitors' = (monitors \cup {new}) \ {acquisition, C!NoAcquisition}
    <3>1. new = acquisition => new = C!NoAcquisition
      <4> SUFFICES ASSUME new = acquisition, new # C!NoAcquisition PROVE FALSE
        OBVIOUS
      <4>1. Wanted /\ UsesSources
        BY <1>3 DEF UsesSources
      <4>2. Wanted = (acquisition # C!NoAcquisition)
        BY <4>1 DEF Wanted
      <4> QED BY <1>4, <2>2, <4>1, <4>2
    <3> QED BY <1>4, <2>2, <3>1
  <2> QED BY <1>1, <2>1, <2>2
<1> HIDE DEF new
<1>7. AcquisitionFollows'
  BY <1>1, <1>2, <1>5, <1>6 DEF AcquisitionFollows, C!Applying, Wanted
<1>8. ConfigTypes'
  BY <1>1 DEF ConfigTypes, C!Applying
<1>9. AppliesInOrder' /\ StoredIsApplied'
  BY <1>1, <1>2 DEF AppliesInOrder, StoredIsApplied, ClientsAre, SourcesAre, C!Applying
<1>10. LoopsFollow'
  BY <1>1, <1>2 DEF LoopsFollow, C!Applying
<1>11. Underway' \subseteq Underway
  BY <1>1, <1>2 DEF Underway
<1> QED BY <1>1, <1>2, <1>7, <1>8, <1>9, <1>10, <1>11, NoMoreUnderway

LEMMA ConfigProwlarrStep ==
  ASSUME ConfigInv, NEW a \in C!Actor, C!ApplyProwlarr(a) PROVE ConfigInv'
<1> USE DEF ConfigInv
<1>1. /\ UNCHANGED <<stored, copy, missed, tmdb, subtitles, started, torrentSvc, nzbSvc, changed,
                     acquisition, monitors, sweepers, sweeping, saves, rebooted>>
      /\ saving[a] = "prowlarr" /\ saving' = [saving EXCEPT ![a] = "idle"]
      /\ \/ syncs' \in {{}, {<<torrentSvc, nzbSvc>>}}
         \/ syncs' = syncs /\ ~changed
  BY DEF C!ApplyProwlarr, C!Goto, C!savedVars, C!clientVars, C!sourceVars, C!acquisitionVars
<1>2. /\ saving'[a] = "idle" /\ OneApplies'
      /\ \A b \in C!Actor \ {a} : saving'[b] = saving[b] /\ saving[b] \notin C!Applying
  BY <1>1, OnlyOneMoves DEF C!Applying
<1>3. ConfigTypes'
  <2>1. prowlarrOn' \in BOOLEAN
    BY DEF C!ApplyProwlarr
  <2> QED BY <1>1, <2>1 DEF ConfigTypes, C!Applying
<1>4. ClientsAre(copy[a]) /\ SourcesAre(copy[a])
  BY <1>1 DEF AppliesInOrder
<1>5. AppliesInOrder' /\ StoredIsApplied'
  BY <1>1, <1>2, <1>4 DEF AppliesInOrder, StoredIsApplied, ClientsAre, SourcesAre, C!Applying
<1>6. AcquisitionFollows' /\ LoopsFollow'
  BY <1>1, <1>2 DEF AcquisitionFollows, LoopsFollow, UsesSources, Wanted, C!Applying
<1>7. Underway' \subseteq Underway
  BY <1>1, <1>2 DEF Underway
<1> QED BY <1>1, <1>2, <1>3, <1>5, <1>6, <1>7, NoMoreUnderway

LEMMA ConfigInvStep == ConfigInv /\ [C!Next]_(C!vars) => ConfigInv'
BY ConfigSaveStep, ConfigReadStep, ConfigClientsStep, ConfigSourcesStep, ConfigAcquisitionStep,
   ConfigProwlarrStep, ConfigOtherStep, ConfigRestartStep
DEF C!Next, C!Reconfigure

\* Once what was stored has been applied, the server runs what the settings ask
\* for and nothing of an earlier configuration, for any number of saves at one
\* time, failed steps and a restart (httpapi/server.go).
THEOREM RunsAsConfiguredHolds == Spec => []RunsAsConfigured
<1>1. ConfigInv => RunsAsConfigured
  <2> SUFFICES ASSUME ConfigInv, C!Settled PROVE RunsAsConfigured
    BY DEF RunsAsConfigured, C!RunsAsConfigured
  <2>1. ~missed /\ \A a \in C!Actor : saving[a] \notin C!Applying \cup {"stored"}
    BY DEF C!Settled
  <2>2. ClientsAre(stored) /\ SourcesAre(stored)
    BY <2>1 DEF ConfigInv, StoredIsApplied
  <2>3. /\ monitors = {acquisition} \ {C!NoAcquisition}
        /\ acquisition # C!NoAcquisition => UsesSources
        /\ acquisition # C!NoAcquisition <=> Wanted
    BY <2>1 DEF ConfigInv, AcquisitionFollows, C!Applying
  <2>4. sweepers = {nzbSvc} \ {0} /\ syncs \subseteq {<<torrentSvc, nzbSvc>>}
    BY <2>1 DEF ConfigInv, LoopsFollow, C!Applying
  <2> QED BY <2>2, <2>3, <2>4
          DEF RunsAsConfigured, C!RunsAsConfigured, ClientsAre, SourcesAre, UsesSources, Wanted
<1> QED BY <1>1, ConfigInvInit, ConfigInvStep, ConfigRuns, PTL DEF C!Spec

-----------------------------------------------------------------------------
(* Acquisition, with passes of the monitor that overlap on one item.       *)

\* What AcquisitionProofs proves of the attempts.
AP == INSTANCE AcquisitionProofs WITH
  Attempt <- Pass, Debrid <- DebridItem, Nzb <- Download,
  Accounts <- PassAccounts, RaceSize <- PassRace,
  Sources <- {Source}, Callers <- {"soft", "upgrade"}, Events <- {"timeout", "scan"},
  status <- acquired, path <- linked, job <- fetch, left <- rounds

LEMMA OverlapConstants == AP!AcquisitionAssumption /\ AP!OneSource /\ AP!OnlyHygiene
BY ServicesAssumption
DEF AP!AcquisitionAssumption, AP!OneSource, AP!OnlyHygiene, AP!Candidate, AP!Tier, AP!Caller,
    AP!Event, A!Tier, A!Caller

LEMMA OverlapCardinality == \A S : A!Cardinality(S) = AP!Cardinality(S)
BY DEF A!Cardinality, AP!Cardinality, A!IsFiniteSet, AP!IsFiniteSet

LEMMA OverlapBegin == \A a \in Pass : A!Begin(a) => AP!Begin(a)
BY DEF A!Begin, AP!Begin, A!BeginAcquire, AP!BeginAcquire, A!BeginReacquire, AP!BeginReacquire,
    A!BeginSoft, AP!BeginSoft, A!BeginUpgrade, AP!BeginUpgrade, A!Enter, AP!Enter, A!Free,
    AP!Free, A!MonitorBusy, AP!MonitorBusy, A!SyncPc, AP!SyncPc, A!FastPc, AP!FastPc,
    A!UpgradePc, AP!UpgradePc, A!Tier, AP!Tier, A!item, AP!item, A!rows, AP!rows, A!InFlight,
    AP!InFlight

LEMMA OverlapCall == \A a \in Pass :
  A!Call(a) \/ A!FastTimeout(a) => AP!Call(a) \/ AP!FastTimeout(a)
BY DEF A!Call, AP!Call, A!FastStart, AP!FastStart, A!FastReset, AP!FastReset, A!FastAdd,
    AP!FastAdd, A!FastAddFails, AP!FastAddFails, A!FastPoll, AP!FastPoll, A!FastCheck,
    AP!FastCheck, A!FastTimeout, AP!FastTimeout, A!KnownHash, AP!KnownHash, A!StartCheck,
    AP!StartCheck, A!SetSearching, AP!SetSearching, A!WebDAVHit, AP!WebDAVHit, A!Launch,
    AP!Launch, A!LaunchFails, AP!LaunchFails, A!RunWon, AP!RunWon, A!RunLost, AP!RunLost,
    A!Fail, AP!Fail, A!Upgrade, AP!Upgrade, A!UpgradeRace, AP!UpgradeRace, A!UpgradeSkip,
    AP!UpgradeSkip, A!UpgradeWon, AP!UpgradeWon, A!UpgradeRevert, AP!UpgradeRevert, A!Rounds,
    AP!Rounds, A!Create, AP!Create, A!Tier, AP!Tier, A!item, AP!item, A!rows, AP!rows,
    A!InFlight, AP!InFlight, A!Goto, AP!Goto, A!Return, AP!Return, A!Over, AP!Over

LEMMA OverlapTier == \A a \in Pass, t \in A!Tier :
  A!TierStep(a, t) \/ A!RaceTimeout(a, t) => AP!TierStep(a, t) \/ AP!RaceTimeout(a, t)
<1>1. \A a \in Pass, t \in A!Tier, c \in A!Candidate :
        A!LaunchCandidate(a, t, c) => AP!LaunchCandidate(a, t, c)
  BY OverlapCardinality
  DEF A!LaunchCandidate, AP!LaunchCandidate, A!Of, AP!Of, A!Create, AP!Create, A!item, AP!item
<1> QED
  BY <1>1
  DEF A!TierStep, AP!TierStep, A!SearchFails, AP!SearchFails, A!Search, AP!Search, A!NextRound,
    AP!NextRound, A!ResetClaim, AP!ResetClaim, A!SetAcquiring, AP!SetAcquiring, A!LaunchOver,
    AP!LaunchOver, A!Poll, AP!Poll, A!Check, AP!Check, A!AllDone, AP!AllDone, A!RaceTimeout,
    AP!RaceTimeout, A!Candidate, AP!Candidate, A!Rounds, AP!Rounds, A!Tier, AP!Tier, A!Of,
    AP!Of, A!item, AP!item, A!rows, AP!rows, A!work, AP!work, A!GotoTier, AP!GotoTier,
    A!EndTier, AP!EndTier

LEMMA OverlapCandidate == \A c \in A!Candidate :
  A!Resolve(c) \/ A!Promote(c) => AP!Resolve(c) \/ AP!Promote(c)
BY DEF A!Resolve, AP!Resolve, A!Resolved, AP!Resolved, A!ResolveFails, AP!ResolveFails, A!Promote,
    AP!Promote, A!Reject, AP!Reject, A!Claim, AP!Claim, A!TierOf, AP!TierOf, A!Used, AP!Used,
    A!SetPath, AP!SetPath, A!SetPathFails, AP!SetPathFails, A!Mark, AP!Mark, A!Delete,
    AP!Delete, A!Finish, AP!Finish, A!item, AP!item, A!rows, AP!rows, A!work, AP!work,
    A!Candidate, AP!Candidate

LEMMA OverlapNext == A!Next => AP!Next
BY OverlapBegin, OverlapCall, OverlapTier, OverlapCandidate
DEF A!Next, AP!Next, A!Scan, AP!Scan, A!Restart, AP!Restart, A!item, AP!item, A!rows, AP!rows,
    A!work, AP!work, A!Tier, AP!Tier, A!Candidate, AP!Candidate, A!Free, AP!Free, A!InFlight,
    AP!InFlight, A!Of, AP!Of

LEMMA OverlapRuns == Spec => A!Init /\ [][A!Next]_(A!vars)
<1>1. Init => A!Init
  BY DEF Init
<1>2. [Next]_vars => [A!Next]_(A!vars)
  BY DEF Next, OthersStay, vars, overlapVars, A!vars
<1> QED BY <1>1, <1>2, PTL DEF Spec

\* However many passes of the monitor overlap on an item, with however many
\* candidates and accounts, it neither hangs in flight nor leaves the library.
THEOREM OverlapKeepsItemHolds == Spec => []OverlapKeepsItem
<1>1. A!Init => AP!Init
  BY DEF A!Init, AP!Init, A!Tier, AP!Tier, A!Candidate, AP!Candidate
<1>2. [A!Next]_(A!vars) => [AP!Next]_(AP!vars)
  BY OverlapNext DEF A!vars, AP!vars
<1>3. AP!Init => AP!TypeOK /\ AP!WorkedInv /\ AP!HygieneInv
  BY OverlapConstants, AP!InitType, AP!WorkedInvUse, AP!HygieneInvUse
<1>4. AP!TypeOK /\ AP!WorkedInv /\ AP!HygieneInv /\ [AP!Next]_(AP!vars) =>
        (AP!TypeOK /\ AP!WorkedInv /\ AP!HygieneInv)'
  BY OverlapConstants, AP!StepType, AP!WorkedInvStep, AP!HygieneInvStep
<1>5. AP!TypeOK /\ AP!WorkedInv /\ AP!HygieneInv => OverlapKeepsItem
  <2>1. AP!TypeOK /\ AP!WorkedInv /\ AP!HygieneInv => AP!InFlightIsWorked /\ AP!HygieneNeverDemotes
    BY OverlapConstants, AP!WorkedInvUse, AP!HygieneInvUse
  <2> QED
    BY <2>1
    DEF OverlapKeepsItem, A!InFlightIsWorked, AP!InFlightIsWorked, A!HygieneNeverDemotes,
        AP!HygieneNeverDemotes, A!Free, AP!Free, A!InFlight, AP!InFlight, A!Tier, AP!Tier
<1> QED BY <1>1, <1>2, <1>3, <1>4, <1>5, OverlapRuns, PTL

-----------------------------------------------------------------------------
(* Candidates.                                                             *)

\* What CandidatesProofs proves of the choice of releases.
KP == INSTANCE CandidatesProofs
  WITH now <- clock, at <- trying, found <- offers, todo <- unlaunched

LEMMA RaceConstants == KP!ConstantsOK
BY ServicesAssumption
DEF ServicesAssumption, KP!ConstantsOK, K!ConstantsOK, KP!Attempt, K!Attempt, KP!Release,
    K!Release, KP!IsFiniteSet, K!IsFiniteSet

LEMMA RaceCardinality == \A S : K!Cardinality(S) = KP!Cardinality(S)
BY DEF K!Cardinality, KP!Cardinality, K!IsFiniteSet, KP!IsFiniteSet

LEMMA RaceNth == \A n, S, R : K!Nth(n, S, R) = KP!Nth(n, S, R)
BY DEF K!Nth, KP!Nth, K!Earlier, KP!Earlier, K!Cardinality, KP!Cardinality, K!IsFiniteSet,
    KP!IsFiniteSet

LEMMA RaceArranged == \A cs, S, R : K!Arranged(cs, S, R) = KP!Arranged(cs, S, R)
BY RaceCardinality, RaceNth DEF K!Arranged, KP!Arranged

LEMMA RaceKept == \A cs, S : K!Kept(cs, S) = KP!Kept(cs, S)
BY RaceArranged DEF K!Kept, KP!Kept

LEMMA RaceRank == \A a, cs : K!Rank(a, cs) = KP!Rank(a, cs)
BY RaceArranged
DEF K!Rank, KP!Rank, K!ByScore, KP!ByScore, K!Score, KP!Score, K!Accepted, KP!Accepted, K!Least,
    KP!Least

LEMMA RaceDedupe == \A cs : K!Dedupe(cs) = KP!Dedupe(cs)
BY RaceKept DEF K!Dedupe, KP!Dedupe

LEMMA RaceTrim == \A cs, n : K!Trim(cs, n) = KP!Trim(cs, n)
BY DEF K!Trim, KP!Trim, K!Least, KP!Least

LEMMA RaceCachedFirst == \A cs, cached : K!CachedFirst(cs, cached) = KP!CachedFirst(cs, cached)
BY RaceArranged DEF K!CachedFirst, KP!CachedFirst, K!ByCached, KP!ByCached

LEMMA RaceMerged == \A a, answer, turn : K!Merged(a, answer, turn) = KP!Merged(a, answer, turn)
BY RaceArranged DEF K!Merged, KP!Merged, K!Listed, KP!Listed, K!ByTurn, KP!ByTurn

LEMMA RaceResults == \A a, asked : K!Results(a, asked) = KP!Results(a, asked)
BY RaceMerged, RaceCardinality
DEF K!Results, KP!Results, K!Injection, KP!Injection, K!IsInjective, KP!IsInjective

LEMMA RaceSearch == \A a \in K!Attempt :
  K!SearchTorrents(a) \/ K!SearchNzbs(a) \/ K!SearchFails(a) =>
    KP!SearchTorrents(a) \/ KP!SearchNzbs(a) \/ KP!SearchFails(a)
BY RaceResults, RaceRank, RaceDedupe, RaceTrim
DEF K!SearchTorrents, KP!SearchTorrents, K!SearchNzbs, KP!SearchNzbs, K!SearchFails,
    KP!SearchFails, K!Finds, KP!Finds, K!Over, KP!Over, K!SearchByText, KP!SearchByText,
    K!SearchByIMDb, KP!SearchByIMDb

LEMMA RaceTorrents == \A a \in K!Attempt :
  K!CheckTorrents(a) \/ K!RaceLost(a) \/ K!TorrentsOver(a) =>
    KP!CheckTorrents(a) \/ KP!RaceLost(a) \/ KP!TorrentsOver(a)
BY RaceCachedFirst, RaceTrim
DEF K!CheckTorrents, KP!CheckTorrents, K!RaceLost, KP!RaceLost, K!TorrentsOver, KP!TorrentsOver,
    K!Over, KP!Over, K!Hashed, KP!Hashed, K!ToSet, KP!ToSet

LEMMA RaceAsks == \A a \in K!Attempt :
  K!ReadAvail(a) \/ K!NoServer(a) \/ K!AskBatch(a) =>
    KP!ReadAvail(a) \/ KP!NoServer(a) \/ KP!AskBatch(a)
<1> SUFFICES ASSUME NEW a \in K!Attempt
             PROVE  /\ K!ReadAvail(a) => KP!ReadAvail(a)
                    /\ K!NoServer(a) => KP!NoServer(a)
                    /\ K!AskBatch(a) => KP!AskBatch(a)
  OBVIOUS
<1>1. K!ReadAvail(a) => KP!ReadAvail(a)
  BY RaceKept DEF K!ReadAvail, KP!ReadAvail, K!ToSet, KP!ToSet
<1>2. K!NoServer(a) => KP!NoServer(a)
  BY DEF K!NoServer, KP!NoServer
<1>3. K!AskBatch(a) => KP!AskBatch(a)
  <2>1. \A batch, cached : K!Remember(a, batch, cached) = KP!Remember(a, batch, cached)
    BY DEF K!Remember, KP!Remember
  <2>2. \A cs : K!ToSet(cs) = KP!ToSet(cs)
    BY DEF K!ToSet, KP!ToSet
  <2>3. K!Trim(missing[a], BatchSize) = KP!Trim(missing[a], BatchSize)
    BY RaceTrim
  <2> DEFINE batch == K!ToSet(K!Trim(missing[a], BatchSize))
             kept == {n \in DOMAIN missing[a] : missing[a][n] \notin batch}
  <2>4. batch = KP!ToSet(KP!Trim(missing[a], BatchSize))
    BY <2>2, <2>3
  <2>5. K!Kept(missing[a], kept) = KP!Kept(missing[a], kept)
    BY RaceKept
  <2> QED
    BY <2>1, <2>4, <2>5
    DEF K!AskBatch, KP!AskBatch, K!CheckCachedUsenet, KP!CheckCachedUsenet
<1> QED BY <1>1, <1>2, <1>3

LEMMA RaceLaunches == \A a \in K!Attempt :
  K!Prioritize(a) \/ K!Launch(a) \/ K!Fetched(a) \/ K!Launched(a) =>
    KP!Prioritize(a) \/ KP!Launch(a) \/ KP!Fetched(a) \/ KP!Launched(a)
<1>1. \A cache : K!Evicted(cache) = KP!Evicted(cache)
  BY RaceCardinality DEF K!Evicted, KP!Evicted, K!Restrict, KP!Restrict
<1> QED
  BY <1>1, RaceCachedFirst, RaceTrim
  DEF K!Prioritize, KP!Prioritize, K!Launch, KP!Launch, K!Fetched, KP!Fetched, K!Launched,
      KP!Launched, K!Over, KP!Over, K!IsURLFailed, KP!IsURLFailed, K!RecordURLFailure,
      KP!RecordURLFailure

LEMMA CandidatesRun == Spec => KP!Spec
<1>1. Init => KP!Init
  BY DEF Init, K!Init, KP!Init, K!Attempt, KP!Attempt
<1>2. K!Next => KP!Next
  BY RaceSearch, RaceTorrents, RaceAsks, RaceLaunches
  DEF K!Next, KP!Next, K!Tick, KP!Tick, K!Attempt, KP!Attempt
<1>3. [Next]_vars => [KP!Next]_(KP!vars)
  BY <1>2 DEF Next, OthersStay, vars, candidateVars, KP!vars
<1> QED BY <1>1, <1>3, PTL DEF Spec, KP!Spec

\* A release is left out of a race only for one at least as good, and a failed
\* URL is forgotten only for FailSize later ones, for any indexers and offers
\* and any number of attempts (acquisition/service.go, nzb/service.go).
THEOREM RacesAreSoundHolds == Spec => []RacesAreSound
<1>1. KP!Spec => []KP!BestAreRaced /\ []KP!FailedIsRemembered
  BY RaceConstants, KP!BestRaced, KP!Remembered, PTL
<1>2. KP!BestAreRaced => K!BestAreRaced
  BY DEF KP!BestAreRaced, K!BestAreRaced, KP!Attempt, K!Attempt, KP!ToSet, K!ToSet, KP!Score,
     K!Score, KP!Least, K!Least, KP!Accepted, K!Accepted, KP!Cardinality, K!Cardinality,
     KP!IsFiniteSet, K!IsFiniteSet
<1>3. KP!FailedIsRemembered => K!FailedIsRemembered
  BY RaceCardinality DEF KP!FailedIsRemembered, K!FailedIsRemembered
<1> QED BY <1>1, <1>2, <1>3, CandidatesRun, PTL DEF RacesAreSound

-----------------------------------------------------------------------------
(* The types of all.                                                       *)

LEMMA PlayTypes == Spec => []P!TypeOK
<1>1. PlayInv => P!TypeOK
  BY DEF PlayInv
<1> QED BY <1>1, PlayInvInit, PlayInvStep, PlayRuns, PTL DEF P!Spec

LEMMA CandidateTypes == Spec => []K!TypeOK
<1>1. KP!Spec => []KP!TypeOK
  BY RaceConstants, KP!TypesHold
<1>2. KP!TypeOK => K!TypeOK
  BY RaceCardinality
  DEF KP!TypeOK, K!TypeOK, KP!Attempt, K!Attempt, KP!Place, K!Place, KP!Release, K!Release,
      KP!ToSet, K!ToSet
<1> QED BY <1>1, <1>2, CandidatesRun, PTL

LEMMA LimiterTypes == Spec => []L!TypeOK
<1>1. LP!ConstantsOK
  BY ServicesAssumption DEF L!ConstantsOK, LP!ConstantsOK
<1>2. LP!Spec => []LP!TypeOK
  BY <1>1, LP!LimiterType
<1>3. L!Spec => LP!Spec
  BY PTL DEF L!Spec, LP!Spec, L!Init, LP!Init, L!Next, LP!Next, L!vars, LP!vars,
     L!Reserve, LP!Reserve, L!Grant, LP!Grant, L!Cancel, LP!Cancel, L!Tick, LP!Tick, L!Later,
     LP!Later
<1>4. LP!TypeOK => L!TypeOK
  BY DEF L!TypeOK, LP!TypeOK
<1> QED BY <1>2, <1>3, <1>4, LimiterRuns, PTL

LEMMA MetadataTypes == Spec => []M!TypeOK
<1>1. MetadataInv => M!TypeOK
  BY DEF MetadataInv
<1> QED BY <1>1, MetadataInvInit, MetadataInvStep, MetadataRuns, PTL DEF M!Spec

LEMMA ConfigTypesHold == Spec => []C!TypeOK
<1>1. ConfigInv => C!TypeOK
  <2> SUFFICES ASSUME ConfigInv PROVE C!TypeOK
    OBVIOUS
  <2>1. started \in 0..(MaxSaves + 1)
    BY UnderwayCounts, ConfigConstants DEF ConfigInv, ConfigTypes
  <2>2. sweepers \cup sweeping \subseteq 1..started
    BY DEF ConfigInv, ConfigTypes, LoopsFollow
  <2>3. DOMAIN stored = C!Field
    BY DEF ConfigInv, ConfigTypes, Settings
  <2> QED BY <2>1, <2>2, <2>3 DEF ConfigInv, ConfigTypes, C!TypeOK
<1> QED BY <1>1, ConfigInvInit, ConfigInvStep, ConfigRuns, PTL DEF C!Spec

LEMMA IndexerTypesHold == Spec => []I!TypeOK
<1>1. IndexerInv => I!TypeOK
  <2> SUFFICES ASSUME IndexerInv PROVE I!TypeOK
    OBVIOUS
  <2>1. \A row \in IndexerRow :
          row = [I!NewRow(row) EXCEPT !.enabled = row.enabled, !.reason = row.reason]
    <3> SUFFICES ASSUME NEW row \in IndexerRow
                 PROVE  row = [I!NewRow(row) EXCEPT !.enabled = row.enabled, !.reason = row.reason]
      OBVIOUS
    <3> DEFINE new == I!NewRow(row)
               set == [new EXCEPT !.enabled = row.enabled, !.reason = row.reason]
    <3>1. /\ new \in IndexerRow
          /\ new.kind = row.kind /\ new.name = row.name /\ new.site = row.site
      BY DEF IndexerRow, I!NewRow, Switches
    <3> HIDE DEF new
    <3>2. /\ set \in IndexerRow
          /\ set.kind = new.kind /\ set.name = new.name /\ set.site = new.site
          /\ set.enabled = row.enabled /\ set.reason = row.reason
      BY <3>1 DEF IndexerRow
    <3> HIDE DEF set
    <3>3. \A p, q \in IndexerRow :
            /\ p.kind = q.kind /\ p.name = q.name /\ p.site = q.site
            /\ p.enabled = q.enabled /\ p.reason = q.reason
            => p = q
      BY DEF IndexerRow
    <3>4. row = set
      BY <3>1, <3>2, <3>3
    <3> QED BY <3>4 DEF set, new
  <2>2. \A r \in I!Rows : indexers[r] \in IndexerRow
    BY DEF IndexerInv, IndexerTypes, I!Rows
  <2>3. \A a \in I!Agent : write[a].id \in Row \cup {0}
    BY DEF IndexerInv, IndexerTypes
  <2> QED BY <2>1, <2>2, <2>3 DEF IndexerInv, IndexerTypes, I!TypeOK
<1> QED BY <1>1, IndexerInvInit, IndexerInvStep, IndexersRun, PTL DEF I!Spec

LEMMA OverlapTypes == Spec => []A!TypeOK
<1>1. A!Init => AP!Init
  BY DEF A!Init, AP!Init, A!Tier, AP!Tier, A!Candidate, AP!Candidate
<1>2. [A!Next]_(A!vars) => [AP!Next]_(AP!vars)
  BY OverlapNext DEF A!vars, AP!vars
<1>3. AP!Init => AP!TypeOK
  BY OverlapConstants, AP!InitType
<1>4. AP!TypeOK /\ [AP!Next]_(AP!vars) => AP!TypeOK'
  BY OverlapConstants, AP!StepType
<1>5. AP!TypeOK => A!TypeOK
  BY DEF AP!TypeOK, A!TypeOK, AP!Status, A!Status, AP!InFlight, A!InFlight, AP!Link, A!Link,
     AP!Candidate, A!Candidate, AP!Tier, A!Tier, AP!Of, A!Of, AP!Job, A!Job, AP!Pc, A!Pc,
     AP!Caller, A!Caller, AP!TierPc, A!TierPc, AP!SyncPc, A!SyncPc, AP!FastPc, A!FastPc,
     AP!UpgradePc, A!UpgradePc, AP!Over, A!Over, AP!Racing, A!Racing
<1> QED BY <1>1, <1>2, <1>3, <1>4, <1>5, OverlapRuns, PTL

\* Every variable of every component has its type, whichever runs and for any
\* constants.
THEOREM ServiceTypesHold == Spec => []ServiceTypes
BY PlayTypes, CandidateTypes, LimiterTypes, MetadataTypes, ConfigTypesHold, IndexerTypesHold,
   OverlapTypes, PTL DEF ServiceTypes
=============================================================================
