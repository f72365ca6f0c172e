# A TLA+ model of the Vorn media server

Vorn (`src/backend`, Go) keeps a catalogue of movies, series and music in
Postgres, plays them, and fetches what is missing: a title somebody wants is
searched for on torrent and usenet indexers, the best releases are resolved at a
debrid provider or at TorBox, and the first one that works becomes the link the
item plays. Almost everything interesting happens in goroutines that take no
common lock and meet only in database rows, one SQL statement at a time. That is
what the modules here model: the statements are the steps, and the interleaving
of the goroutines is the subject.

    tlc -workers 2 -config scan.cfg MCLibraryScan  # model-check one run
    tlapm DirWalkProofs.tla                        # check the proofs of a module

## Inventory

Paths are relative to `src/backend/internal`. "State" is what outlives a call.

| Component | State | Operations | Hard behaviour | What makes it correct |
|---|---|---|---|---|
| Acquisition attempts: `acquisition/service.go`, `monitor.go` | `media_items`: `acquisition_status`, `path`, `active_debrid_item_id`, `active_nzb_download_id` | `Acquire`, `Reacquire`, `ReacquireSoftFail`, `checkUpgrade`, the races of each tier, `ResetStuckAcquisitions` | several attempts on one row, candidates that race for a claim, late losers, deadlines, restarts | owned means playable; one winner for a race; the played download is never deleted; nothing stays in flight |
| Debrid resolves and providers: `debrid/service.go`, `promote.go`, `torbox.go`, `realdebrid.go`, `alldebrid.go`, `premiumize.go`, `debridlink.go` | `debrid_items`, the torrents on the account | `AddLink`, `run`, `PromoteToExistingItem`, `Remove`, each provider's add, select, poll and unlock | outlive the race that launched them; every call may fail; polling against a deadline; slots of the account | a loser is deleted, a winner is not; a row leaves `resolving`; a link is of something cached |
| Release choice: `acquisition/service.go`, `quality.go`, `nzb/service.go`, both `search.go` | the caches of availability and of failed URLs | search, dedupe, rank, check what is cached, trim to a race, record a failure | caches shared by all attempts, with expiry and a size limit | the best releases there are get raced; a URL that failed is not raced again soon |
| Playback decision: `httpapi/stream.go`, `transcode/decision.go` | none of its own; the item's row | `handlePlayItem`, `handleAcquiringPlay`, `Decide` | the row and the link change during the probe | a play of an item that can be searched for again is no dead end |
| NZB downloads and TorBox sync: `nzb/service.go`, `torbox.go`, `promote.go` | `nzb_downloads`, `nzb_files`, the TorBox account, `syncRunning` | `AddNZB(ForItem)`, `run`, `catchUpDownload`, `syncFromTorBox`, `importOrphanedDownload`, `Remove` | a goroutine per row and a periodic sweep with an old listing complete the same rows; the account changes underneath; crashes between statements | nothing foreign or played is deleted; what completes is recorded; progress ends |
| Directory walk: `scanner/walker.go` | `dirQueue` (mutex, condition variable, pending count) | `push`, `popOrWait`, `finish`, `WalkConcurrent` | termination detection with workers that both produce and consume | returns, and only when all was read, each file emitted once |
| Library scan jobs: `scanner/service.go`, `queue.go`, `promote.go`, `store/scan.go` | `scan_jobs`, `scan_files`, `media_items`, staging keys in DragonflyDB | `StartLibraryScan`, `run`, `flushBatch`, `promoteScanFiles`, `StartSyntheticScan`, `FlushStaging` | discovery runs against batched flushes; files are between two stores; any call may fail; restarts | what is found is stored, repeated scans converge, the scan ends |
| Season packs: `acquisition/service.go`, both `promote.go` | claims on the season row and on its episodes | `AcquireSeasonPack`, `PromoteSeasonPackToExistingItems` | a late pack against the single-episode fallback | one link per episode, none of them deleted |
| Requests and placeholders: `MaterializePlaceholder`, `FulfillRequest`, `httpapi/content_requests.go` | `content_requests`, fulfilments, placeholders | create, decide, withdraw, fulfil | find-then-create without a unique index, decisions taken twice | one placeholder per title, one fulfilment per library |
| Transcode sessions: `transcode/session.go`, `httpapi/stream.go` | session map, semaphore, ffmpeg, output directories | `StartSession`, `run`, `Stop`, `ClearFinished`, `waitForSessionFile` | Stop against the writer and the readers, waiting for a slot | slots are given back, nobody waits for a dead session |
| Metadata sync: `metadata/sync.go`, `scheduler.go` | sync jobs, `metadata_locked`, matches | `StartLibrarySync`, manual match | overlapping syncs against an admin's lock | a manual match stays |
| Server configuration: `httpapi/server.go`, `admin_integration_settings.go` | the settings row, services behind atomic pointers, cancel functions of their loops | save, `reconfigure`, `NewServer`, `Close` | two saves at once, a step that fails, old services next to new ones | what runs is what the settings say; no loop of an earlier service goes on |
| Indexers: `prowlarr/sync.go`, `httpapi/indexer_sweep.go`, `store/torrent_indexers.go`, `store/nzb.go` | both indexer tables | create, update, delete, Prowlarr's mirror, the capability sweep | read-modify-write of whole rows, a loop that was cancelled but goes on | an indexer is mirrored once |
| Rate limiter: `debrid/limiter.go` | next slot | `Wait` | waiters that are cancelled | at most so many per minute |

Everything else is request handling over single statements, HTTP clients, parsing
or user interface; `PROJECT.json` lists it with the reason it is left out.

How they interact: the HTTP handlers and the monitor call `acquisition`, which
searches through `torrent` and `nzb` and launches resolves in `debrid` and `nzb`.
Those run on their own and report back by writing to the item's row
(`ClaimMediaItemFor...`, `SetMediaItemPath`); an attempt learns how its race went
by polling the rows. The sweep of `nzb` completes rows on its own account. A
library scan writes to the same item rows when it finds a file of that title.
`scanner` discovers files with `WalkConcurrent` and the WebDAV client and turns
them into items.

## Modules

| Module | Models | Used by |
|---|---|---|
| `Acquisition` | one movie or episode, all attempts on it and the resolves they launch | `MCAcquisition`, `Services`, `AcquisitionProofs` |
| `ItemPromise` | abstract: what a viewer may count on from one item | refined by `Acquisition`, and by `SeasonPack` for each episode (`Progress`) |
| `NzbSync` | the usenet table, its goroutines and the sweep against the TorBox account | `MCNzbSync`, `NzbSyncProofs` |
| `DebridResolve` | a resolve at each of the five providers, and an admin's `Remove` | `Progress` |
| `Candidates` | which releases an attempt races, and the caches that decide it | `Services`, `CandidatesProofs` |
| `SeasonPack` | packs against the single episodes of a season | `Progress` |
| `Requests` | content requests, the browse page and their fulfilment | `Progress` |
| `PlayItem` | the play handler over a row and a link that change | `Services` |
| `TranscodeSessions` | the queue of ffmpeg sessions and the readers of their output | `Progress` |
| `MetadataSync` | overlapping metadata jobs and an admin's corrections | `Services` |
| `ServerConfig` | saving settings and `reconfigure` | `MCServerConfig`, `Services` |
| `Indexers` | the indexers' rows and all who write them | `Services` |
| `RateLimiter` | `Limiter.Wait` | `Services`, `RateLimiterProofs` |
| `DirWalk` | `WalkConcurrent` and its queue | `MCDirWalk`, `Progress`, `DirWalkProofs` |
| `WalkPromise` | abstract: what a walk promises its caller | refined by `DirWalk` |
| `LibraryScan` | the scan jobs of one library | `MCLibraryScan`, `LibraryScanProofs` |
| `Progress` | `DirWalk`, `DebridResolve`, `SeasonPack`, `Requests` and `TranscodeSessions`, one of which runs | `MCProgress`, `ProgressProofs` |
| `Services` | `PlayItem`, `Candidates`, `RateLimiter`, `MetadataSync`, `ServerConfig`, `Indexers` and overlapping attempts of `Acquisition`, one of which runs | `MCServices`, `ServicesProofs` |

`Progress` and `Services` put several components into one specification each: those
that owe somebody an end, with the fairness that takes, and those of which only safety
is asked. The components share no variable, so a product would only multiply their
states; instead `part` says which one runs, and the behaviours of the module are
those of each component. `Init` chooses the part together with that component's
initial states, and fairness is stated of the component that runs. A liveness
property of a component is stated of the behaviours in which it runs
(`part = "resolve" => ...`), since one that does not run takes no step. Sessions are
interchangeable in `TranscodeSessions`, and episodes in `SeasonPack`, so `SessionsEnd`
and `PendingIsTried` ask about one of the two. TLC names the actions of these runs by
their next-state relation only; its counts by line show that every action of every
component in them is taken. Both are parameterised as their components are, and the
proofs are about them; `MCProgress` and `MCServices` only give the parameters values.

How the modules stand to one another: `Acquisition` takes what `Candidates` chooses
as any set of candidates, and what `DebridResolve` does as an outcome;
`SeasonPack`, `Requests` and `PlayItem` take an attempt of `Acquisition` as an
outcome in turn. Where a module abstracts another that way, every outcome the
detailed one has is among those the abstract one chooses from.

The `MC` modules give constants their values; the `Proofs` modules hold the
theorems. An operator under the comment "Mutant:" is a form of the definition
after it that a plausible mistake would have; the specifications do not use it.

### Acquisition and ItemPromise

`status`, `path` and `claim` are the item's row. `stat`, `promoted` and `gone` are
the candidates' rows and the provider's account; `job[c]` is where the resolve
goroutine of candidate `c` is. `pc` and `tier` are where an attempt's caller
(`runAcquire`, `checkUpgrade`, the fast path) and its two tier goroutines are,
`left` the accounts a tier still has to try, `launched` what its current races
launched. Attempts and candidates are slots that bound how often the code can be
called. One action is one statement, or one read of a row on which the code
decides. A search returns any candidates; whether a resolve succeeds is open.

Callers: `acquire` (a play click on an item without a file, the monitor's sweep
over placeholders, the catalogue, a fulfilled request), `reacquire` (a dead link
found at play), `soft` (the monitor's dead-link pass, which writes `owned` back
when it fails) and `upgrade` (`checkUpgrade`). `Events` switches on what the
environment may do: deadlines pass, `SetMediaItemPath` fails, the process
restarts, a scan promotes a file onto the row, a WebDAV link is known already,
the fast path finds a hash to resolve again.

`ItemPromise` has only `status`, `path` and `gone`: a link stays until another is
delivered, `owned` is only said of an item with a link, and neither the link being
played nor one delivered later is ever thrown away. `Acquisition` refines it under
the identity mapping. `SeasonPack` refines it once for each episode (`E(e)` of
`Progress`), whose candidates are the packs and what its own attempts deliver, and whose
`gone` are the packs deleted.

### NzbSync

Each row an admin or an attempt adds (`Own`) has a goroutine that submits it to
TorBox, records TorBox's id and looks at it once, half a second later
(`tryImmediateCompletion`). `Sweep` is the goroutine of `StartBackgroundSync`: it
lists the account (active, then queued downloads), then the table, and works
through what it saw (`listed`, `local` and `was` are those copies). Both complete
a row by `catchUpDownload`: list the recorded files, add them, claim the item, set
its path, mark the row, or drop the download when the claim was lost. TorBox is
the environment: downloads are queued, become active, are done, fail, are refused
as duplicates or expire, and somebody may add one on TorBox's own dashboard
(`Foreign`), which the sweep imports (`Import` bounds how often). `LookStray` is the
look that does not find its download in the list: `UsenetInfo` answers with the first
entry instead, whose files are recorded for the row and promoted.

Assumptions: a download has at least one file, and one stands for all; `files` counts
the row's own, and those of a stray download have other names. A download
TorBox has not cached is not done within the half second before the look for it;
`Cached` names those for which it is otherwise.

### DirWalk and WalkPromise

The queue at the granularity of its mutex. `push` is two steps, because `Signal`
comes after the unlock; `cond.Wait` is `Sleep`, which leaves the mutex and waits
in one step. `Main` pushes the roots when the workers run already. A directory has
one media file. `WalkPromise` has two actions, emit a file not yet emitted, and
return when all were.

### LibraryScan

A `Finder` is one file found by one walk: it counts it, then pushes it on the
job's staging queue, or misses it. The job's goroutine flushes batches on its
ticker while the finders work, once more when they are done, deletes the staging
key and promotes what is unmatched. A batch that was popped is in no table and no
queue until it is stored (`batch`). `refused` is a history variable: files that
were lost because a call to Postgres or DragonflyDB failed. `Faults` names the calls that may
fail. Restarts leave the job's row and its key behind, as the code does.

### Candidates

One attempt goes from its search to the races it launches; `now` ticks between any
two steps. The torrent tier (`Torrent`) asks the provider about the
`MaxCandidates` best and puts the cached ones first; the NZB tier (`Nzb`) dedupes by
URL and leaves out what failed lately, then asks in batches, by way of
`instantAvailCache`. `avail` and `failed` are those two caches, shared by all
attempts. A release is its URL, seeders, codec and what its title says of the
resolution (`known`, `tier`) and of a remux. `lost` is a history variable: when the last failure
of a URL stops counting. `BestAreRaced` speaks of what the search returned,
not of what an earlier step kept, so it spans all of them. Sorting and filtering are
written by position (`Arranged`: the `i`-th is the element with `i - 1` before it)
instead of with a fold, so that what they return can be proved for every input.

### DebridResolve

`at[r]` is the call of the provider's protocol the goroutine is about to make, or
the statement with which the service records its answer. An answer may be an error
of any kind, and is tolerated or not as each client does it; between two calls the
account changes (`Provide`), the context is cancelled or times out, the admin
removes the row, or the process dies. The statement that finishes the row may fail on
the error path as on the other (`broken`): the row then stays in `resolving`, for
good. `entry[r]` is what is on the account. When TorBox's list does not have the
torrent asked for, `torrentInfo` answers with the first one that it has (`Fallback`):
if that is finished its files are taken, and the resolve goes on at `stray`. TorBox,
Real-Debrid, AllDebrid, Premiumize and Debrid-Link differ in which calls they make,
and one run goes through all five.

### SeasonPack

Each episode has a row and the claims of both tiers; the sweep of the monitor
races packs for a season of which more than one episode is pending and falls back
to acquiring them one by one. A pack resolves at any later time and is promoted
file by file. Single attempts are one step, `Acquisition` has their inside; the
claim they leave behind is kept, because a later pack is refused by it.

### Requests

For one title: creating a request, approving, declining, withdrawing, deleting it,
and the browse page opening the title, by `Handler`s that run at once, as
statements. A `Handler` is also the goroutine an approval starts, which lists the
default targets and calls `MaterializePlaceholder` (find, ask TMDb, insert) on
each; any of these calls may fail. An approval starts none when acquisition is not
configured (`triggerFulfillment`), and its goroutine returns when the list fails:
nothing takes the request up later but another approval. `missed` is a history
variable with the pairs of a request and a library left out that way, or by a call
that failed there, since the last approval. The browse page may open the title in the
libraries `Opened`. There is no unique index on a title's row, so `crowd` records how many looked
at one time: that many rows there may be.

### PlayItem and TranscodeSessions

`PlayItem` follows requests from the read of the row over the probe (during which the
row and the link change) to the answer: stream directly, start a session,
search again, or refuse. `refused[v]` says why the last play was turned down: the
item has nothing to play ("unplayable": 422), the server lacks what it takes
("unavailable", 503: no acquisition service, or no encoder when the file must be
transcoded, `ffmpeg`), or a call failed ("failed": the row or the viewer's access
cannot be read, `Acquire`, `Reacquire` or `StartSession` returns an error). After an
error of `Reacquire` the code answers 422 as well; the model tells it from the file
that nothing could replace. `Decide` is the decision function on what it tells apart
of a file and a client. `Configured`, whether there is an acquisition service, does
not change in the model.

`TranscodeSessions` has the semaphore, each session's goroutine, its ffmpeg process
(external: it writes segments, ends or is killed), the requests that wait for a file
or follow a growing one, `Stop` and the admin's clearing. `os.RemoveAll` is two
steps, since it empties the directory before it removes it, and fails when ffmpeg
adds a file between them.

### MetadataSync

Two jobs and an admin work on the same items: a job lists what needs metadata, then
matches item by item from that list, lists again what needs a cast, and adds both to
its counts. `configured` changes with the settings.

### ServerConfig

A save reads the row and merges, writes and reads back, then calls `reconfigure`,
which reads the row and applies it in four steps (clients, sources, acquisition,
Prowlarr) under its mutex; another save may be anywhere before its own
`reconfigure` meanwhile. Services are numbered as they are started, so that the acquisition
service can be seen to hold an older one; `monitors`, `sweepers` and `syncs` are the
loops nobody cancelled. `Boot` is `NewServer`. `Settled` says when a property
can be asked: nothing stored waits for a `reconfigure`.

### Indexers

`rows` holds both tables, told apart by `kind`. Updates read the row and write
all its columns, so that they can undo one another. A Prowlarr loop lists the names,
tests each missing indexer and inserts it; a cancelled one starts no round and has its
tests fail, but an insert that comes after a test that passed goes through. The
startup sweep tests every enabled row and disables those that say they are unable.

### RateLimiter

`Reserve` is what `Wait` does under the mutex, `Grant` and `Cancel` are how the
wait ends. A timer may fire late.

## Runs

| Run | Expected | Question | Bounds |
|---|---|---|---|
| `acq_race` | pass | One attempt of any kind racing both tiers: is `owned` playable, are links kept, is the promise kept? | one attempt, a debrid and an NZB candidate, every event but a restart |
| `acq_ends` | pass | Does one attempt end, with its resolves, and one candidate win? | one attempt, two candidates, two accounts, deadlines, restarts, failed writes |
| `acq_stranded` | violated | Is an item in flight only while somebody works on it, with both sources? | one attempt, a candidate per tier |
| `nzb_race` | pass | Two cached downloads race, each completed by two goroutines: does the first winner stay? | two downloads, one restart |
| `nzb_orphans` | pass | Is nothing foreign deleted, everything complete recorded, are files recorded once, does progress end? | one own and one foreign download, one restart, three imports |
| `nzb_deleted` | violated | Is the played download kept when its own goroutine and the sweep both complete it? | one cached download |
| `progress` | pass | Does a walk return, and only when all was read? Does an approval reach the last of its targets, are pending episodes tried, do sessions and resolves end? Meanwhile, are there no more rows of a title than lookups at one time, is no file emitted twice, is the promise to each episode kept, no output leaked, no link of something not cached but by TorBox's fallback? | walk: three workers, five directories in three levels, one unreadable; requests: one request, two handlers, two target libraries; the title opened in the first of them, with or without acquisition, any call failing; season: two episodes, a pack of each tier; transcode: two sessions, one slot, one viewer, two segments; resolve: one link at each provider, one slot |
| `walk_roots` | violated | Is a walk of two roots complete? | three workers, two roots |
| `scan` | pass | Is everything staged stored, does a title get one item, are the counts ordered, does a scan end? | two scans in turn, two files of one title, batches of one, any call but `LPOP` failing, one restart |
| `scan_batch` | violated | Is everything staged stored when two walks find the same file? | one scan, three finds, batches of two, no failure |
| `services` | pass | Are plays no dead end, races sound, requests paced, counts ordered, services as configured, indexers mirrored once, and do the monitor's passes, overlapping on one item, always put it back? | play: two viewers; candidates: a torrent attempt, or two NZB attempts with two indexers and four releases; limiter: three calls; metadata: two jobs, a movie and an album; configuration: two admins, two saves, one restart; indexers: two loops, one admin request, three rows; overlap: two attempts, two candidates, one source, deadlines, a scan |
| `config_key` | violated | Does acquisition use the TMDb key that was saved last? | two admins, two saves |

Why the bounds are enough: the races are between two parties for one row (two
candidates for a claim, a goroutine and the sweep for a download, two attempts for
an item), so two of each kind make every conflict happen, and a restart or a
deadline is a step that may come anywhere. Three workers are the fewest for which
one holds a directory, one sleeps and one is between its look at the queue and its
sleep. In `scan` a batch of one makes two files meet the rule that only a full
batch is followed by another; two scans make the second meet what the first left.
One slot makes the second session queue; two segments let a reader see a file
that grows; one active torrent makes an add meet a full account. The caches of
`Candidates` hold one failure and live for one tick, so eviction and expiry both
happen, and four releases on two accounts are more than a race takes. Two saves are
the fewest of which the later can be applied before the earlier. Three calls make
one wait behind another that waits, and two loops with one admin's request are what
it takes for a list of names to be stale.

Deadlock is not checked in `progress`, `walk_roots`, `scan`, `scan_batch`, `services`
and `config_key`: a walk returns, scans and jobs finish, saves are bounded, and then
nothing happens. That nobody waits for ever before that is checked as
`KeepsWalkPromise`, `ScanEnds`, `SessionsEnd`, `RowEnds`, `ApprovedIsFulfilled` and
`PendingIsTried`.

### Fairness

Goroutines are scheduled: each has weak fairness. Beyond that:

- *Acquisition.* Deadlines get strong fairness: once the time has come it stays
  so, but the code compares clocks in one state of a polling loop only. A debrid
  resolve ends, since `run` has a timeout; an NZB download need not.
- *NzbSync.* The ticker ticks; TorBox brings a download to some end, and answers
  the active listing ever again (strong fairness of `ListActive`).
- *DirWalk.* Weak fairness for each worker and for the caller; `Signal` may wake
  any sleeper, not the one that has waited longest.
- *DebridResolve.* The goroutine goes on, and its context's deadline passes in the
  end. Nothing is assumed of the provider: it may never cache the torrent.
- *SeasonPack.* The monitor sweeps; it ticks for as long as the process lives.
  Packs and attempts may take for ever.
- *Requests.* Each handler goes on; nobody need send another request. No call need
  succeed.
- *TranscodeSessions.* Each session's goroutine, a kill and a removal once begun, and
  the polling of a request. ffmpeg may run for ever unless it is killed, which is
  why `QueuedIsServed` lets a session wait while ffmpeg processes fill every slot.
- *LibraryScan.* Strong fairness of `ProducerDone`: a `select` with two ready
  channels picks at random, so it cannot prefer the ticker for ever.

## Findings

Five runs show the code at odds with its own documentation.

1. `acq_stranded`. The tier that lost writes `acquiring` (service.go:714) after
   the other tier's winner wrote `owned` and `runAcquire` has returned. Nobody
   works on the item, no later attempt starts (`startAcquire` takes it for work in
   flight), and until the next restart it is not offered as playable.
2. `nzb_deleted`. A row's own goroutine and a sweep with an older listing complete
   the same row. The second claim is refused because of the first one's, and the
   code takes that for a lost race: it deletes the download the item plays.
3. `walk_roots`. `WalkConcurrent` starts its workers before it pushes the roots.
   When they finish the first root early, the pending count reaches zero, the
   queue closes for good and the other folders of the library are not scanned.
4. `scan_batch`. One `INSERT ... ON CONFLICT DO UPDATE` cannot touch a row twice.
   A download's folder is walked under two names, so a batch may hold a path
   twice; then the whole batch, already popped, is lost to that scan.
5. `config_key`. `reconfigure` builds a new TMDb client for a new key, but a new
   acquisition service only when it comes or goes or a source changed
   (server.go:277): acquisition goes on with the old key until a restart.

Other divergences met while modelling are listed under `hazards` in
`PROJECT.json` with a note, because the properties of the passing runs had to be
stated around them:

- the two tiers of one attempt promote under separate claim columns, so both may
  win one after the other (`RaceHasOneWinner` speaks of one tier);
- a race gives up on rows that are all `ready` while the promotion of one of them
  is still to come, and writes `error` next to a working link;
- a claim left by a candidate of an earlier round has every candidate of the next
  one refused;
- the fast path's failure leaves its own `searching`, which the search it falls
  back to takes for another attempt's (the overlapping passes in `services` leave the
  fast path out);
- a restart between the write of the path and the end of the row has the next
  sweep delete the played download;
- two scans of a library at the same time duplicate its items
  (`Overlap = FALSE` in `scan`).

Others again are behaviours the modules have and no property forbids, because
nothing in the repository says what should hold instead:

- *Transcoding.* A restart leaks the sessions' directories, of which only the map in
  memory knew; `parseByteRange` turns down a range of a single byte, and the 206
  answer ignores the range's end.
- *Metadata.* A sync with an older list writes over an admin's match
  (metadata/sync.go:222), and a restart leaves its job `running`.
- *Resolves.* `FinishDebridItem` overwrites `removed`; `Remove` leaves the item's
  path; a restart leaves `resolving`; a 429 without `Retry-After` ends the resolve
  though debrid/provider.go:83 speaks of backing off; when the answer to an add is
  lost, its slot on the account is too; TorBox's `torrentInfo` takes the first entry
  when the one asked for is missing (`Fallback`), so that a resolve may end with the
  files of another torrent, and links asked for before its own is cached:
  `LinksAreOfCached` excepts just that.
- *Limiter.* A waiter that is cancelled does not give its slot back.
- *Requests.* An approval without an acquisition service, or whose list of targets
  fails, is never fulfilled; two opens at once may create two rows; a withdrawal reads the status
  and then deletes, whatever was decided between; a restart loses a fulfilment.
- *Season packs.* When `SetMediaItemPath` fails after the claim the pack may be
  deleted with the claim standing; the season may stay `acquiring`.
- *Settings.* Of two saves at once one may be lost; when the read-back fails the
  answer is an error, the settings are stored, and nothing is reconfigured; the
  sweep in flight of an old NZB service goes on after `Close`.
- *Indexers.* Updates undo one another; a loop that was cancelled still inserts.
- *Release choice.* The torrent tier does not dedupe, so a release found by two
  indexers may race itself; an expired entry of `instantAvailCache` is
  asked about again but not renewed when it was negative (nzb/service.go:271); a `break`
  in a `select` leaves the `select` only (acquisition/service.go:967).
- *Usenet.* A crash after `SetNZBDownloadProviderRef` leaves an imported row in
  `downloading` (nzb/service.go:757); a download removed while TorBox does not answer
  comes back as an import (nzb/service.go:818); `UsenetInfo` takes the first
  entry when the one asked for is missing (debrid/torbox.go:548, `LookStray`), and the
  row is completed, and the item played, with the files of another download.

## Proofs

Checked by TLAPS, for every value of the constants.

**AcquisitionProofs** (any number of attempts, candidates, accounts; any sources,
callers, events).
- `TypeCorrect`, and `OwnedPath`: `[]OwnedHasPath`. The strengthening `PathInv`
  adds that a soft attempt or an upgrade works only on items with a link: they are
  the ones that write `owned` without looking, and no statement takes a link away.
- `PlayedLinkKept`, `ClaimantKept`: the link an item plays, and the claim's
  holder, are never deleted. `KeptInv` ties the state of each candidate's
  goroutine to the row: a candidate that is played or claimed is past the point
  where it would delete itself. Assumption `NoResume`: no restart resumes an NZB
  download that has claimed the item already.
- `PromiseKept`: each step is a step of `ItemPromise` or a stutter, by the
  invariants above and `PlaceholderInv` (a placeholder has no link, and attempts
  on it have not got past their first write). Same assumption.
- `InFlightWorked`: `[]InFlightIsWorked` under `OneSource` (one tier configured,
  no fast path). `WorkedInv` says more than the property: not just that some
  attempt is busy, but that some attempt has yet to write how it ends
  (`Answers`), which is what survives another attempt's return. `acq_stranded`
  shows that the assumption is needed.
- `HygieneKept`: `[]HygieneNeverDemotes`, for any number of the monitor's passes at
  once, under `OneSource` and `OnlyHygiene` (the monitor is the only caller, and the
  process does not die). `HygieneInv`: only a soft attempt has a failure to write,
  which writes `owned`; with `InFlightIsWorked` the item is back once all rest.
- `OneWinner`: `[]RaceHasOneWinner` for one attempt (`OneAttempt`), any number of
  candidates, rounds, deadlines and restarts. `WinnerInv`: a candidate of the current
  race that is past its claim still holds it, because `ResetMediaItemClaim` only runs
  while the tier has launched nothing. With two attempts that fails: one resets the
  claim under the other's race.

**NzbSyncProofs** (any number of rows, downloads, imports and restarts).
- `TypesHold`: `[]TypeOK`. The bound on `files` is what is hard in it: `RecordOnce`
  counts, besides what is recorded, what the row's own goroutine and the sweep are
  about to record, and has at most two for a row of Vorn's and one for an import.
- `UncachedRecordedOnce`: a row whose download TorBox does not have at once is recorded
  at most once. By `OnceInv`: its own goroutine has looked before there is a file, so
  the sweep, which records only where it finds no files, is alone in recording it. `RecordedOnce` is
  `[]FilesRecordedOnce` when no download is cached, as in `nzb_orphans`. For a cached
  one it is false, since both list the files before either adds them.
- `WinnerStays`: `FirstWinnerStays`. By `ClaimInv`: whoever is about to set the
  path is alone in that, and the path is not set yet.
- `ForeignKept`: `ForeignIsKept`. By `OwnershipInv`: a row Vorn submitted never
  names another download than its own, in the table, in the sweep's copy and in
  the sweep's hands; only such rows are ever dropped.

**DirWalkProofs** (any tree, any number of workers).
- `CountIsExact`, for any roots: `pending` is the length of the queue plus the
  number of workers that hold a directory.
- `InvariantHolds`, `OneRootIsWalked`, `ImplementsPromise`, under `OneRoot`:
  `CloseInv` (the queue is closed only when nothing is pending and the root was
  pushed), `CoverInv` (whatever the directories read so far show is emitted,
  queued or in the hands of a worker) and `FoundInv` (nothing else is). When all
  have left, nothing is queued or held, so what was emitted is closed under
  subdirectories and holds all there is to find. `walk_roots` shows that the
  assumption is needed.
- `FilesAreEmittedOnce`: `EmittedOnce`, for any roots under `IsForest` (a directory has
  one parent at most, as `os.ReadDir` follows no links, and no root lies below another). `OnceInv`: a directory is in one
  place only, queued or with one worker, and what is below it is nowhere before its
  entry was taken off.
- `NobodyWaitsInVain`, for any roots: while a worker sleeps the queue is open, and a
  root, a Signal or another worker is still to come. It is the safety side of
  `KeepsWalkPromise`'s liveness, deadlock freedom stated without `ENABLED`. `WaitInv`: a
  push is followed by a Signal as long as everybody sleeps, and with nothing
  pending and no root left the queue is closed.

**LibraryScanProofs** (any number of jobs, files, failures and restarts).
- `TypesHold`. Only `PromotingInv` is added: a job that writes or marks an item has
  a file in its list.
- `SyncedStaysWithinFound`: `[]SyncedWithinFound`. `FlowInv` counts what is under
  way: what is stored, popped, staged and about to be pushed is at most what was
  counted. `FreshInv`: a job that has not started holds nothing; without it a job
  could start on the staging queue of another time.
- `FilesAreSaved`: `[]FoundIsSaved` under `FoundOnce` (no two walks find the same
  file). `JobInv` follows a path: pushed by its finder alone (`OnceInv`, by which
  no batch meets a row twice), then staged, popped or saved (`PushedInv`), with the
  finders done before the last drain (`LastInv`) and what that drain leaves on
  record (`DrainInv`). `scan_batch` shows that the assumption is needed.
- `TitlesHaveOneItem`: `[]OneItemPerTitle` without overlap. `SerialInv` has one scan
  at work at a time, so that what `findOrCreateMediaItem` looked up still holds
  when it inserts (`LookedInv`).

**RateLimiterProofs** (any number of calls, any interval).
- `LimiterPaces`: `[]Paced`. `SlotsBeforeNext` is what makes it inductive: every slot
  that was handed out lies an interval before the next one, also when its call gave
  up. `LimiterType`. Both assume `ConstantsOK` of `RateLimiter`, which `MCServices`
  has TLC evaluate.

**CandidatesProofs** (any releases, profile, caches, number of attempts; under
`ConstantsOK` of `Candidates`, which `MCServices` has TLC evaluate).
- The lemmas about sorting carry the rest. `Arranged` puts an element where the number
  of those before it says; `EarlierCounts` and `CountingSorts` show that for a total
  order this is a permutation in order, and so for `Rank`, `Merged` and `Trim`.
- `BestRaced`: `[]BestAreRaced`. `RaceInv` is `Types` with `Follows`: at each place what
  an attempt holds (ranked, asked about, raced) is a function of what its search
  found and of what was cached then.
- `Remembered`: `[]FailedIsRemembered`. `FailureInv`: a failure that is not in the cache
  was evicted for as many others as the cache holds, each of which lasts as long.
- `TypesHold`: `[]TypeOK`.

**ServicesProofs** (under `ServicesAssumption`: each component's own `ConstantsOK`, and
parameters of the overlapping passes as `Acquisition` asks for them). Each theorem first
shows that a behaviour of `Services` is one of the component (`PlayRuns`,
`IndexersRun`, ...).
- `PlayIsNoDeadEnd`: `[]NoDeadEnd`: with acquisition configured, "unplayable" is said of a
  local file that cannot be read only, and "unavailable" by a server without an encoder
  only; what else turns a play down is a call that failed. `PlayInv`: a row without a path is not `owned` and
  nobody probes it; a local file stays the row's path while a viewer probes it.
- `MatchedStaysWithinFound`: `[]MatchedWithinFound`. `MetadataInv` bounds what is done
  together with what is still on the job's list.
- `MirroredOncePerLoopHolds`: `[]MirroredOncePerLoop`. `IndexerInv` counts the rows of an
  offer together with the loops that are about to insert it (`Counts`); it needs that
  a listing names an offer once (`ListsHaveNamesOnce`) and that an update which
  writes an older row back does not give it another's name (`UpdatesKeepNames`).
- `RunsAsConfiguredHolds`: `[]RunsAsConfigured`. `ConfigInv` follows a save through
  `reconfigure`: one applies at a time (`OneApplies`), in the order of its steps
  (`AppliesInOrder`), a row nobody is about to apply is applied (`StoredIsApplied`),
  and acquisition and the loops belong to the current services (`AcquisitionFollows`,
  `LoopsFollow`).
- `OverlapKeepsItemHolds`: `[]OverlapKeepsItem`, by `HygieneKept` of an instance of
  `AcquisitionProofs`; `RacesAreSoundHolds`: `[]RacesAreSound`, by `CandidatesProofs`;
  `LimiterPaces`: `[]Paced`, by `RateLimiterProofs`.
- `ServiceTypesHold`: `[]ServiceTypes`, from the type parts of these invariants.

**ProgressProofs** (under `ProgressAssumption`: each component's `ConstantsOK`, with
what the code grants: an output has at least one segment, an episode is not the name
of a place in a pack's resolve).
- `LinksAreOfCachedHolds`: `LinksAreOfCached`, an action property: a step from a request
  for links to their recording finds the torrent cached on the account, unless it is
  TorBox's from `stray`, or Premiumize's direct links. `ResolveInv`:
  who asks for links at `links` has seen it cached (it may have been removed meanwhile,
  and then the answer is an error), and `stray` is TorBox's alone.
- `OutputIsOwnedHolds`: `[]OutputIsOwned`. `RemovalInv` has where the removal of each
  directory stands; that what the admin clears has ended, so that nothing is
  written under the removal, is the part it fails without.
- `PlayedPackIsKeptHolds`: `[]PlayedPackIsKept`. `SeasonInv`: an episode plays only a pack
  that counts as used, and a used pack goes on to the next episode or is kept.
- `EpisodesKeepPromiseHolds`: `EpisodesKeepPromise`, the refinement of `ItemPromise` by
  each episode, step by step in `EpisodeStep`: a pack's deletion is a `Discard` for every
  episode, which `SeasonInv` grants does not play it. `AttemptInv` (an attempt works on
  no placeholder) is why a failure is a `GiveUp`.
- `FfmpegWithinSlots`: `[]SlotsSuffice`, no more ffmpeg processes than slots. `SlotInv`
  bounds those that hold the semaphore, from before the process starts until it ended.
- `RowsWithinCrowdHolds`: `[]RowsWithinCrowd`. `CrowdInv` counts the handlers that found
  no row and have yet to insert one as rows already.
- `RestIsFulfilledHolds`: `[]RestIsFulfilled`, the safety side of `ApprovedIsFulfilled`, which
  TLC checks under fairness: there is no state at rest in which an approved request
  lacks a library that is not in `missed`. `FulfilInv`: each default target of an approved
  request is done, missed, or some handler is at it, still has it to come or has yet to
  list the targets; a step either keeps what a handler covers, goes through with it
  or enters it in `missed`. `HasRowInv`: nothing is begun without a row, and a row stays.
- `ProgressTypesHold`: `[]ProgressTypes`.

Every invariant and every action property of a passing run is stated by a theorem above,
some for part of the instances only: `RaceHasOneWinner` (one attempt),
`FilesRecordedOnce` (nothing cached), `InFlightIsWorked` (one source, no fast path),
`FoundIsSaved` (`FoundOnce`), `OneItemPerTitle` (no overlap) and what rests on
`NoResume`; outside of these TLC or the code refutes them. `WalkIsComplete`, which
`walk_roots` refutes for nested roots, is proved for one.
Only model-checked is what takes fairness: `InFlightEnds`, `AttemptEnds`,
`ResolveEnds`, `DownloadIsRecorded`, `RepairingEnds`, `ScanEnds`, `SessionsEnd`,
`RowEnds`, `ApprovedIsFulfilled`, `PendingIsTried` and the liveness of
`KeepsWalkPromise`. It is out of the prover's reach.

## Not modelled

- *Acquisition*: `SyncSeriesTree`'s refresh, errors of statements other than
  `SetMediaItemPath`, an admin who removes downloads.
- *NzbSync*: an admin's `Remove`, failing statements, a second service after a
  reconfiguration (`ServerConfig` has that there is one), completed downloads without
  files (they make `importOrphanedDownload` index an empty slice).
- *LibraryScan*: synthetic scans (they push before they count, so that their
  counts may be out of order for a moment), `FlushStaging` during a scan, the
  parents of episodes, tracks and chapters, queue entries that cannot be decoded,
  and name resolution.
- *Candidates*: how a release's title is parsed: regular expressions, covered by unit
  tests; the indexers' documents.
- *DebridResolve*: the promotion of manual links by their file names, removing an
  account, the listing of nested folders.
- *Requests*, *SeasonPack*, *MetadataSync*: a restart. None of the three has code that
  would look at what one leaves behind, other than the next sweep or click.
- *PlayItem*: the fields of a file and a client that `Decide` does not read.
- *PlayItem* and *Requests*: that a `reconfigure` takes the acquisition service away
  between the two loads of its pointer, the one that is tested and the one that is used
  (httpapi/content_requests.go:309-310, stream.go:211-212 and 296-300, catalog.go:91-161),
  which would be a nil dereference.
- *Log buffer*: a ring of lines for one page; what a viewer misses concerns no other
  part.
- The other components with status `not_modelled`: request handlers over single
  statements, HTTP clients, parsing, user interface. They keep no state between two
  calls that another of their calls could find changed.

## Plan

Done: everything in the table of modules. Left, most important first:

1. `NzbSync` with an admin's `Remove` and with downloads without files.
2. Synthetic scans and `FlushStaging` in `LibraryScan`.
3. Restarts in `Requests` and `SeasonPack`.
4. `Acquisition` with two attempts and both sources, which is beyond TLC at the
   grain it has now.

Theorems to come: for `TranscodeSessions` and `SeasonPack` what `NobodyWaitsInVain` is
for `DirWalk`, the safety side of `SessionsEnd` and `PendingIsTried`; and what the steps
above add.
