---------------------------- MODULE Acquisition ----------------------------
(***************************************************************************)
(* On-demand acquisition of ONE movie or episode: the media_items row, the *)
(* attempts that work on it (acquisition/service.go, monitor.go), and the  *)
(* background resolves they launch (debrid/service.go, nzb/service.go and  *)
(* their promote.go).  Every database statement of the Go code is one      *)
(* step: the goroutines share nothing but the rows, and take no lock.      *)
(***************************************************************************)
EXTENDS Naturals, FiniteSets

CONSTANTS
  Attempt,   \* slots for calls of Acquire/Reacquire/checkUpgrade in progress
  Debrid,    \* debrid_items rows that may be created (bounds AddLink)
  Nzb,       \* nzb_downloads rows that may be created (bounds AddNZBForItem)
  Accounts,  \* number of enabled debrid accounts
  RaceSize,  \* most candidates one race launches (raceSize, maxNZBCandidates)
  Sources,   \* which tiers are configured: a subset of Tier
  Callers,   \* which callers the instance has: a subset of Caller
  Events,    \* which environment events it has: a subset of Event
  None,      \* SQL NULL
  OldLink,   \* the link of an item that is owned from the start
  WebDAV,    \* a stable WebDAV URL found by a scan
  LocalFile  \* a file the scanner promoted onto the row

Tier == {"torrent", "nzb"}

\* acquire: Acquire; reacquire: Reacquire; soft: ReacquireSoftFail;
\* upgrade: checkUpgrade.
Caller == {"acquire", "reacquire", "soft", "upgrade"}

\* fastpath: debrid re-resolve of a known hash; webdav: FindWebDAVPath* may
\* hit; scan: a library scan lands on the row; restart: the process dies;
\* timeout: race deadlines pass; writefail: SetMediaItemPath may fail.
Event == {"fastpath", "webdav", "scan", "restart", "timeout", "writefail"}

Candidate == Debrid \cup Nzb

ASSUME AcquisitionAssumption ==
  /\ Accounts \in Nat /\ RaceSize \in Nat \ {0}
  /\ Sources \subseteq Tier /\ Callers \subseteq Caller /\ Events \subseteq Event
  /\ Debrid \cap Nzb = {}
  /\ {None, OldLink, WebDAV, LocalFile} \cap Candidate = {}
  /\ None \notin Caller \cup {OldLink, WebDAV, LocalFile}

VARIABLES
  status,    \* media_items.acquisition_status
  path,      \* media_items.path
  claim,     \* active_debrid_item_id and active_nzb_download_id, by tier
  stat,      \* status column of each candidate's row
  promoted,  \* candidates whose row says promoted
  gone,      \* candidates deleted from the provider
  job,       \* what each candidate's resolve goroutine does next
  pc,        \* what each attempt's caller / runAcquire does next
  caller,    \* who started the attempt
  tier,      \* what each tier goroutine of an attempt does next
  left,      \* rounds (accounts) each tier has still to try
  launched   \* candidates the attempt's current races launched

item == <<status, path, claim>>
rows == <<stat, promoted, gone, job>>
work == <<pc, caller, tier, left, launched>>
vars == <<status, path, claim, stat, promoted, gone, job,
          pc, caller, tier, left, launched>>

InFlight == {"searching", "acquiring"}
Status == InFlight \cup {"placeholder", "owned", "error"}
Link == Candidate \cup {OldLink, WebDAV, LocalFile}

Of(t) == IF t = "torrent" THEN Debrid ELSE Nzb
\* Mutant: a claim goes to the other tier's column.
TierOfSwapped(c) == IF c \in Debrid THEN "nzb" ELSE "torrent"
TierOf(c) == IF c \in Debrid THEN "torrent" ELSE "nzb"

FastPc == {"fast", "fastReset", "fastAdd", "fastPoll", "fastCheck"}
SyncPc == FastPc \cup {"start", "search", "webdav"}
UpgradePc == {"upTorrent", "upNzb"}
Pc == {"idle", "run", "fail"} \cup SyncPc \cup UpgradePc

Over == {"won", "lost"}
Racing == {"launch", "poll", "check"}
TierPc == {"off", "search", "round", "reset", "acquire"} \cup Racing \cup Over
Job == {"none", "resolve", "claim", "path", "mark", "delete", "finish", "fail"}

Init ==
  /\ \/ status = "placeholder" /\ path = None /\ promoted = {}
     \/ status = "owned" /\ path = OldLink /\ promoted = {OldLink}
  /\ claim = [t \in Tier |-> None]
  /\ stat = [c \in Candidate |-> "absent"]
  /\ gone = {}
  /\ job = [c \in Candidate |-> "none"]
  /\ pc = [a \in Attempt |-> "idle"]
  /\ caller = [a \in Attempt |-> None]
  /\ tier = [a \in Attempt |-> [t \in Tier |-> "off"]]
  /\ left = [a \in Attempt |-> [t \in Tier |-> 0]]
  /\ launched = [a \in Attempt |-> {}]

----------------------------------------------------------------------------
(* Helpers for the attempts.                                               *)

Goto(a, from, to) == pc[a] = from /\ pc' = [pc EXCEPT ![a] = to]

GotoTier(a, t, from, to) ==
  tier[a][t] = from /\ tier' = [tier EXCEPT ![a][t] = to]

\* The caller returns; the results of tiers that are over are dropped.
Return(a) ==
  /\ pc' = [pc EXCEPT ![a] = "idle"]
  /\ caller' = [caller EXCEPT ![a] = None]
  /\ tier' = [tier EXCEPT ![a] =
                [t \in Tier |-> IF @[t] \in Over THEN "off" ELSE @[t]]]

\* A tier delivers its result, or ends unheard when the caller has returned.
EndTier(a, t, result) ==
  /\ tier' = [tier EXCEPT ![a][t] = IF pc[a] = "idle" THEN "off" ELSE result]
  /\ launched' = [launched EXCEPT ![a] = @ \ Of(t)]

Rounds(t) == IF t = "torrent" THEN Accounts ELSE 1

\* CreateDebridItem / CreateNZBDownload, and the goroutine that resolves it.
Create(c) ==
  /\ stat[c] = "absent"
  /\ stat' = [stat EXCEPT ![c] = "pending"]
  /\ job' = [job EXCEPT ![c] = "resolve"]

----------------------------------------------------------------------------
(* Callers.                                                                *)

\* The monitor is one goroutine: its synchronous part handles one item at a
\* time.
MonitorBusy ==
  \E a \in Attempt : caller[a] \in {"soft", "upgrade"} /\ pc[a] \in SyncPc \cup UpgradePc

Free(a) == pc[a] = "idle" /\ \A t \in Tier : tier[a][t] = "off"

Enter(a, who, to) ==
  /\ who \in Callers
  /\ Free(a)
  /\ pc' = [pc EXCEPT ![a] = to]
  /\ caller' = [caller EXCEPT ![a] = who]

\* Acquire: a play click on an item without a file, the monitor's sweep over
\* placeholder and failed items, adding a title from the catalogue or
\* fulfilling a request.  The last two do not look at the status first.
BeginAcquire(a) ==
  /\ Enter(a, "acquire", "start")
  /\ UNCHANGED <<item, rows, tier, left, launched>>

\* A play click whose probe of the remote link failed.
BeginReacquire(a) ==
  /\ status \notin InFlight
  /\ path \notin {None, LocalFile}
  /\ Enter(a, "reacquire", "fast")
  /\ UNCHANGED <<item, rows, tier, left, launched>>

\* The monitor's probe of an owned item's remote link failed.
BeginSoft(a) ==
  /\ status = "owned"
  /\ path \notin {None, LocalFile}
  /\ ~MonitorBusy
  /\ Enter(a, "soft", "fast")
  /\ UNCHANGED <<item, rows, tier, left, launched>>

\* Mutant: the sweep forgets the acquisition_status = 'owned' filter.
BeginUpgradeOfAny(a) ==
  /\ ~MonitorBusy
  /\ Enter(a, "upgrade", "upTorrent")
  /\ UNCHANGED <<item, rows, tier, left, launched>>

\* The monitor looks for a better release of an item it listed as owned.
BeginUpgrade(a) ==
  /\ status = "owned"
  /\ ~MonitorBusy
  /\ Enter(a, "upgrade", "upTorrent")
  /\ UNCHANGED <<item, rows, tier, left, launched>>

----------------------------------------------------------------------------
(* Reacquire's fast path: resolve the hash of an earlier promoted link     *)
(* again, inside the caller, before falling back to startAcquire.          *)

KnownHash == \E c \in promoted \cap (Debrid \cup {OldLink}) :
                c # OldLink => stat[c] = "complete"

FastStart(a) ==
  /\ IF "fastpath" \in Events /\ KnownHash
       THEN Goto(a, "fast", "fastReset") /\ status' = "searching"
       ELSE Goto(a, "fast", "start") /\ UNCHANGED status
  /\ UNCHANGED <<path, claim, rows, caller, tier, left, launched>>

FastReset(a) ==
  /\ Goto(a, "fastReset", "fastAdd")
  /\ claim' = [claim EXCEPT !["torrent"] = None]
  /\ UNCHANGED <<status, path, rows, caller, tier, left, launched>>

FastAdd(a) ==
  /\ Goto(a, "fastAdd", "fastPoll")
  /\ \E c \in Debrid :
       Create(c) /\ launched' = [launched EXCEPT ![a] = {c}]
  /\ UNCHANGED <<item, promoted, gone, caller, tier, left>>

FastAddFails(a) ==
  /\ Goto(a, "fastAdd", "start")
  /\ status' = "error"
  /\ UNCHANGED <<path, claim, rows, caller, tier, left, launched>>

FastPoll(a) ==
  /\ pc[a] = "fastPoll"
  /\ \/ /\ status = "owned"
        /\ Return(a)
        /\ launched' = [launched EXCEPT ![a] = {}]
     \/ /\ status # "owned"
        /\ Goto(a, "fastPoll", "fastCheck")
        /\ UNCHANGED <<caller, tier, launched>>
  /\ UNCHANGED <<item, rows, left>>

FastCheck(a) ==
  /\ pc[a] = "fastCheck"
  /\ \/ /\ \E c \in launched[a] : stat[c] = "error"
        /\ Goto(a, "fastCheck", "start")
        /\ launched' = [launched EXCEPT ![a] = {}]
     \/ /\ \A c \in launched[a] : stat[c] # "error"
        /\ Goto(a, "fastCheck", "fastPoll")
        /\ UNCHANGED launched
  /\ UNCHANGED <<item, rows, caller, tier, left>>

\* The deadline, or the viewer's request, is over.
FastTimeout(a) ==
  /\ "timeout" \in Events
  /\ \A c \in launched[a] : stat[c] # "error"
  /\ Goto(a, "fastCheck", "start")
  /\ launched' = [launched EXCEPT ![a] = {}]
  /\ UNCHANGED <<item, rows, caller, tier, left>>

----------------------------------------------------------------------------
(* startAcquire: check the status, set it, look for a WebDAV copy, launch. *)

StartCheck(a) ==
  /\ pc[a] = "start"
  /\ IF status \in InFlight \/ (status = "owned" /\ caller[a] = "acquire")
       THEN Return(a)
       ELSE Goto(a, "start", "search") /\ UNCHANGED <<caller, tier>>
  /\ UNCHANGED <<item, rows, left, launched>>

SetSearching(a) ==
  /\ Goto(a, "search", "webdav")
  /\ status' = "searching"
  /\ UNCHANGED <<path, claim, rows, caller, tier, left, launched>>

WebDAVHit(a) ==
  /\ "webdav" \in Events
  /\ pc[a] = "webdav"
  /\ Return(a)
  /\ status' = "owned"
  /\ path' = WebDAV
  /\ UNCHANGED <<claim, rows, left, launched>>

\* go runAcquire: both tiers start; either the query or the profile may also
\* fail to load, and then neither does.
Launch(a) ==
  /\ Goto(a, "webdav", "run")
  /\ tier' = [tier EXCEPT ![a] = [t \in Tier |-> "search"]]
  /\ UNCHANGED <<item, rows, caller, left, launched>>

LaunchFails(a) ==
  /\ Goto(a, "webdav", "fail")
  /\ UNCHANGED <<item, rows, caller, tier, left, launched>>

\* Mutant: both tiers have to win.
RunWonByBoth(a) ==
  /\ pc[a] = "run"
  /\ \A t \in Tier : tier[a][t] = "won"
  /\ Return(a)
  /\ UNCHANGED <<item, rows, left, launched>>

\* runAcquire returns on the first tier that won, without waiting for the
\* other one.
RunWon(a) ==
  /\ pc[a] = "run"
  /\ \E t \in Tier : tier[a][t] = "won"
  /\ Return(a)
  /\ UNCHANGED <<item, rows, left, launched>>

RunLost(a) ==
  /\ \A t \in Tier : tier[a][t] = "lost"
  /\ Goto(a, "run", "fail")
  /\ UNCHANGED <<item, rows, caller, tier, left, launched>>

\* Mutant: onFailureStatus is the wrong way round.
FailSwapped(a) ==
  /\ pc[a] = "fail"
  /\ Return(a)
  /\ status' = IF caller[a] = "soft" THEN "error" ELSE "owned"
  /\ UNCHANGED <<path, claim, rows, left, launched>>

\* Mutant: the failure is not written.
FailUnrecorded(a) ==
  /\ pc[a] = "fail"
  /\ Return(a)
  /\ UNCHANGED <<item, rows, left, launched>>

\* fail: 'error', or back to 'owned' for ReacquireSoftFail.
Fail(a) ==
  /\ pc[a] = "fail"
  /\ Return(a)
  /\ status' = IF caller[a] = "soft" THEN "owned" ELSE "error"
  /\ UNCHANGED <<path, claim, rows, left, launched>>

----------------------------------------------------------------------------
(* checkUpgrade: race the best torrent, revert, race the best NZB, revert. *)

\* A better release is on offer and its race starts ...
UpgradeRace(a, t, at) ==
  /\ pc[a] = at
  /\ t \in Sources
  /\ tier[a][t] = "off"
  /\ tier' = [tier EXCEPT ![a][t] = "round"]
  /\ left' = [left EXCEPT ![a][t] = Rounds(t)]
  /\ UNCHANGED <<item, rows, pc, caller, launched>>

\* ... or none is, and the next source (or the next item) has its turn.
UpgradeSkip(a, t, at, next) ==
  /\ pc[a] = at
  /\ tier[a][t] = "off"
  /\ IF next = "idle"
       THEN Return(a)
       ELSE Goto(a, at, next) /\ UNCHANGED <<caller, tier>>
  /\ UNCHANGED <<item, rows, left, launched>>

UpgradeWon(a, t, at) ==
  /\ pc[a] = at
  /\ tier[a][t] = "won"
  /\ Return(a)
  /\ UNCHANGED <<item, rows, left, launched>>

\* Mutant: a lost upgrade race leaves 'acquiring' behind.
UpgradeNotReverted(a, t, at, next) ==
  /\ pc[a] = at
  /\ tier[a][t] = "lost"
  /\ IF next = "idle"
       THEN Return(a)
       ELSE /\ Goto(a, at, next)
            /\ tier' = [tier EXCEPT ![a][t] = "off"]
            /\ UNCHANGED caller
  /\ UNCHANGED <<item, rows, left, launched>>

\* revertUpgradeAttempt
UpgradeRevert(a, t, at, next) ==
  /\ pc[a] = at
  /\ tier[a][t] = "lost"
  /\ status' = "owned"
  /\ IF next = "idle"
       THEN Return(a)
       ELSE /\ Goto(a, at, next)
            /\ tier' = [tier EXCEPT ![a][t] = "off"]
            /\ UNCHANGED caller
  /\ UNCHANGED <<path, claim, rows, left, launched>>

Upgrade(a) ==
  \/ UpgradeRace(a, "torrent", "upTorrent")
  \/ UpgradeSkip(a, "torrent", "upTorrent", "upNzb")
  \/ UpgradeWon(a, "torrent", "upTorrent")
  \/ UpgradeRevert(a, "torrent", "upTorrent", "upNzb")
  \/ UpgradeRace(a, "nzb", "upNzb")
  \/ UpgradeSkip(a, "nzb", "upNzb", "idle")
  \/ UpgradeWon(a, "nzb", "upNzb")
  \/ UpgradeRevert(a, "nzb", "upNzb", "idle")

----------------------------------------------------------------------------
(* One tier of an attempt: acquireViaTorrent / raceTorrentCandidates /     *)
(* raceOneAccount, and acquireViaNZB / raceNZBCandidates.                  *)

\* Not configured, the search failed, or nothing acceptable was found.
SearchFails(a, t) ==
  /\ tier[a][t] = "search"
  /\ EndTier(a, t, "lost")
  /\ UNCHANGED <<item, rows, pc, caller, left>>

Search(a, t) ==
  /\ t \in Sources
  /\ GotoTier(a, t, "search", "round")
  /\ left' = [left EXCEPT ![a][t] = Rounds(t)]
  /\ UNCHANGED <<item, rows, pc, caller, launched>>

\* The next enabled account, if there is one.
NextRound(a, t) ==
  /\ tier[a][t] = "round"
  /\ IF left[a][t] = 0
       THEN EndTier(a, t, "lost") /\ UNCHANGED left
       ELSE /\ GotoTier(a, t, "round", "reset")
            /\ left' = [left EXCEPT ![a][t] = @ - 1]
            /\ launched' = [launched EXCEPT ![a] = @ \ Of(t)]
  /\ UNCHANGED <<item, rows, pc, caller>>

ResetClaim(a, t) ==
  /\ GotoTier(a, t, "reset", "acquire")
  /\ claim' = [claim EXCEPT ![t] = None]
  /\ UNCHANGED <<status, path, rows, pc, caller, left, launched>>

SetAcquiring(a, t) ==
  /\ GotoTier(a, t, "acquire", "launch")
  /\ status' = "acquiring"
  /\ UNCHANGED <<path, claim, rows, pc, caller, left, launched>>

LaunchCandidate(a, t, c) ==
  /\ tier[a][t] = "launch"
  /\ c \in Of(t)
  /\ Cardinality(launched[a] \cap Of(t)) < RaceSize
  /\ Create(c)
  /\ launched' = [launched EXCEPT ![a] = @ \cup {c}]
  /\ UNCHANGED <<item, promoted, gone, pc, caller, tier, left>>

\* Every candidate was sent or failed to be sent.
LaunchOver(a, t) ==
  /\ GotoTier(a, t, "launch",
              IF launched[a] \cap Of(t) = {} THEN "round" ELSE "poll")
  /\ UNCHANGED <<item, rows, pc, caller, left, launched>>

Poll(a, t) ==
  /\ tier[a][t] = "poll"
  /\ IF status = "owned"
       THEN EndTier(a, t, "won")
       ELSE GotoTier(a, t, "poll", "check") /\ UNCHANGED launched
  /\ UNCHANGED <<item, rows, pc, caller, left>>

\* Nothing left to hope for.  An NZB row completes after its promotion, so a
\* completed but not yet promoted one is waited for.
AllDone(a, t) ==
  \A c \in launched[a] \cap Of(t) :
    /\ stat[c] \in {"complete", "error"}
    /\ t = "nzb" /\ stat[c] = "complete" => c \in promoted

Check(a, t) ==
  /\ GotoTier(a, t, "check", IF AllDone(a, t) THEN "round" ELSE "poll")
  /\ UNCHANGED <<item, rows, pc, caller, left, launched>>

RaceTimeout(a, t) ==
  /\ "timeout" \in Events
  /\ ~AllDone(a, t)
  /\ GotoTier(a, t, "check", "round")
  /\ UNCHANGED <<item, rows, pc, caller, left, launched>>

----------------------------------------------------------------------------
(* A candidate's resolve, up to the end of onComplete.                     *)

\* The provider has the files.  A debrid row is marked ready before its
\* promotion, an NZB row is finished after it.
Resolved(c) ==
  /\ job[c] = "resolve"
  /\ c \notin gone
  /\ job' = [job EXCEPT ![c] = "claim"]
  /\ stat' = IF c \in Debrid THEN [stat EXCEPT ![c] = "complete"] ELSE stat
  /\ UNCHANGED <<item, promoted, gone, work>>

\* Any provider error, the resolve timeout, or the race's context cancelled.
ResolveFails(c) ==
  /\ job[c] = "resolve"
  /\ job' = [job EXCEPT ![c] = "none"]
  /\ stat' = [stat EXCEPT ![c] = "error"]
  /\ UNCHANGED <<item, promoted, gone, work>>

\* No video file, or not the runtime that was expected.
Reject(c) ==
  /\ job[c] = "claim"
  /\ job' = [job EXCEPT ![c] = "delete"]
  /\ UNCHANGED <<item, stat, promoted, gone, work>>

\* Mutant: the claim is fenced by the status alone.
ClaimUnfenced(c) ==
  /\ job[c] = "claim"
  /\ IF status # "owned"
       THEN /\ claim' = [claim EXCEPT ![TierOf(c)] = c]
            /\ job' = [job EXCEPT ![c] = "path"]
       ELSE /\ job' = [job EXCEPT ![c] = "delete"]
            /\ UNCHANGED claim
  /\ UNCHANGED <<status, path, stat, promoted, gone, work>>

\* The conditional UPDATE of ClaimMediaItemForDebridItem / ...NZBDownload.
Claim(c) ==
  /\ job[c] = "claim"
  /\ IF status # "owned" /\ claim[TierOf(c)] = None
       THEN /\ claim' = [claim EXCEPT ![TierOf(c)] = c]
            /\ job' = [job EXCEPT ![c] = "path"]
       ELSE /\ job' = [job EXCEPT ![c] = "delete"]
            /\ UNCHANGED claim
  /\ UNCHANGED <<status, path, stat, promoted, gone, work>>

\* What follows a promotion: run() is over, catchUpDownload still finishes.
Used(c) == IF c \in Debrid THEN "none" ELSE "finish"

SetPath(c) ==
  /\ job[c] = "path"
  /\ status' = "owned"
  /\ path' = c
  /\ job' = [job EXCEPT ![c] = "mark"]
  /\ UNCHANGED <<claim, stat, promoted, gone, work>>

\* Mutant: the candidate counts as unused after a failed write.
SetPathFailsUnused(c) ==
  /\ "writefail" \in Events
  /\ job[c] = "path"
  /\ job' = [job EXCEPT ![c] = "delete"]
  /\ UNCHANGED <<item, stat, promoted, gone, work>>

\* "claimed and the stream is real -- don't delete it"
SetPathFails(c) ==
  /\ "writefail" \in Events
  /\ job[c] = "path"
  /\ job' = [job EXCEPT ![c] = Used(c)]
  /\ UNCHANGED <<item, stat, promoted, gone, work>>

\* Mutant: MarkDebridItemPromoted / MarkNZBPromoted fails and the candidate
\* counts as unused.
MarkUnused(c) ==
  /\ job[c] = "mark"
  /\ job' = [job EXCEPT ![c] = "delete"]
  /\ UNCHANGED <<item, stat, promoted, gone, work>>

\* MarkDebridItemPromoted / MarkNZBPromoted
Mark(c) ==
  /\ job[c] = "mark"
  /\ promoted' = promoted \cup {c}
  /\ job' = [job EXCEPT ![c] = Used(c)]
  /\ UNCHANGED <<item, stat, gone, work>>

\* Mutant: a loser is deleted only once a winner has the item.
DeleteAfterWinner(c) ==
  /\ job[c] = "delete"
  /\ status = "owned"
  /\ gone' \in {gone, gone \cup {c}}
  /\ job' = [job EXCEPT ![c] = IF c \in Debrid THEN "none" ELSE "fail"]
  /\ UNCHANGED <<item, stat, promoted, work>>

\* deleteFromProvider / deleteFromTorBox: best effort.
Delete(c) ==
  /\ job[c] = "delete"
  /\ gone' \in {gone, gone \cup {c}}
  /\ job' = [job EXCEPT ![c] = IF c \in Debrid THEN "none" ELSE "fail"]
  /\ UNCHANGED <<item, stat, promoted, work>>

\* FinishNZBDownload, after the promotion or after the deletion.
Finish(c) ==
  /\ job[c] \in {"finish", "fail"}
  /\ stat' = [stat EXCEPT ![c] = IF job[c] = "finish" THEN "complete" ELSE "error"]
  /\ job' = [job EXCEPT ![c] = "none"]
  /\ UNCHANGED <<item, promoted, gone, work>>

----------------------------------------------------------------------------
(* The environment.                                                        *)

\* A library scan finds a file for this very row: it always wins.
Scan ==
  /\ "scan" \in Events
  /\ <<status, path>> # <<"owned", LocalFile>>
  /\ status' = "owned"
  /\ path' = LocalFile
  /\ UNCHANGED <<claim, rows, work>>

\* The process dies and starts again: the goroutines are gone, and
\* ResetStuckAcquisitions runs before anything else.  A debrid resolve is never
\* resumed; an NZB download is picked up by the first sync sweep if TorBox had
\* accepted it.
Restart ==
  /\ "restart" \in Events
  /\ (\E a \in Attempt : ~Free(a)) \/ (\E c \in Candidate : job[c] # "none")
  /\ status' = IF status \in InFlight THEN "error" ELSE status
  /\ \E resumed \in SUBSET {c \in Nzb : job[c] # "none" /\ stat[c] = "pending"} :
       job' = [c \in Candidate |-> IF c \in resumed THEN "resolve" ELSE "none"]
  /\ pc' = [a \in Attempt |-> "idle"]
  /\ caller' = [a \in Attempt |-> None]
  /\ tier' = [a \in Attempt |-> [t \in Tier |-> "off"]]
  /\ launched' = [a \in Attempt |-> {}]
  /\ UNCHANGED <<path, claim, stat, promoted, gone, left>>

----------------------------------------------------------------------------

Begin(a) ==
  BeginAcquire(a) \/ BeginReacquire(a) \/ BeginSoft(a) \/ BeginUpgrade(a)

Call(a) ==
  \/ FastStart(a) \/ FastReset(a) \/ FastAdd(a) \/ FastAddFails(a)
  \/ FastPoll(a) \/ FastCheck(a)
  \/ StartCheck(a) \/ SetSearching(a) \/ WebDAVHit(a)
  \/ Launch(a) \/ LaunchFails(a) \/ RunWon(a) \/ RunLost(a) \/ Fail(a)
  \/ Upgrade(a)

TierStep(a, t) ==
  \/ SearchFails(a, t) \/ Search(a, t) \/ NextRound(a, t)
  \/ ResetClaim(a, t) \/ SetAcquiring(a, t)
  \/ (\E c \in Candidate : LaunchCandidate(a, t, c)) \/ LaunchOver(a, t)
  \/ Poll(a, t) \/ Check(a, t)

Resolve(c) == Resolved(c) \/ ResolveFails(c)

Promote(c) ==
  Reject(c) \/ Claim(c) \/ SetPath(c) \/ SetPathFails(c) \/ Mark(c)
  \/ Delete(c) \/ Finish(c)

Next ==
  \/ \E a \in Attempt : Begin(a) \/ Call(a) \/ FastTimeout(a)
  \/ \E a \in Attempt, t \in Tier : TierStep(a, t) \/ RaceTimeout(a, t)
  \/ \E c \in Candidate : Resolve(c) \/ Promote(c)
  \/ Scan
  \/ Restart

\* Goroutines are scheduled; a poll loop meets its deadline (strong fairness:
\* the clock is past it for good, but is read in one state of the loop only).
\* A debrid resolve ends within resolveTimeout; nothing bounds how long TorBox
\* works on an NZB.
Fairness ==
  /\ \A a \in Attempt : WF_vars(Call(a)) /\ SF_vars(FastTimeout(a))
  /\ \A a \in Attempt, t \in Tier :
        WF_vars(TierStep(a, t)) /\ SF_vars(RaceTimeout(a, t))
  /\ \A c \in Debrid : WF_vars(Resolve(c))
  /\ \A c \in Candidate : WF_vars(Promote(c))

Spec == Init /\ [][Next]_vars /\ Fairness

----------------------------------------------------------------------------
(* Properties.                                                             *)

\* Every variable has its type.
TypeOK ==
  /\ status \in Status
  /\ path \in Link \cup {None}
  /\ claim \in [Tier -> Candidate \cup {None}]
  /\ \A t \in Tier : claim[t] \in Of(t) \cup {None}
  /\ stat \in [Candidate -> {"absent", "pending", "complete", "error"}]
  /\ promoted \subseteq Candidate \cup {OldLink}
  /\ gone \subseteq Candidate
  /\ job \in [Candidate -> Job]
  /\ pc \in [Attempt -> Pc]
  /\ caller \in [Attempt -> Caller \cup {None}]
  /\ tier \in [Attempt -> [Tier -> TierPc]]
  /\ left \in [Attempt -> [Tier -> Nat]]
  /\ launched \in [Attempt -> SUBSET Candidate]

\* handlePlayItem relies on it: an item that says 'owned' has a link to play,
\* although a failed background attempt writes 'owned' back without looking at
\* the row (fail, revertUpgradeAttempt).
OwnedHasPath == status = "owned" => path # None

\* A losing candidate is deleted from the provider, the one the item plays
\* never is.
PlayedLinkIsKept == path \notin gone

\* A download that holds the item's claim is never one that was thrown away:
\* winningDebridItem and FindWebDAVPathFromNZB follow the claim.
ClaimantIsKept == \A t \in Tier : claim[t] \notin gone

\* ResetStuckAcquisitions: 'searching' and 'acquiring' only ever exist while a
\* goroutine is working on the item, so the item cannot hang there.
InFlightIsWorked == status \in InFlight => \E a \in Attempt : ~Free(a)

\* A background pass (refreshDeadLinks, checkQualityUpgrades) never takes an
\* item out of the library for good: once nothing works on it, an item that
\* had a link is owned again.
HygieneNeverDemotes ==
  (\A a \in Attempt : Free(a)) /\ path # None => status = "owned"

\* With one attempt on the item at a time, the claim picks one winner among the
\* candidates of a race, however close together they resolve and whatever
\* earlier races left behind.
RaceHasOneWinner ==
  \A a \in Attempt, t \in Tier : \A c, d \in launched[a] \cap Of(t) :
    {job[c], job[d]} \subseteq {"path", "mark"} => c = d

\* An item never hangs in 'searching' or 'acquiring'.
InFlightEnds == status \in InFlight ~> status \notin InFlight

\* What a viewer may count on (see ItemPromise).
Promise == INSTANCE ItemPromise
KeepsPromise == Promise!Spec

\* Every call and both its tiers come to an end.
AttemptEnds == \A a \in Attempt : ~Free(a) ~> Free(a)

\* A candidate that lost, or was no use, does not stay on the provider for want
\* of trying: its goroutine ends.
ResolveEnds == \A c \in Debrid : job[c] # "none" ~> job[c] = "none"
=============================================================================
