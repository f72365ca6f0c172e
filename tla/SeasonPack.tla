------------------------------ MODULE SeasonPack ------------------------------
(* The episodes of one season of a monitored series: the monitor's sweep, the*)
(* packs it races for the season, the fallback to single episodes, and the   *)
(* promotion of a pack episode by episode, late or not (acquisition/         *)
(* monitor.go, acquisition/service.go, debrid/promote.go, nzb/promote.go).   *)
(* A single episode's attempt is what Acquisition has in detail: here it is  *)
(* one candidate of its own, "single".                                       *)
EXTENDS Naturals, FiniteSets

CONSTANTS
  Episode,
  Viewed,          \* bound: the episodes a viewer presses play on
  Torrent, Usenet, \* debrid_items and nzb_downloads rows of packs
  Offers           \* sets of packs, one of which the indexers have

Pack == Torrent \cup Usenet

\* Where a pack's resolve and promotion are, but for the episode it is claiming.
Place == {"none", "resolve", "promote", "delete", "deleted", "kept", "failed"}

ConstantsOK ==
  /\ IsFiniteSet(Episode) /\ Viewed \subseteq Episode
  /\ Torrent \cap Usenet = {} /\ Offers \subseteq SUBSET Pack
  /\ Episode \cap Place = {} /\ Pack \cap {"none", "single"} = {}

Tier == {"torrent", "nzb"}
Of(t) == IF t = "torrent" THEN Torrent ELSE Usenet
TierOf(p) == IF p \in Torrent THEN "torrent" ELSE "nzb"

VARIABLES
  status,    \* episode -> acquisition_status; "searching" stands for "acquiring" too
  path,      \* episode -> a pack, "single" or "none"
  claimed,   \* <<tier, episode>> whose active_debrid_item_id or active_nzb_download_id is set
  season,    \* the season's acquisition_status
  attempts,  \* episodes an attempt works on
  monitor,   \* where the sweep is
  fallback,  \* episodes the sweep has yet to acquire one by one
  job,       \* pack -> where its resolve and promotion are
  files,     \* pack -> episodes its promotion has not come to
  used       \* packs whose promoted count is above 0

episodeVars == <<status, path, claimed>>
monitorVars == <<monitor, fallback>>
packVars == <<job, files, used>>
vars == <<episodeVars, season, attempts, monitorVars, packVars>>

Pending == {e \in Episode : status[e] \in {"placeholder", "error"}}

-----------------------------------------------------------------------------
(* Acquire, of the monitor or of a viewer.                                 *)

\* startAcquire, of an episode that is neither owned nor searched for.
Acquire(e) ==
  IF e \in Pending
  THEN /\ status' = [status EXCEPT ![e] = "searching"]
       /\ attempts' = attempts \cup {e}
  ELSE UNCHANGED <<status, attempts>>

Play(e) ==
  /\ e \in Viewed \cap Pending /\ Acquire(e)
  /\ UNCHANGED <<path, claimed, season, monitorVars, packVars>>

\* Before the race of every account, packs or not.
ResetClaims(e) ==
  /\ e \in attempts
  /\ claimed' = claimed \ (Tier \X {e})
  /\ UNCHANGED <<status, path, season, attempts, monitorVars, packVars>>

End(e) == e \in attempts /\ attempts' = attempts \ {e}

\* Its candidate gets the claim and sets the path: nothing but another attempt
\* looks at the claim from then on.
SingleDelivers(e) ==
  /\ End(e)
  /\ status[e] # "owned" /\ \E t \in Tier : <<t, e>> \notin claimed
  /\ status' = [status EXCEPT ![e] = "owned"] /\ path' = [path EXCEPT ![e] = "single"]
  /\ UNCHANGED <<claimed, season, monitorVars, packVars>>

\* A pack delivered: the race counts as won.
SingleSeesOwned(e) ==
  /\ End(e) /\ status[e] = "owned"
  /\ UNCHANGED <<episodeVars, season, monitorVars, packVars>>

\* Written without a look at what the row says by now.
SingleFails(e) ==
  /\ End(e)
  /\ status' = [status EXCEPT ![e] = "error"]
  /\ UNCHANGED <<path, claimed, season, monitorVars, packVars>>

-----------------------------------------------------------------------------
(* grabPlaceholderEpisodes and AcquireSeasonPack, one goroutine.           *)

\* Mutant: a season that is marked owned is taken for settled.
SweepUnsettled ==
  /\ monitor = "idle" /\ Pending # {} /\ season # "owned"
  /\ IF Cardinality(Pending) = 1
     THEN monitor' = "fallback" /\ fallback' = Pending
     ELSE monitor' = "torrent" /\ UNCHANGED fallback
  /\ UNCHANGED <<episodeVars, season, attempts, packVars>>

\* Whatever the season's own row says.
Sweep ==
  /\ monitor = "idle" /\ Pending # {}
  /\ IF Cardinality(Pending) = 1
     THEN monitor' = "fallback" /\ fallback' = Pending
     ELSE monitor' = "torrent" /\ UNCHANGED fallback
  /\ UNCHANGED <<episodeVars, season, attempts, packVars>>

\* The packs found are raced on the next account, or on Usenet.
Race(t) ==
  /\ monitor = t
  /\ monitor' = IF t = "torrent" THEN "pollTorrent" ELSE "pollNzb"
  /\ season' = "acquiring"
  /\ \E round \in SUBSET {p \in Of(t) : job[p] = "none"} \ {{}} :
       job' = [p \in Pack |-> IF p \in round THEN "resolve" ELSE job[p]]
  /\ UNCHANGED <<episodeVars, attempts, fallback, files, used>>

\* No indexer, search failed, no pack among the results, no account left.
NoRace(t) ==
  /\ monitor = t
  /\ IF t = "torrent" THEN monitor' = "nzb" /\ UNCHANGED fallback
     ELSE monitor' = "fallback" /\ fallback' = Pending
  /\ UNCHANGED <<episodeVars, season, attempts, packVars>>

Polling(t) == monitor = IF t = "torrent" THEN "pollTorrent" ELSE "pollNzb"

RaceWon(t) ==
  /\ Polling(t) /\ season = "owned"
  /\ monitor' = "idle"
  /\ UNCHANGED <<episodeVars, season, attempts, fallback, packVars>>

\* Every row is ready or failed, though a ready one may be about to promote; or
\* the deadline is over. The race's context is cancelled, which ends no resolve
\* that has its answer.
RaceLost(t) ==
  /\ Polling(t) /\ season # "owned"
  /\ IF t = "torrent" THEN monitor' = "torrent" /\ UNCHANGED fallback
     ELSE monitor' = "fallback" /\ fallback' = Pending
  /\ UNCHANGED <<episodeVars, season, attempts, packVars>>

\* The claims that are cleared before the fallback are the season's, which no
\* pack ever sets.
Fallback ==
  /\ monitor = "fallback"
  /\ IF fallback = {} THEN monitor' = "idle" /\ UNCHANGED <<fallback, status, attempts>>
     ELSE \E e \in fallback :
            Acquire(e) /\ fallback' = fallback \ {e} /\ UNCHANGED monitor
  /\ UNCHANGED <<path, claimed, season, packVars>>

-----------------------------------------------------------------------------
(* A pack.                                                                 *)

\* The children of the season are listed, and the files matched to them by their
\* names, the largest each.
Resolved(p) ==
  /\ job[p] = "resolve"
  /\ job' = [job EXCEPT ![p] = "promote"] /\ files' = [files EXCEPT ![p] = Episode]
  /\ UNCHANGED <<episodeVars, season, attempts, monitorVars, used>>

ResolveFails(p) ==
  /\ job[p] = "resolve"
  /\ job' = [job EXCEPT ![p] = "failed"]
  /\ UNCHANGED <<episodeVars, season, attempts, monitorVars, files, used>>

\* No file for the episode, not the runtime expected, or the claim fails.
SkipFile(p, e) ==
  /\ job[p] = "promote" /\ e \in files[p]
  /\ files' = [files EXCEPT ![p] = @ \ {e}]
  /\ UNCHANGED <<episodeVars, season, attempts, monitorVars, job, used>>

ClaimEpisode(p, e) ==
  /\ job[p] = "promote" /\ e \in files[p]
  /\ status[e] # "owned" /\ <<TierOf(p), e>> \notin claimed
  /\ claimed' = claimed \cup {<<TierOf(p), e>>}
  /\ job' = [job EXCEPT ![p] = e]
  /\ UNCHANGED <<status, path, season, attempts, monitorVars, files, used>>

SetEpisodePath(p, e) ==
  /\ job[p] = e
  /\ status' = [status EXCEPT ![e] = "owned"] /\ path' = [path EXCEPT ![e] = p]
  /\ used' = used \cup {p}
  /\ files' = [files EXCEPT ![p] = @ \ {e}] /\ job' = [job EXCEPT ![p] = "promote"]
  /\ UNCHANGED <<claimed, season, attempts, monitorVars>>

\* The claim stays, the episode does not count.
SetPathFails(p, e) ==
  /\ job[p] = e
  /\ files' = [files EXCEPT ![p] = @ \ {e}] /\ job' = [job EXCEPT ![p] = "promote"]
  /\ UNCHANGED <<episodeVars, season, attempts, monitorVars, used>>

\* Mutant: a pack has to give every episode that it had a file for.
PromotedIfComplete(p) ==
  /\ job[p] = "promote" /\ files[p] = {}
  /\ IF p \in used /\ Pending = {}
     THEN season' = "owned" /\ job' = [job EXCEPT ![p] = "kept"]
     ELSE UNCHANGED season /\ job' = [job EXCEPT ![p] = "delete"]
  /\ UNCHANGED <<episodeVars, attempts, monitorVars, files, used>>

\* One episode is enough for the season to be owned.
Promoted(p) ==
  /\ job[p] = "promote" /\ files[p] = {}
  /\ IF p \in used
     THEN season' = "owned" /\ job' = [job EXCEPT ![p] = "kept"]
     ELSE UNCHANGED season /\ job' = [job EXCEPT ![p] = "delete"]
  /\ UNCHANGED <<episodeVars, attempts, monitorVars, files, used>>

\* Best effort.
DeletePack(p) ==
  /\ job[p] = "delete"
  /\ \E result \in {"deleted", "failed"} : job' = [job EXCEPT ![p] = result]
  /\ UNCHANGED <<episodeVars, season, attempts, monitorVars, files, used>>

-----------------------------------------------------------------------------

Init ==
  /\ status = [e \in Episode |-> "placeholder"]
  /\ path = [e \in Episode |-> "none"]
  /\ claimed = {}
  /\ season = "placeholder"
  /\ attempts = {}
  /\ monitor = "idle" /\ fallback = {}
  /\ \E offer \in Offers : job = [p \in Pack |-> IF p \in offer THEN "none" ELSE "failed"]
  /\ files = [p \in Pack |-> {}]
  /\ used = {}

Single(e) ==
  \/ ResetClaims(e) \/ SingleDelivers(e) \/ SingleSeesOwned(e) \/ SingleFails(e)

Monitor ==
  \/ Sweep \/ Fallback
  \/ \E t \in Tier : Race(t) \/ NoRace(t) \/ RaceWon(t) \/ RaceLost(t)

Promotion(p) ==
  \/ Promoted(p) \/ DeletePack(p)
  \/ \E e \in Episode :
       SkipFile(p, e) \/ ClaimEpisode(p, e) \/ SetEpisodePath(p, e) \/ SetPathFails(p, e)

Next ==
  \/ Monitor
  \/ \E e \in Episode : Play(e) \/ Single(e)
  \/ \E p \in Pack : Resolved(p) \/ ResolveFails(p) \/ Promotion(p)

\* The monitor ticks and its races meet their deadlines; nothing bounds how
\* long an NZB takes.
Fairness == WF_vars(Monitor)

Spec == Init /\ [][Next]_vars /\ Fairness

-----------------------------------------------------------------------------
(* Properties.                                                             *)

\* The rows of the season and of its episodes, and the packs on their way.
TypeOK ==
  /\ status \in [Episode -> {"placeholder", "searching", "owned", "error"}]
  /\ path \in [Episode -> Pack \cup {"none", "single"}]
  /\ claimed \subseteq Tier \X Episode
  /\ season \in {"placeholder", "acquiring", "owned"}
  /\ attempts \subseteq Episode
  /\ monitor \in Tier \cup {"idle", "pollTorrent", "pollNzb", "fallback"}
  /\ fallback \subseteq Episode
  /\ job \in [Pack -> Episode \cup Place]
  /\ files \in [Pack -> SUBSET Episode]
  /\ \A p \in Pack : files[p] # {} => job[p] \in Episode \cup {"promote"}
  /\ used \subseteq Pack

\* A pack that an episode plays is never deleted at the provider, though packs
\* split a season, come after the fallback began and meet failing writes.
PlayedPackIsKept == \A e \in Episode : path[e] \in Pack => job[path[e]] # "deleted"

\* A pending episode is searched for or delivered in the end: neither a pack
\* that brings other episodes of the season, which is owned then, nor a claim
\* left behind takes it out of the sweeps.
IsTried(e) == e \in Pending ~> e \notin Pending
=============================================================================
