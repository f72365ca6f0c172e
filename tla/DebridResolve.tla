--------------------------- MODULE DebridResolve ---------------------------
(* A debrid resolve from AddLink to its end: the protocol of each of the    *)
(* five providers over an account with few slots, what the service records  *)
(* of it, and an admin's Remove meanwhile (debrid/*.go, store/debrid.go).   *)
(* Acquisition has the outcome of a resolve only.                           *)
EXTENDS Naturals, FiniteSets

CONSTANTS
  Link,      \* debrid_items rows that may be created
  Kinds,     \* providers the account may be of: a subset of Provider
  Capacity   \* active torrents the account may hold

Provider == {"realdebrid", "torbox", "alldebrid", "premiumize", "debridlink"}
ConstantsOK == Kinds \subseteq Provider /\ Capacity \in Nat

VARIABLES
  provider,  \* the account's
  row,       \* link -> debrid_items.status
  error,     \* link -> debrid_items.error, by its cause
  ref,       \* links whose provider_ref is recorded
  at,        \* link -> where its run is
  ctx,       \* link -> its context: "live", or "over" by cancel or timeout
  entry,     \* link -> its torrent, magnet or transfer on the account
  removal,   \* link -> progress of an admin's Remove
  restarted  \* whether the process died once

recordVars == <<row, error, ref>>
vars == <<provider, recordVars, at, ctx, entry, removal, restarted>>

Held == {"converting", "waiting", "working", "cached", "dead"}
Requesting == {"direct", "add", "select", "poll", "links", "stray"}
Recording == {"ref", "finish", "promote", "delete"}

Goto(r, where) == at' = [at EXCEPT ![r] = where]
Becomes(r, state) == entry' = [entry EXCEPT ![r] = state]

\* AddLink's row, and the goroutine of run.
AddLink(r) ==
  /\ row[r] = "none"
  /\ row' = [row EXCEPT ![r] = "resolving"]
  /\ Goto(r, IF provider = "premiumize" THEN "direct" ELSE "add")
  /\ ctx' = [ctx EXCEPT ![r] = "live"]
  /\ UNCHANGED <<provider, error, ref, entry, removal, restarted>>

-----------------------------------------------------------------------------
(* The provider.                                                           *)

\* A magnet is converted, files are downloaded, or the torrent turns out dead;
\* what is finished may be removed by hand or expire.
Progress(r) ==
  /\ \/ entry[r] = "converting" /\ Becomes(r, "waiting")
     \/ entry[r] = "working" /\ Becomes(r, "cached")
     \/ entry[r] \in {"converting", "working"} /\ Becomes(r, "dead")
     \/ entry[r] \in Held /\ Becomes(r, "gone")
  /\ UNCHANGED <<provider, recordVars, at, ctx, removal, restarted>>

Room == Cardinality({r \in Link : entry[r] \in Held}) < Capacity

-----------------------------------------------------------------------------
(* The clients' requests. A kind of error is what do makes of the HTTP      *)
(* status and check of the answer's envelope: "limited" is a 429 without a  *)
(* Retry-After, "limitedUntil" one with it, "server" a 5xx of TorBox. A     *)
(* request whose context is over is not sent.                               *)

RealDebridDo == {"limited", "limitedUntil", "auth", "other"}
TorBoxDo == {"limited", "limitedUntil", "auth", "server", "other"}
AllDebridDo == {"limited", "limitedUntil", "auth", "other"}
AllDebridCheck == {"auth", "quota", "other"}
PremiumizeDo == {"limited", "limitedUntil", "other"}
PremiumizeCheck == {"auth", "quota", "other"}
DebridLinkDo == {"limited", "limitedUntil", "auth", "other"}
DebridLinkCheck == {"auth", "quota", "other"}

Errors(r) ==
  IF ctx[r] = "over" THEN {"other"}
  ELSE CASE provider = "realdebrid" -> RealDebridDo
         [] provider = "torbox"     -> TorBoxDo
         [] provider = "alldebrid"  -> AllDebridDo \cup AllDebridCheck
         [] provider = "premiumize" -> PremiumizeDo \cup PremiumizeCheck
         [] provider = "debridlink" -> DebridLinkDo \cup DebridLinkCheck

Kind(e) == CASE e = "limitedUntil" -> "limited" [] e = "server" -> "other" [] OTHER -> e

\* A run that gets an error writes it, if it can, and knows no id it could delete.
Fail(r, kind) ==
  /\ \/ /\ Goto(r, "over")
        /\ row' = [row EXCEPT ![r] = "error"] /\ error' = [error EXCEPT ![r] = kind]
     \/ Goto(r, "broken") /\ UNCHANGED <<row, error>>
  /\ UNCHANGED <<provider, ref, ctx, removal, restarted>>

FailFor(r, errors) == \E e \in errors : Fail(r, Kind(e))

Proceed(r, where) ==
  /\ Goto(r, where)
  /\ UNCHANGED <<provider, recordVars, ctx, removal, restarted>>

\* Mutant: every error of a poll is taken for transient.
ToleratedAll(e) == TRUE

\* What a poll loop takes for a reason to ask again, after the Retry-After
\* (capRetry makes nothing of none) or, with TorBox, the interval.
Tolerated(e) == e \in {"limitedUntil", "server"}

-----------------------------------------------------------------------------
(* The first request of a resolve puts an entry on the account.             *)

\* The answer comes, or an error, or the answer is lost on its way back.
Upload(r, of, states) ==
  /\ at[r] = "add" /\ provider = of
  /\ \/ /\ ctx[r] = "live" /\ Room
        /\ \E state \in states :
             /\ Becomes(r, state)
             /\ \/ Proceed(r, IF of = "alldebrid" /\ state = "cached" THEN "links" ELSE "poll")
                \/ Fail(r, "other")
     \/ UNCHANGED entry /\ FailFor(r, Errors(r))

\* A magnet of Real-Debrid waits for its files to be selected; AllDebrid's
\* answer says whether the magnet is ready; the others only give an id.
AddMagnet(r) == Upload(r, "realdebrid", {"converting"})
CreateTorrent(r) == Upload(r, "torbox", {"working", "cached"})
UploadMagnet(r) == Upload(r, "alldebrid", {"working", "cached"})
CreateTransfer(r) == Upload(r, "premiumize", {"working", "cached"})
AddTorrent(r) == Upload(r, "debridlink", {"working", "cached"})

\* Premiumize asks for the links of what its cache has, and goes on to a
\* transfer if there are none or the request fails.
DirectDL(r) ==
  /\ at[r] = "direct" /\ provider = "premiumize"
  /\ \/ ctx[r] = "live" /\ Proceed(r, "finish")
     \/ Proceed(r, "add")
  /\ UNCHANGED entry

-----------------------------------------------------------------------------
(* Polls. One whose deadline passed ends with its context, which was given  *)
(* the same twenty minutes earlier.                                         *)

\* Mutant: the files are taken for downloaded once they are selected.
PollUntilSelected(r) ==
  /\ at[r] = "poll" /\ provider = "realdebrid" /\ UNCHANGED entry
  /\ \/ ctx[r] = "live" /\ entry[r] = "waiting" /\ Proceed(r, "select")
     \/ ctx[r] = "live" /\ entry[r] \in {"working", "cached"} /\ Proceed(r, "links")
     \/ ctx[r] = "live" /\ entry[r] = "dead" /\ Fail(r, "permanent")
     \/ ctx[r] = "live" /\ entry[r] = "gone" /\ Fail(r, "other")
     \/ FailFor(r, {e \in Errors(r) : ~Tolerated(e)})

\* Once for the selection and once more for the download: what the first waits
\* for is over when the second asks. Without links the result has no files.
PollUntil(r) ==
  /\ at[r] = "poll" /\ provider = "realdebrid" /\ UNCHANGED entry
  /\ \/ ctx[r] = "live" /\ entry[r] = "waiting" /\ Proceed(r, "select")
     \/ ctx[r] = "live" /\ entry[r] = "cached" /\ (Proceed(r, "links") \/ Proceed(r, "ref"))
     \/ ctx[r] = "live" /\ entry[r] = "dead" /\ Fail(r, "permanent")
     \/ ctx[r] = "live" /\ entry[r] = "gone" /\ Fail(r, "other")
     \/ FailFor(r, {e \in Errors(r) : ~Tolerated(e)})

\* torrentInfo falls back to the first torrent of the list, whosever it is, when
\* the one asked for is not in it.
Fallback(r) ==
  /\ ctx[r] = "live" /\ entry[r] \in {"working", "gone"}
  /\ Proceed(r, "stray") \/ Fail(r, "permanent")

\* The list of the account's torrents. Nothing finished in it: it is asked again.
WaitForCache(r) ==
  /\ at[r] = "poll" /\ provider = "torbox" /\ UNCHANGED entry
  /\ \/ ctx[r] = "live" /\ entry[r] = "cached" /\ (Proceed(r, "links") \/ Proceed(r, "ref"))
     \/ ctx[r] = "live" /\ entry[r] = "dead" /\ Fail(r, "permanent")
     \/ Fallback(r)
     \/ FailFor(r, {e \in Errors(r) : ~Tolerated(e)})

\* AllDebrid: ready is status 4, what is above it terminal.
WaitUntilReady(r) ==
  /\ at[r] = "poll" /\ provider = "alldebrid" /\ UNCHANGED entry
  /\ \/ ctx[r] = "live" /\ entry[r] = "cached" /\ Proceed(r, "links")
     \/ ctx[r] = "live" /\ entry[r] = "dead" /\ Fail(r, "permanent")
     \/ ctx[r] = "live" /\ entry[r] = "gone" /\ Fail(r, "other")
     \/ FailFor(r, {e \in Errors(r) : ~Tolerated(e)})

\* Premiumize: a list again, and a transfer that is not in it is waited for.
WaitForTransfer(r) ==
  /\ at[r] = "poll" /\ provider = "premiumize" /\ UNCHANGED entry
  /\ \/ ctx[r] = "live" /\ entry[r] = "cached" /\ Proceed(r, "links")
     \/ ctx[r] = "live" /\ entry[r] = "dead" /\ Fail(r, "permanent")
     \/ FailFor(r, {e \in Errors(r) : ~Tolerated(e)})

\* Debrid-Link: the answer that ends the loop has the links, or no file.
WaitUntilDownloaded(r) ==
  /\ at[r] = "poll" /\ provider = "debridlink" /\ UNCHANGED entry
  /\ \/ ctx[r] = "live" /\ entry[r] = "cached" /\ (Proceed(r, "ref") \/ Fail(r, "other"))
     \/ ctx[r] = "live" /\ entry[r] = "dead" /\ Fail(r, "permanent")
     \/ ctx[r] = "live" /\ entry[r] = "gone" /\ Fail(r, "other")
     \/ FailFor(r, {e \in Errors(r) : ~Tolerated(e)})

\* Real-Debrid's files to download: the videos. None is an error, without a
\* request; an answer may be lost.
SelectFiles(r) ==
  /\ at[r] = "select" /\ provider = "realdebrid"
  /\ \/ /\ ctx[r] = "live" /\ entry[r] = "waiting" /\ Becomes(r, "working")
        /\ Proceed(r, "poll") \/ Fail(r, "other")
     \/ UNCHANGED entry /\ FailFor(r, Errors(r))

-----------------------------------------------------------------------------
(* The links of the files.                                                 *)

\* What the poll listed is asked for, and only what is gone is refused for sure.
Fetch(r, of) ==
  /\ at[r] = "links" /\ provider = of /\ UNCHANGED entry
  /\ \/ ctx[r] = "live" /\ entry[r] # "gone" /\ Proceed(r, "ref")
     \/ FailFor(r, Errors(r))

\* One request per link or file, at once, the first error of which is the resolve's.
UnrestrictLinks(r) == Fetch(r, "realdebrid")

\* With the ids of another torrent's files after a Fallback; it may have had none.
RequestDownloadLinks(r) ==
  \/ Fetch(r, "torbox")
  \/ /\ at[r] = "stray" /\ UNCHANGED entry
     /\ Proceed(r, "ref") \/ FailFor(r, Errors(r))

\* One request, and no file is an error.
MagnetFiles(r) == Fetch(r, "alldebrid")

\* One request for the transfer's file, or one per folder below its own, the
\* first error of which is the resolve's.
FolderFiles(r) == Fetch(r, "premiumize")

-----------------------------------------------------------------------------
(* The rest of run.                                                        *)

\* The ref is its own statement; an error of it is logged.
RecordRef(r) ==
  /\ at[r] = "ref"
  /\ Goto(r, "finish")
  /\ ref' \in {ref, ref \cup {r}}
  /\ UNCHANGED <<provider, row, error, ctx, entry, removal, restarted>>

\* The files are added, the row is finished whatever it says by now; if that
\* fails, nothing comes of the resolve.
Finish(r) ==
  /\ at[r] = "finish"
  /\ \/ row' = [row EXCEPT ![r] = "ready"] /\ Goto(r, "promote")
     \/ UNCHANGED row /\ Goto(r, "broken")
  /\ UNCHANGED <<provider, error, ref, ctx, entry, removal, restarted>>

\* onComplete says whether the files are used, and run deletes them else.
Promote(r) ==
  /\ at[r] = "promote"
  /\ Goto(r, "kept") \/ Goto(r, "delete")
  /\ UNCHANGED <<provider, recordVars, ctx, entry, removal, restarted>>

\* One call, whose error is logged.
DeleteAtProvider(r) ==
  entry' \in {entry, [entry EXCEPT ![r] = IF r \in ref /\ @ \in Held THEN "gone" ELSE @]}

DeleteUnused(r) ==
  /\ at[r] = "delete"
  /\ DeleteAtProvider(r)
  /\ Goto(r, "over")
  /\ UNCHANGED <<provider, recordVars, ctx, removal, restarted>>

-----------------------------------------------------------------------------
(* Remove, and the end of contexts and processes.                          *)

BeginRemove(r) ==
  /\ removal[r] = "none" /\ row[r] \notin {"none", "removed"}
  /\ removal' = [removal EXCEPT ![r] = IF r \in ref THEN "delete" ELSE "mark"]
  /\ UNCHANGED <<provider, recordVars, at, ctx, entry, restarted>>

RemoveAtProvider(r) ==
  /\ removal[r] = "delete"
  /\ DeleteAtProvider(r)
  /\ removal' = [removal EXCEPT ![r] = "mark"]
  /\ UNCHANGED <<provider, recordVars, at, ctx, restarted>>

MarkRemoved(r) ==
  /\ removal[r] = "mark"
  /\ removal' = [removal EXCEPT ![r] = "none"]
  /\ row' = [row EXCEPT ![r] = "removed"]
  /\ UNCHANGED <<provider, error, ref, at, ctx, entry, restarted>>

\* The race is over, or resolveTimeout.
Expire(r) ==
  /\ at[r] \in Requesting /\ ctx[r] = "live"
  /\ ctx' = [ctx EXCEPT ![r] = "over"]
  /\ UNCHANGED <<provider, recordVars, at, entry, removal, restarted>>

\* Nothing takes a resolve up again.
Restart ==
  /\ ~restarted /\ restarted' = TRUE
  /\ at' = [r \in Link |-> IF at[r] \in Requesting \cup Recording THEN "lost" ELSE at[r]]
  /\ removal' = [r \in Link |-> "none"]
  /\ UNCHANGED <<provider, recordVars, ctx, entry>>

-----------------------------------------------------------------------------
Init ==
  /\ provider \in Kinds
  /\ row = [r \in Link |-> "none"] /\ error = [r \in Link |-> "none"] /\ ref = {}
  /\ at = [r \in Link |-> "none"] /\ ctx = [r \in Link |-> "over"]
  /\ entry = [r \in Link |-> "none"] /\ removal = [r \in Link |-> "none"]
  /\ restarted = FALSE

\* The five clients' Resolve.
ResolveRealDebrid(r) == AddMagnet(r) \/ PollUntil(r) \/ SelectFiles(r) \/ UnrestrictLinks(r)
ResolveTorBox(r) == CreateTorrent(r) \/ WaitForCache(r) \/ RequestDownloadLinks(r)
ResolveAllDebrid(r) == UploadMagnet(r) \/ WaitUntilReady(r) \/ MagnetFiles(r)
ResolvePremiumize(r) == DirectDL(r) \/ CreateTransfer(r) \/ WaitForTransfer(r) \/ FolderFiles(r)
ResolveDebridLink(r) == AddTorrent(r) \/ WaitUntilDownloaded(r)

Resolve(r) ==
  \/ ResolveRealDebrid(r) \/ ResolveTorBox(r) \/ ResolveAllDebrid(r)
  \/ ResolvePremiumize(r) \/ ResolveDebridLink(r)
Record(r) == RecordRef(r) \/ Finish(r) \/ Promote(r) \/ DeleteUnused(r)
Remove(r) == BeginRemove(r) \/ RemoveAtProvider(r) \/ MarkRemoved(r)

Next ==
  \/ Restart
  \/ \E r \in Link :
       \/ AddLink(r) \/ Progress(r) \/ Expire(r)
       \/ Resolve(r) \/ Record(r) \/ Remove(r)

\* Every request has a timeout and every resolve twenty minutes; a provider may
\* say "not yet" for ever.
Fairness ==
  \A r \in Link : WF_vars(Resolve(r)) /\ WF_vars(Record(r)) /\ WF_vars(Expire(r))

Spec == Init /\ [][Next]_vars /\ Fairness

-----------------------------------------------------------------------------
(* Properties.                                                             *)

\* The row, the provider's entry and the place of each resolve.
TypeOK ==
  /\ provider \in Provider
  /\ row \in [Link -> {"none", "resolving", "ready", "error", "removed"}]
  /\ error \in [Link -> {"none", "limited", "auth", "quota", "permanent", "other"}]
  /\ ref \subseteq Link
  /\ at \in [Link -> Requesting \cup Recording \cup {"none", "kept", "over", "broken", "lost"}]
  /\ ctx \in [Link -> {"live", "over"}]
  /\ entry \in [Link -> Held \cup {"none", "gone"}]
  /\ removal \in [Link -> {"none", "delete", "mark"}]
  /\ restarted \in BOOLEAN

\* However the provider answers, a row leaves 'resolving', unless the process
\* died or the statement that finishes it, with a result or an error, failed.
RowEnds ==
  \A r \in Link :
    row[r] = "resolving" ~> row[r] # "resolving" \/ at[r] \in {"broken", "lost"}

\* No provider's protocol gets to a result before its torrent is cached. Only
\* Premiumize's direct links need none, and TorBox's poll may have taken another
\* torrent for the one that it did not find in the list.
LinksAreOfCached ==
  [][\A r \in Link :
       at[r] \in Requesting /\ at'[r] \in Recording =>
         \/ entry[r] = "cached"
         \/ provider = "premiumize" /\ entry[r] = "none"
         \/ provider = "torbox" /\ at[r] = "stray"]_vars
=============================================================================
