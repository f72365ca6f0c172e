---------------------------- MODULE MetadataSync ----------------------------
(* The sync jobs that match a library's items with the metadata providers, *)
(* overlapping with one another, with an admin's corrections of items and  *)
(* with changes of the provider settings (metadata/sync.go,                *)
(* metadata/scheduler.go, store/metadata_jobs.go, httpapi/metadata.go).    *)
EXTENDS Naturals, FiniteSets

CONSTANTS
  Job,        \* sync jobs of one library, by hand or by the scheduler's tick
  Movie,      \* movies and series: matched to a tmdb_id, then given a cast
  Other       \* albums, books and audiobooks: matched to an externalId

ConstantsOK == IsFiniteSet(Movie) /\ IsFiniteSet(Other)

Item == Movie \cup Other
Provider == {"tmdb", "tvdb"}

VARIABLES
  configured, \* the credentialed providers of the current bundle
  matched,    \* items with a tmdb_id or externalId
  hasCast,    \* items whose metadata holds a cast
  locked,     \* items with metadata_locked
  at,         \* job -> where its goroutine is
  todo,       \* job -> items of its current list it has not looked at
  listed,     \* job -> length of its first list
  found,      \* job -> items_found of its row
  done,       \* job -> items_matched of its row
  row         \* job -> status of its row

itemVars == <<matched, hasCast, locked>>
jobVars == <<at, todo, listed, found, done, row>>
vars == <<configured, itemVars, jobVars>>

\* ListItemsNeedingMetadata and ListItemsNeedingCastSync.
NeedsMetadata == Item \ (locked \cup matched)
NeedsCast == (Movie \cap matched) \ (locked \cup hasCast)

-----------------------------------------------------------------------------

\* StartLibrarySync; the scheduler's tick is its caller too, and nobody asks
\* whether a job of the library is running.
StartLibrarySync(j) ==
  /\ at[j] = "none"
  /\ at' = [at EXCEPT ![j] = "list"]
  /\ row' = [row EXCEPT ![j] = "running"]
  /\ UNCHANGED <<configured, itemVars, todo, listed, found, done>>

List(j) ==
  /\ at[j] = "list"
  /\ todo' = [todo EXCEPT ![j] = NeedsMetadata]
  /\ listed' = [listed EXCEPT ![j] = Cardinality(NeedsMetadata)]
  /\ found' = [found EXCEPT ![j] = Cardinality(NeedsMetadata)]
  /\ at' = [at EXCEPT ![j] = "match"]
  /\ UNCHANGED <<configured, itemVars, done, row>>

ListFails(j) ==
  /\ at[j] = "list"
  /\ at' = [at EXCEPT ![j] = "ended"] /\ row' = [row EXCEPT ![j] = "failed"]
  /\ UNCHANGED <<configured, itemVars, todo, listed, found, done>>

Take(j, i) == i \in todo[j] /\ todo' = [todo EXCEPT ![j] = @ \ {i}]
Count(j) == done' = [done EXCEPT ![j] = @ + 1]

\* processItem wrote a match. One of the fallback provider has no tmdb_id and
\* no cast, one of TMDb may have no cast; the row's lock is not asked.
Match(j, i) ==
  /\ at[j] = "match" /\ Take(j, i) /\ Count(j)
  /\ \/ /\ i \in Movie /\ "tmdb" \in configured
        /\ matched' = matched \cup {i}
        /\ hasCast' \in {hasCast, hasCast \cup {i}}
     \/ i \in Movie /\ "tvdb" \in configured /\ UNCHANGED <<matched, hasCast>>
     \/ i \in Other /\ matched' = matched \cup {i} /\ UNCHANGED hasCast
  /\ UNCHANGED <<configured, locked, at, listed, found, row>>

\* No provider, no answer or an error: the item is skipped.
Skip(j, i) ==
  /\ at[j] \in {"match", "cast"} /\ Take(j, i)
  /\ UNCHANGED <<configured, itemVars, at, listed, found, done, row>>

\* Mutant: the second list is not added to items_found.
ListCastUncounted(j) ==
  /\ at[j] = "match" /\ todo[j] = {}
  /\ \E list \in {NeedsCast, {}} : todo' = [todo EXCEPT ![j] = list]
  /\ at' = [at EXCEPT ![j] = "cast"]
  /\ UNCHANGED <<configured, itemVars, listed, found, done, row>>

\* The second list, read once the first is done; an error leaves it empty.
ListCast(j) ==
  /\ at[j] = "match" /\ todo[j] = {}
  /\ \E list \in {NeedsCast, {}} :
       /\ todo' = [todo EXCEPT ![j] = list]
       /\ found' = [found EXCEPT ![j] = IF list = {} THEN @ ELSE listed[j] + Cardinality(list)]
  /\ at' = [at EXCEPT ![j] = "cast"]
  /\ UNCHANGED <<configured, itemVars, listed, done, row>>

\* backfillCastAndSimilar: counted whether TMDb had a cast, was configured
\* at all, or not.
Backfill(j, i) ==
  /\ at[j] = "cast" /\ Take(j, i) /\ Count(j)
  /\ \/ "tmdb" \in configured /\ hasCast' = hasCast \cup {i}
     \/ UNCHANGED hasCast
  /\ UNCHANGED <<configured, matched, locked, at, listed, found, row>>

Finish(j) ==
  /\ at[j] = "cast" /\ todo[j] = {}
  /\ at' = [at EXCEPT ![j] = "ended"] /\ row' = [row EXCEPT ![j] = "completed"]
  /\ UNCHANGED <<configured, itemVars, todo, listed, found, done>>

\* handleUpdateItemMetadata: a correction with or without an id, and the lock.
Correct(i) ==
  /\ i \notin locked /\ locked' = locked \cup {i}
  /\ matched' \in {matched, IF i \in Movie THEN matched \cup {i} ELSE matched}
  /\ UNCHANGED <<configured, hasCast, jobVars>>

\* Reconfigure swaps the whole bundle; a job reads it again for every item.
Reconfigure ==
  /\ configured' \in SUBSET Provider
  /\ UNCHANGED <<itemVars, jobVars>>

Init ==
  /\ configured \in {{}, Provider}
  /\ matched \in SUBSET Item /\ hasCast = {} /\ locked = {}
  /\ at = [j \in Job |-> "none"] /\ row = [j \in Job |-> "none"]
  /\ todo = [j \in Job |-> {}]
  /\ listed = [j \in Job |-> 0] /\ found = [j \in Job |-> 0] /\ done = [j \in Job |-> 0]

Run(j) ==
  \/ List(j) \/ ListFails(j) \/ ListCast(j) \/ Finish(j)
  \/ \E i \in Item : Match(j, i) \/ Skip(j, i) \/ Backfill(j, i)

Next ==
  \/ Reconfigure
  \/ \E i \in Item : Correct(i)
  \/ \E j \in Job : StartLibrarySync(j) \/ Run(j)

Spec == Init /\ [][Next]_vars

-----------------------------------------------------------------------------
(* Properties.                                                             *)

\* The rows of the items and the lists and counts of the jobs.
TypeOK ==
  /\ configured \subseteq Provider
  /\ matched \subseteq Item /\ hasCast \subseteq Item /\ locked \subseteq Item
  /\ at \in [Job -> {"none", "list", "match", "cast", "ended"}]
  /\ todo \in [Job -> SUBSET Item]
  /\ listed \in [Job -> Nat] /\ found \in [Job -> Nat] /\ done \in [Job -> Nat]
  /\ row \in [Job -> {"none", "running", "completed", "failed"}]

\* The row of a job never reports more matched items than it found, however
\* the second list overlaps with the first one, with the matches of another
\* job of the library and with the items an admin locks.
MatchedWithinFound == \A j \in Job : done[j] <= found[j]
=============================================================================
