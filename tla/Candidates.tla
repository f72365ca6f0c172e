----------------------------- MODULE Candidates -----------------------------
(* Which releases an acquisition attempt races: the search of the indexers,  *)
(* the ranking by a quality profile, the check of what the provider has      *)
(* cached, and the two caches all NZB attempts share: the answers of that    *)
(* check and the URLs that failed (acquisition/service.go,                   *)
(* acquisition/quality.go, nzb/service.go, nzb/search.go, torrent/search.go).*)
EXTENDS Naturals, FiniteSets, Sequences, SequencesExt

CONSTANTS
  Torrent, Nzb,   \* attempts of each tier
  Indexer,
  ByText, ById,   \* the indexers that serve each of the two searches
  Offered,        \* attempt -> indexer -> the releases it answers with
  Profile,        \* [min, max: tiers; seeders; codec: the preferred, "" is none; remux]
  Url, Magnet,    \* download URLs, and those an info-hash can be read from
  SeederCap, ResolutionBonus, CodecBonus, RemuxBonus,
  MaxCandidates, RaceSize, MaxNzb, BatchSize, Accounts,
  AvailTTL, FailTTL, FailSize,
  MaxTime         \* bound on the clock

Attempt == Torrent \cup Nzb
Release ==
  [url : Url, known : BOOLEAN, tier : Nat, seeders : Nat, codec : STRING, remux : BOOLEAN]
Least(a, b) == IF a <= b THEN a ELSE b

ConstantsOK ==
  /\ Torrent \cap Nzb = {} /\ Magnet \subseteq Url
  /\ IsFiniteSet(Indexer) /\ ByText \cup ById \subseteq Indexer
  /\ \A a \in Attempt, i \in Indexer : Offered[a][i] \in Seq(Release)
  /\ \A n \in {MaxCandidates, RaceSize, MaxNzb, BatchSize, AvailTTL, FailTTL, FailSize} :
       n \in Nat \ {0}
  /\ {SeederCap, ResolutionBonus, CodecBonus, RemuxBonus, Accounts, MaxTime} \subseteq Nat

VARIABLES
  now,
  avail,    \* instantAvailCache: url -> [info, until]
  failed,   \* failureCache: url -> until
  lost,     \* url -> until when its last failure is to be remembered; 0: none
  at,       \* attempt -> where it is
  found,    \* attempt -> what its search returned
  ranked,   \* attempt -> what it has kept, best first
  missing,  \* attempt -> the URLs it still has to ask the provider about
  since,    \* attempt -> when its check of the cache began
  hot,      \* attempt -> the URLs that check found cached
  raced,    \* attempt -> the releases it races
  todo,     \* attempt -> those of them it has not launched
  left      \* attempt -> accounts it has not tried

vars ==
  <<now, avail, failed, lost, at, found, ranked, missing, since, hot, raced, todo, left>>

Place == {"search", "check", "ask", "race", "launch", "fetch", "done"}

Init ==
  /\ now = 0 /\ avail = <<>> /\ failed = <<>> /\ lost = [u \in Url |-> 0]
  /\ at \in [Attempt -> {"search", "done"}]  \* not all need be made
  /\ found = [a \in Attempt |-> <<>>] /\ ranked = found /\ missing = found
  /\ raced = found /\ todo = found
  /\ since = [a \in Attempt |-> 0] /\ hot = [a \in Attempt |-> {}]
  /\ left = [a \in Attempt |-> 0]

\* The attempt is over, and what it held is gone.
Over(a) ==
  /\ at' = [at EXCEPT ![a] = "done"]
  /\ found' = [found EXCEPT ![a] = <<>>] /\ ranked' = [ranked EXCEPT ![a] = <<>>]
  /\ since' = [since EXCEPT ![a] = 0] /\ hot' = [hot EXCEPT ![a] = {}]
  /\ raced' = [raced EXCEPT ![a] = <<>>] /\ left' = [left EXCEPT ![a] = 0]
  /\ UNCHANGED <<now, avail, failed, lost, missing, todo>>

-----------------------------------------------------------------------------
(* Ranking. *)

\* An unknown resolution passes the profile and earns nothing.
Accepted(a, c) ==
  /\ a \in Torrent => c.seeders >= Profile.seeders
  /\ c.known => c.tier \in Profile.min..Profile.max

Score(a, c) ==
  (IF a \in Torrent THEN Least(c.seeders, SeederCap) ELSE 0)
    + (IF c.known THEN c.tier * ResolutionBonus ELSE 0)
    + (IF Profile.codec # "" /\ c.codec = Profile.codec THEN CodecBonus ELSE 0)
    + (IF Profile.remux /\ c.remux THEN RemuxBonus ELSE 0)

\* The n-th of S, as before orders it, is the one that n - 1 others come before.
Earlier(m, S, before) == {k \in S : <<k, m>> \in before}
Nth(n, S, before) == CHOOSE m \in S : Cardinality(Earlier(m, S, before)) = n - 1

\* The members of cs at the positions S, put in that order.
Arranged(cs, S, before) == [n \in 1..Cardinality(S) |-> cs[Nth(n, S, before)]]

Kept(cs, S) == Arranged(cs, S, {p \in S \X S : p[1] < p[2]})

ByScore(a, cs, S) ==
  {p \in S \X S : LET s == Score(a, cs[p[1]])
                     t == Score(a, cs[p[2]])
                 IN s > t \/ (s = t /\ p[1] < p[2])}

\* A stable sort of the accepted ones.
Rank(a, cs) ==
  LET ok == {n \in DOMAIN cs : Accepted(a, cs[n])} IN Arranged(cs, ok, ByScore(a, cs, ok))

\* Mutant: a release several indexers offer stays in twice.
DedupeNone(cs) == cs

Dedupe(cs) == Kept(cs, {n \in DOMAIN cs : \A m \in 1..(n - 1) : cs[m].url # cs[n].url})

Trim(cs, n) == SubSeq(cs, 1, Least(n, Len(cs)))

ByCached(cs, cached) ==
  {p \in (DOMAIN cs) \X (DOMAIN cs) :
     \/ cs[p[1]].url \in cached /\ cs[p[2]].url \notin cached
     \/ /\ cs[p[1]].url \in cached <=> cs[p[2]].url \in cached
        /\ p[1] < p[2]}

\* The cached ones first, the order kept among them and among the rest.
CachedFirst(cs, cached) == Arranged(cs, DOMAIN cs, ByCached(cs, cached))

-----------------------------------------------------------------------------
(* Searching. *)

\* What the indexers of answer have, each in its turn: its index and position.
Listed(a, answer) == UNION {{i} \X (DOMAIN Offered[a][i]) : i \in answer}
ByTurn(S, turn) ==
  {p \in S \X S : \/ turn[p[1][1]] < turn[p[2][1]]
                  \/ p[1][1] = p[2][1] /\ p[1][2] < p[2][2]}
Merged(a, answer, turn) ==
  LET all == Listed(a, answer)
  IN Arranged([p \in all |-> Offered[a][p[1]][p[2]]], all, ByTurn(all, turn))

\* The indexers are asked at once: those that answer do in any order.
Results(a, asked) ==
  UNION {{Merged(a, answer, turn) : turn \in Injection(answer, 1..Cardinality(answer))} :
           answer \in SUBSET asked}

\* The text search, and the one by id, which may be impossible or fail.
SearchByText(a) == Results(a, ByText)
SearchByIMDb(a) == Results(a, ById)

Finds(a, all, kept) ==
  /\ at[a] = "search" /\ kept # <<>>
  /\ found' = [found EXCEPT ![a] = all]
  /\ ranked' = [ranked EXCEPT ![a] = kept]
  /\ at' = [at EXCEPT ![a] = "check"]
  /\ UNCHANGED <<now, avail, failed, lost, missing, since, hot, raced, todo>>

SearchTorrents(a) ==
  /\ a \in Torrent
  /\ \E text \in SearchByText(a), id \in SearchByIMDb(a) :
       Finds(a, text \o id, Trim(Rank(a, text \o id), MaxCandidates))
  /\ \E n \in 0..Accounts : left' = [left EXCEPT ![a] = n]

SearchNzbs(a) ==
  /\ a \in Nzb
  /\ \E text \in SearchByText(a), id \in SearchByIMDb(a) :
       LET all == Dedupe(text \o id) IN Finds(a, all, Rank(a, all))
  /\ UNCHANGED left

\* The indexers cannot be listed, or nothing they have is acceptable.
SearchFails(a) == at[a] = "search" /\ Over(a)

-----------------------------------------------------------------------------
(* The torrent tier: one account after the other. *)

\* The URLs an info-hash can be read from.
Hashed(cs) == {c.url : c \in ToSet(cs)} \cap Magnet

\* prioritizeCached: one call, whose failure leaves the order as it is.
CheckTorrents(a) ==
  /\ a \in Torrent /\ at[a] = "check" /\ left[a] > 0
  /\ \E cached \in SUBSET Hashed(ranked[a]) :
       /\ hot' = [hot EXCEPT ![a] = cached]
       /\ raced' = [raced EXCEPT ![a] = Trim(CachedFirst(ranked[a], cached), RaceSize)]
  /\ left' = [left EXCEPT ![a] = @ - 1]
  /\ at' = [at EXCEPT ![a] = "race"]
  /\ UNCHANGED <<now, avail, failed, lost, found, ranked, missing, since, todo>>

\* The account's race is lost: the next one.
RaceLost(a) ==
  /\ at[a] = "race" /\ left[a] > 0 /\ at' = [at EXCEPT ![a] = "check"]
  /\ UNCHANGED <<now, avail, failed, lost, found, ranked, missing, since, hot, raced, todo, left>>

TorrentsOver(a) ==
  /\ a \in Torrent /\ at[a] \in {"check", "race"} /\ (at[a] = "check" => left[a] = 0)
  /\ Over(a)

-----------------------------------------------------------------------------
(* The NZB tier. *)

\* CheckCachedURLs under iaMu: what the cache still knows need not be asked.
ReadAvail(a) ==
  LET fresh == {u \in DOMAIN avail : avail[u].until > now}
      urls == [n \in DOMAIN ranked[a] |-> ranked[a][n].url]
  IN /\ a \in Nzb /\ at[a] = "check"
     /\ hot' = [hot EXCEPT ![a] = {u \in fresh \cap ToSet(urls) : avail[u].info}]
     /\ missing' = [missing EXCEPT ![a] = Kept(urls, {n \in DOMAIN urls : urls[n] \notin fresh})]
     /\ since' = [since EXCEPT ![a] = now]
     /\ at' = [at EXCEPT ![a] = "ask"]
     /\ UNCHANGED <<now, avail, failed, lost, found, ranked, raced, todo, left>>

\* No enabled server: nothing is known to be cached.
NoServer(a) ==
  /\ a \in Nzb /\ at[a] = "check" /\ at' = [at EXCEPT ![a] = "ask"]
  /\ UNCHANGED <<now, avail, failed, lost, found, ranked, missing, since, hot, raced, todo, left>>

\* The answer about the URLs of a batch. That one is not cached is written
\* over an answer that it is, never over one that it is not.
Remember(a, batch, cached) ==
  LET written == {u \in batch : u \in cached \/ u \notin DOMAIN avail \/ avail[u].info}
      until == since[a] + AvailTTL
  IN avail' = [u \in DOMAIN avail \cup written |->
                 IF u \in written THEN [info |-> u \in cached, until |-> until] ELSE avail[u]]

CheckCachedUsenet(batch) == SUBSET batch

AskBatch(a) ==
  LET batch == ToSet(Trim(missing[a], BatchSize))
  IN /\ at[a] = "ask" /\ missing[a] # <<>>
     /\ missing' = [missing EXCEPT ![a] = Kept(@, {n \in DOMAIN @ : @[n] \notin batch})]
     /\ \/ UNCHANGED <<avail, hot>>  \* the call fails
        \/ \E cached \in CheckCachedUsenet(batch) :
             /\ Remember(a, batch, cached)
             /\ hot' = [hot EXCEPT ![a] = @ \cup cached]
     /\ UNCHANGED <<now, failed, lost, at, found, ranked, since, raced, todo, left>>

Prioritize(a) ==
  /\ a \in Nzb /\ at[a] = "ask" /\ missing[a] = <<>>
  /\ raced' = [raced EXCEPT ![a] = Trim(CachedFirst(ranked[a], hot[a]), MaxNzb)]
  /\ todo' = [todo EXCEPT ![a] = raced'[a]]
  /\ since' = [since EXCEPT ![a] = 0]
  /\ at' = [at EXCEPT ![a] = "launch"]
  /\ UNCHANGED <<now, avail, failed, lost, found, ranked, missing, hot, left>>

IsURLFailed(u) == u \in DOMAIN failed /\ now < failed[u]

\* The head of the loop: the next release, skipped when its URL failed lately.
Launch(a) ==
  /\ at[a] = "launch" /\ todo[a] # <<>>
  /\ IF IsURLFailed(Head(todo[a]).url)
     THEN todo' = [todo EXCEPT ![a] = Tail(@)] /\ UNCHANGED at
     ELSE at' = [at EXCEPT ![a] = "fetch"] /\ UNCHANGED todo
  /\ UNCHANGED <<now, avail, failed, lost, found, ranked, missing, since, hot, raced, left>>

Launched(a) == at[a] = "launch" /\ todo[a] = <<>> /\ Over(a)

\* Mutant: the cap is tested before the new entry is in.
EvictedOneLate(cache) ==
  IF Cardinality(DOMAIN cache) <= FailSize + 1 THEN {cache}
  ELSE {Restrict(cache, DOMAIN cache \ {u}) : u \in DOMAIN cache}

\* Over the cap the entry that ends first goes, the new one being in.
Evicted(cache) ==
  IF Cardinality(DOMAIN cache) <= FailSize THEN {cache}
  ELSE {Restrict(cache, DOMAIN cache \ {u}) :
          u \in {v \in DOMAIN cache : \A w \in DOMAIN cache : cache[v] <= cache[w]}}

RecordURLFailure(u) ==
  LET cache == [v \in DOMAIN failed \cup {u} |-> IF v = u THEN now + FailTTL ELSE failed[v]]
  IN /\ failed' \in Evicted(cache)
     /\ lost' = [lost EXCEPT ![u] = now + FailTTL]

\* FetchNZB, then AddNZBForItem, which may fail and is not remembered.
Fetched(a) ==
  /\ at[a] = "fetch"
  /\ \/ UNCHANGED <<failed, lost>>
     \/ RecordURLFailure(Head(todo[a]).url)
  /\ todo' = [todo EXCEPT ![a] = Tail(@)]
  /\ at' = [at EXCEPT ![a] = "launch"]
  /\ UNCHANGED <<now, avail, found, ranked, missing, since, hot, raced, left>>

Tick ==
  /\ now < MaxTime /\ now' = now + 1
  /\ UNCHANGED <<avail, failed, lost, at, found, ranked, missing, since, hot, raced, todo, left>>

Next ==
  \/ Tick
  \/ \E a \in Attempt :
       \/ SearchTorrents(a) \/ SearchNzbs(a) \/ SearchFails(a)
       \/ CheckTorrents(a) \/ RaceLost(a) \/ TorrentsOver(a)
       \/ ReadAvail(a) \/ NoServer(a) \/ AskBatch(a) \/ Prioritize(a)
       \/ Launch(a) \/ Fetched(a) \/ Launched(a)

Spec == Init /\ [][Next]_vars

-----------------------------------------------------------------------------
(* Properties. *)

\* What an attempt races is among what it kept, and that among what it found;
\* no race and no failure cache is over its size.
TypeOK ==
  /\ now \in 0..MaxTime
  /\ DOMAIN avail \subseteq Url /\ DOMAIN failed \subseteq Url
  /\ Cardinality(DOMAIN failed) <= FailSize
  /\ at \in [Attempt -> Place]
  /\ \A a \in Attempt :
       /\ ToSet(ranked[a]) \subseteq ToSet(found[a])
       /\ ToSet(raced[a]) \subseteq ToSet(ranked[a])
       /\ found[a] \in Seq(Release) /\ ranked[a] \in Seq(Release)
       /\ raced[a] \in Seq(Release) /\ todo[a] \in Seq(Release)
       /\ missing[a] \in Seq(Url) /\ hot[a] \subseteq Url
       /\ since[a] \in 0..MaxTime /\ left[a] \in 0..Accounts
       /\ Len(raced[a]) <= (IF a \in Nzb THEN MaxNzb ELSE RaceSize)

\* A release is left out of a race only for one at least as good: a cached one
\* when it is not, or one of its own kind that scores no less; the torrent tier
\* looks for cached ones only among the MaxCandidates best. No NZB is raced
\* against itself. (raceOneAccount, raceNZBCandidates, dedupeNZBByURL)
BestAreRaced ==
  \A a \in Attempt : raced[a] # <<>> =>
    /\ \A c \in ToSet(found[a]) \ ToSet(raced[a]), d \in ToSet(raced[a]) :
         /\ Accepted(a, c)
         /\ Score(a, c) > Score(a, d) \/ (c.url \in hot[a] /\ d.url \notin hot[a])
         => \/ d.url \in hot[a] /\ c.url \notin hot[a]
            \/ /\ a \in Torrent
               /\ Cardinality({n \in DOMAIN ranked[a] : Score(a, ranked[a][n]) >= Score(a, c)})
                    >= MaxCandidates
    /\ a \in Nzb => \A m, n \in DOMAIN raced[a] : raced[a][m].url = raced[a][n].url => m = n

\* The failure of a URL is remembered for FailTTL, unless FailSize others
\* failed at the same time or later: no attempt, whatever the others record
\* meanwhile, makes the service forget it sooner. (recordNZBFailure)
FailedIsRemembered ==
  \A u \in Url : lost[u] > now =>
    \/ u \in DOMAIN failed /\ failed[u] = lost[u]
    \/ Cardinality({v \in Url \ {u} : lost[v] >= lost[u]}) >= FailSize
=============================================================================
