----------------------------- MODULE MCServices -----------------------------
(* Instances of Services for TLC.                                            *)
EXTENDS Services, TLC

CONSTANTS torrents, nzb1, nzb2, indexer1, indexer2

\* Releases for Candidates: both indexers offer dual, and small is below the
\* profile.
Rip(u, t, s, c, r) ==
  [url |-> u, known |-> TRUE, tier |-> t, seeders |-> s, codec |-> c, remux |-> r]
dual == Rip("u1", 2, 5, "x265", TRUE)
large == Rip("u2", 3, 2, "x264", FALSE)
untagged == [Rip("u3", 0, 4, "", FALSE) EXCEPT !.known = FALSE]
small == Rip("u4", 0, 9, "x265", TRUE)
MCOffered ==
  [a \in {torrents, nzb1, nzb2} |-> [i \in {indexer1, indexer2} |->
     IF a = nzb2 THEN (IF i = indexer1 THEN <<>> ELSE <<large>>)
     ELSE IF i = indexer1 THEN <<dual, large, untagged>> ELSE <<dual, small>>]]
MCProfile == [min |-> 1, max |-> 3, seeders |-> 2, codec |-> "x265", remux |-> TRUE]

\* The torrent tier shares nothing with the NZB tier, so one of the two tries.
MCTries == {{torrents}, {nzb1, nzb2}}

MCBase == [tmdb |-> "unset", subtitles |-> "unset", torrent |-> "off", nzb |-> "on"]
MCInput ==
  {[tmdb |-> "key1"], [tmdb |-> "key2", subtitles |-> "account"],
   [tmdb |-> "unset", torrent |-> "on"], [torrent |-> "off"],
   [nzb |-> "on"], [nzb |-> "off"]}

MCOffers == {[kind |-> "torrent", name |-> "mirrored", site |-> "proxy"]}
MCForms == {[kind |-> "nzb", name |-> "own", site |-> "other"]}
MCChanges == {[name |-> "own"], [site |-> "other", enabled |-> TRUE]}

\* Passes are interchangeable, and so are the rows they create.
Symmetry == Permutations(Pass) \cup Permutations(DebridItem)
=============================================================================
