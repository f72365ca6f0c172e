-------------------------- MODULE CandidatesProofs --------------------------
(* Proofs about Candidates, for any attempts, indexers, offers and limits.   *)
EXTENDS Candidates, FiniteSetTheorems, TLAPS

-----------------------------------------------------------------------------
(* Sorting. *)

\* A strict total order on S.
Orders(R, S) ==
  /\ \A k, m \in S : <<k, m>> \in R => <<m, k>> \notin R
  /\ \A k, m \in S : k # m => <<k, m>> \in R \/ <<m, k>> \in R
  /\ \A k, m, n \in S : <<k, m>> \in R /\ <<m, n>> \in R => <<k, n>> \in R

\* p is S in the order R.
Sorts(p, S, R) ==
  /\ p \in [1..Cardinality(S) -> S]
  /\ \A s \in S : \E n \in 1..Cardinality(S) : p[n] = s
  /\ \A m, n \in 1..Cardinality(S) : m < n => <<p[m], p[n]>> \in R /\ p[m] # p[n]

\* In a strict total order on a finite set the members come after different
\* numbers of others.
LEMMA EarlierCounts ==
  ASSUME NEW S, NEW R, IsFiniteSet(S), Orders(R, S)
  PROVE  /\ Cardinality(S) \in Nat
         /\ \A m \in S : Cardinality(Earlier(m, S, R)) \in 0..(Cardinality(S) - 1)
         /\ \A k, m \in S : <<k, m>> \in R =>
              Cardinality(Earlier(k, S, R)) < Cardinality(Earlier(m, S, R))
<1>1. Cardinality(S) \in Nat
  BY FS_CardinalityType
<1>2. ASSUME NEW m \in S
      PROVE  IsFiniteSet(Earlier(m, S, R)) /\ Cardinality(Earlier(m, S, R)) \in Nat
  <2>1. Earlier(m, S, R) \in SUBSET S
    BY DEF Earlier
  <2>2. IsFiniteSet(Earlier(m, S, R))
    BY <2>1, FS_Subset
  <2> QED BY <2>2, FS_CardinalityType
<1>3. ASSUME NEW m \in S
      PROVE  Cardinality(Earlier(m, S, R)) <= Cardinality(S) - 1
  <2>1. Earlier(m, S, R) \in SUBSET (S \ {m})
    BY DEF Earlier, Orders
  <2>2. IsFiniteSet(S \ {m}) /\ Cardinality(S \ {m}) = Cardinality(S) - 1
    BY FS_RemoveElement
  <2> QED BY <2>1, <2>2, FS_Subset
<1>4. ASSUME NEW k \in S, NEW m \in S, <<k, m>> \in R
      PROVE  Cardinality(Earlier(k, S, R)) < Cardinality(Earlier(m, S, R))
  <2>1. Earlier(k, S, R) \in SUBSET Earlier(m, S, R)
    BY <1>4 DEF Earlier, Orders
  <2>2. k \in Earlier(m, S, R) /\ k \notin Earlier(k, S, R)
    BY <1>4 DEF Earlier, Orders
  <2>3. /\ Cardinality(Earlier(k, S, R)) <= Cardinality(Earlier(m, S, R))
        /\ Cardinality(Earlier(k, S, R)) = Cardinality(Earlier(m, S, R)) =>
             Earlier(k, S, R) = Earlier(m, S, R)
    BY <1>2, <2>1, FS_Subset
  <2>4. Cardinality(Earlier(k, S, R)) \in Nat /\ Cardinality(Earlier(m, S, R)) \in Nat
    BY <1>2
  <2>5. Cardinality(Earlier(k, S, R)) # Cardinality(Earlier(m, S, R))
    BY <2>2, <2>3
  <2> QED BY <2>3, <2>4, <2>5
<1> QED BY <1>1, <1>2, <1>3, <1>4

\* They are all the numbers there are, so a finite set can be put in order.
LEMMA CountingSorts ==
  ASSUME NEW S, NEW R, IsFiniteSet(S), Orders(R, S)
  PROVE  Sorts([n \in 1..Cardinality(S) |-> Nth(n, S, R)], S, R)
<1> DEFINE N == Cardinality(S)
           turn == [m \in S |-> Cardinality(Earlier(m, S, R)) + 1]
           p == [n \in 1..N |-> Nth(n, S, R)]
<1>1. N \in Nat
  BY EarlierCounts
<1>2. \A m \in S : turn[m] = Cardinality(Earlier(m, S, R)) + 1 /\ turn[m] \in 1..N
  BY EarlierCounts
<1>3. turn \in [S -> 1..N]
  BY <1>2
<1>4. \A k, m \in S : <<k, m>> \in R => turn[k] < turn[m]
  BY EarlierCounts, <1>2
<1>5. \A n \in 1..N : (\E m \in S : turn[m] = n) => p[n] \in S /\ turn[p[n]] = n
  <2> SUFFICES ASSUME NEW n \in 1..N, NEW m \in S, turn[m] = n
               PROVE  p[n] \in S /\ turn[p[n]] = n
    OBVIOUS
  <2>1. Cardinality(Earlier(m, S, R)) = n - 1
    BY EarlierCounts, <1>2
  <2>2. p[n] \in S /\ Cardinality(Earlier(p[n], S, R)) = n - 1
    BY <2>1 DEF Nth
  <2> QED BY <1>1, <1>2, <2>2
<1>6. p = [n \in 1..N |-> p[n]]
  OBVIOUS
<1> HIDE DEF turn, p
<1>7. \A k, m \in S : turn[k] = turn[m] => k = m
  <2> SUFFICES ASSUME NEW k \in S, NEW m \in S, k # m PROVE turn[k] # turn[m]
    OBVIOUS
  <2>1. <<k, m>> \in R \/ <<m, k>> \in R
    BY DEF Orders
  <2>2. turn[k] < turn[m] \/ turn[m] < turn[k]
    BY <1>4, <2>1
  <2>3. turn[k] \in Nat /\ turn[m] \in Nat
    BY <1>1, <1>2
  <2> QED BY <2>2, <2>3
<1>8. turn \in Injection(S, 1..N)
  BY <1>3, <1>7 DEF Injection, IsInjective
<1>9. IsFiniteSet(1..N) /\ Cardinality(1..N) = N
  BY <1>1, FS_Interval
<1>10. turn \in Surjection(S, 1..N)
  BY <1>8, <1>9, FS_Injection
<1>11. \A n \in 1..N : p[n] \in S /\ turn[p[n]] = n
  BY <1>5, <1>10 DEF Surjection
<1>12. \A s \in S : p[turn[s]] = s
  BY <1>2, <1>7, <1>11
<1>13. ASSUME NEW m \in 1..N, NEW n \in 1..N, m < n
       PROVE  <<p[m], p[n]>> \in R /\ p[m] # p[n]
  <2>1. turn[p[m]] < turn[p[n]] /\ p[m] \in S /\ p[n] \in S
    BY <1>11, <1>13
  <2>2. p[m] # p[n]
    BY <1>11, <1>13
  <2>3. <<p[n], p[m]>> \notin R
    BY <1>4, <1>11, <1>13
  <2> QED BY <2>1, <2>2, <2>3 DEF Orders
<1>14. p \in [1..N -> S]
  BY <1>6, <1>11
<1>15. \A s \in S : \E n \in 1..N : p[n] = s
  BY <1>2, <1>12
<1>16. Sorts(p, S, R)
  BY <1>13, <1>14, <1>15 DEF Sorts
<1> QED BY <1>16 DEF p

\* What Arranged returns: the members of cs at S, in an order that sorts S.
LEMMA ArrangedSorts ==
  ASSUME NEW cs, NEW S, NEW R, IsFiniteSet(S), Orders(R, S)
  PROVE  \E p : /\ Sorts(p, S, R)
                /\ Arranged(cs, S, R) = [n \in 1..Cardinality(S) |-> cs[p[n]]]
<1> DEFINE p == [n \in 1..Cardinality(S) |-> Nth(n, S, R)]
<1>1. Sorts(p, S, R)
  BY CountingSorts
<1>2. Arranged(cs, S, R) = [n \in 1..Cardinality(S) |-> cs[p[n]]]
  BY DEF Arranged
<1> HIDE DEF p
<1> QED BY <1>1, <1>2

\* Arranged returns a sequence of the members at S, each once.
LEMMA ArrangedIsSeq ==
  ASSUME NEW cs, NEW S, NEW R, NEW T, IsFiniteSet(S), Orders(R, S), \A m \in S : cs[m] \in T
  PROVE  /\ Arranged(cs, S, R) \in Seq(T)
         /\ Len(Arranged(cs, S, R)) = Cardinality(S)
         /\ DOMAIN Arranged(cs, S, R) = 1..Cardinality(S)
         /\ Cardinality(S) \in Nat
<1>1. PICK p : /\ Sorts(p, S, R)
               /\ Arranged(cs, S, R) = [n \in 1..Cardinality(S) |-> cs[p[n]]]
  BY ArrangedSorts
<1>2. Cardinality(S) \in Nat
  BY FS_CardinalityType
<1>3. \A n \in 1..Cardinality(S) : p[n] \in S
  BY <1>1 DEF Sorts
<1>4. \A n \in 1..Cardinality(S) : cs[p[n]] \in T
  BY <1>3
<1> QED BY <1>1, <1>2, <1>4

\* The positions of a sequence are finitely many.
LEMMA PositionsAreFinite ==
  ASSUME NEW T, NEW cs \in Seq(T), NEW S \in SUBSET DOMAIN cs
  PROVE  IsFiniteSet(S) /\ S \subseteq Nat /\ Cardinality(S) <= Len(cs)
<1>1. Len(cs) \in Nat /\ DOMAIN cs = 1..Len(cs)
  OBVIOUS
<1>2. IsFiniteSet(1..Len(cs)) /\ Cardinality(1..Len(cs)) = Len(cs)
  <2>1. /\ IsFiniteSet(1..Len(cs))
        /\ Cardinality(1..Len(cs)) = IF 1 > Len(cs) THEN 0 ELSE Len(cs) - 1 + 1
    BY <1>1, FS_Interval
  <2> QED BY <1>1, <2>1
<1>3. S \in SUBSET (1..Len(cs)) /\ S \subseteq Nat
  BY <1>1
<1> QED BY <1>2, <1>3, FS_Subset

\* What is kept of a sequence is a sequence of its members.
LEMMA KeptIsSeq ==
  ASSUME NEW T, NEW cs \in Seq(T), NEW S \in SUBSET DOMAIN cs
  PROVE  /\ Kept(cs, S) \in Seq(T)
         /\ \E p : /\ p \in [1..Len(Kept(cs, S)) -> S]
                   /\ \A m, n \in 1..Len(Kept(cs, S)) : m < n => p[m] < p[n]
                   /\ \A n \in 1..Len(Kept(cs, S)) : Kept(cs, S)[n] = cs[p[n]]
<1> DEFINE R == {p \in S \X S : p[1] < p[2]}
<1>1. IsFiniteSet(S) /\ S \subseteq Nat
  BY PositionsAreFinite
<1>2. Orders(R, S)
  BY <1>1 DEF Orders
<1>3. \A m \in S : cs[m] \in T
  OBVIOUS
<1>4. Kept(cs, S) = Arranged(cs, S, R)
  BY DEF Kept
<1>5. \A k, m : <<k, m>> \in R => k < m
  OBVIOUS
<1> HIDE DEF R
<1>6. /\ Kept(cs, S) \in Seq(T)
      /\ Len(Kept(cs, S)) = Cardinality(S)
  BY <1>1, <1>2, <1>3, <1>4, ArrangedIsSeq
<1>7. PICK p : /\ Sorts(p, S, R)
               /\ Kept(cs, S) = [n \in 1..Cardinality(S) |-> cs[p[n]]]
  BY <1>1, <1>2, <1>4, ArrangedSorts
<1>8. /\ p \in [1..Len(Kept(cs, S)) -> S]
      /\ \A m, n \in 1..Len(Kept(cs, S)) : m < n => p[m] < p[n]
      /\ \A n \in 1..Len(Kept(cs, S)) : Kept(cs, S)[n] = cs[p[n]]
  BY <1>5, <1>6, <1>7 DEF Sorts
<1> QED BY <1>6, <1>8

-----------------------------------------------------------------------------
(* Ranking. *)

LEMMA ScoreIsNat ==
  ASSUME ConstantsOK, NEW a \in Attempt, NEW c \in Release PROVE Score(a, c) \in Nat
<1>1. {SeederCap, ResolutionBonus, CodecBonus, RemuxBonus} \subseteq Nat
  BY DEF ConstantsOK
<1>2. c.tier \in Nat /\ c.seeders \in Nat
  BY DEF Release
<1>3. c.tier * ResolutionBonus \in Nat
  BY <1>1, <1>2
<1> DEFINE swarm == IF a \in Torrent THEN Least(c.seeders, SeederCap) ELSE 0
           tier == IF c.known THEN c.tier * ResolutionBonus ELSE 0
           codec == IF Profile.codec # "" /\ c.codec = Profile.codec THEN CodecBonus ELSE 0
           remux == IF Profile.remux /\ c.remux THEN RemuxBonus ELSE 0
<1>4. swarm \in Nat
  BY <1>1, <1>2 DEF Least
<1> HIDE DEF swarm, tier, codec, remux
<1>5. tier \in Nat /\ codec \in Nat /\ remux \in Nat
  <2>1. tier \in Nat
    BY Zenon, <1>3 DEF tier
  <2>2. codec \in Nat
    BY Zenon, <1>1 DEF codec
  <2>3. remux \in Nat
    BY Zenon, <1>1 DEF remux
  <2> QED BY <2>1, <2>2, <2>3
<1>6. Score(a, c) = swarm + tier + codec + remux
  BY Zenon DEF Score, swarm, tier, codec, remux
<1> QED BY <1>4, <1>5, <1>6

\* No URL is in the sequence twice.
UrlsOnce(cs) == \A m, n \in DOMAIN cs : cs[m].url = cs[n].url => m = n

\* Rank returns what is acceptable, the best first.
LEMMA RankRanks ==
  ASSUME ConstantsOK, NEW a \in Attempt, NEW cs \in Seq(Release)
  PROVE  /\ Rank(a, cs) \in Seq(Release)
         /\ ToSet(Rank(a, cs)) = {c \in ToSet(cs) : Accepted(a, c)}
         /\ \A m, n \in DOMAIN Rank(a, cs) :
              m < n => Score(a, Rank(a, cs)[m]) >= Score(a, Rank(a, cs)[n])
         /\ UrlsOnce(cs) => UrlsOnce(Rank(a, cs))
<1> DEFINE S == {n \in DOMAIN cs : Accepted(a, cs[n])}
           R == ByScore(a, cs, S)
           r == Rank(a, cs)
<1>1. IsFiniteSet(S) /\ S \subseteq Nat /\ S \subseteq DOMAIN cs
  BY PositionsAreFinite
<1>2. \A m \in S : cs[m] \in Release /\ Score(a, cs[m]) \in Nat
  BY ScoreIsNat
<1>3. \A k, m \in S :
        <<k, m>> \in R <=> \/ Score(a, cs[k]) > Score(a, cs[m])
                           \/ Score(a, cs[k]) = Score(a, cs[m]) /\ k < m
  <2> HIDE DEF S
  <2> QED BY DEF ByScore
<1>4. r = Arranged(cs, S, R)
  BY DEF Rank
<1>5. \A c \in ToSet(cs) : Accepted(a, c) => \E n \in S : cs[n] = c
  BY DEF ToSet
<1>6. \A n \in S : Accepted(a, cs[n]) /\ cs[n] \in ToSet(cs)
  BY DEF ToSet
<1> HIDE DEF S, R, r
<1>7. Orders(R, S)
  BY <1>1, <1>2, <1>3 DEF Orders
<1>8. /\ r \in Seq(Release)
      /\ DOMAIN r = 1..Cardinality(S)
      /\ Cardinality(S) \in Nat
  BY <1>1, <1>2, <1>4, <1>7, ArrangedIsSeq
<1>9. PICK p : /\ Sorts(p, S, R)
               /\ r = [n \in 1..Cardinality(S) |-> cs[p[n]]]
  BY <1>1, <1>4, <1>7, ArrangedSorts
<1>10. \A n \in DOMAIN r : p[n] \in S /\ r[n] = cs[p[n]]
  BY <1>8, <1>9 DEF Sorts
<1>11. ToSet(r) = {c \in ToSet(cs) : Accepted(a, c)}
  <2>1. \A c \in ToSet(r) : c \in ToSet(cs) /\ Accepted(a, c)
    BY <1>6, <1>10 DEF ToSet
  <2>2. \A s \in S : \E n \in DOMAIN r : r[n] = cs[s]
    BY <1>8, <1>9 DEF Sorts
  <2>3. \A c \in ToSet(cs) : Accepted(a, c) => c \in ToSet(r)
    BY <1>5, <2>2 DEF ToSet
  <2> QED BY <2>1, <2>3
<1>12. \A m, n \in DOMAIN r : m < n => Score(a, r[m]) >= Score(a, r[n])
  <2> SUFFICES ASSUME NEW m \in DOMAIN r, NEW n \in DOMAIN r, m < n
               PROVE  Score(a, r[m]) >= Score(a, r[n])
    OBVIOUS
  <2>1. <<p[m], p[n]>> \in R
    BY <1>8, <1>9 DEF Sorts
  <2>2. Score(a, cs[p[m]]) >= Score(a, cs[p[n]])
    BY <1>2, <1>3, <1>10, <2>1
  <2> QED BY <1>10, <2>2
<1>13. UrlsOnce(cs) => UrlsOnce(r)
  <2> SUFFICES ASSUME UrlsOnce(cs), NEW m \in DOMAIN r, NEW n \in DOMAIN r,
                      r[m].url = r[n].url, m # n
               PROVE  FALSE
    BY DEF UrlsOnce
  <2>1. p[m] = p[n]
    <3>1. p[m] \in DOMAIN cs /\ p[n] \in DOMAIN cs /\ cs[p[m]].url = cs[p[n]].url
      BY <1>1, <1>10
    <3> QED BY <3>1 DEF UrlsOnce
  <2>2. m < n \/ n < m
    BY <1>8
  <2> QED BY <1>8, <1>9, <2>1, <2>2 DEF Sorts
<1> QED BY <1>8, <1>11, <1>12, <1>13 DEF r

\* CachedFirst puts a sequence in another order.
LEMMA CachedFirstOrders ==
  ASSUME NEW cs \in Seq(Release), NEW cached
  PROVE  LET r == CachedFirst(cs, cached)
         IN /\ r \in Seq(Release) /\ Len(r) = Len(cs)
            /\ UrlsOnce(cs) => UrlsOnce(r)
            /\ \E p \in [DOMAIN cs -> DOMAIN cs] :
                 /\ \A s \in DOMAIN cs : \E n \in DOMAIN cs : p[n] = s
                 /\ \A n \in DOMAIN cs : r[n] = cs[p[n]]
                 /\ \A m, n \in DOMAIN cs : m < n =>
                      \/ r[m].url \in cached /\ r[n].url \notin cached
                      \/ (r[m].url \in cached <=> r[n].url \in cached) /\ p[m] < p[n]
<1> DEFINE S == DOMAIN cs
           R == ByCached(cs, cached)
           r == CachedFirst(cs, cached)
<1>1. IsFiniteSet(S) /\ S \subseteq Nat /\ S = 1..Len(cs) /\ Len(cs) \in Nat
  BY PositionsAreFinite
<1>2. Cardinality(S) = Len(cs)
  <2>1. Cardinality(1..Len(cs)) = IF 1 > Len(cs) THEN 0 ELSE Len(cs) - 1 + 1
    BY <1>1, FS_Interval
  <2> QED BY <1>1, <2>1
<1>3. \A m \in S : cs[m] \in Release
  OBVIOUS
<1>4. \A k, m \in S :
        <<k, m>> \in R <=> \/ cs[k].url \in cached /\ cs[m].url \notin cached
                           \/ (cs[k].url \in cached <=> cs[m].url \in cached) /\ k < m
  BY DEF ByCached
<1>5. r = Arranged(cs, S, R)
  BY DEF CachedFirst
<1> HIDE DEF S, R, r
<1>6. IsFiniteSet(S) /\ Orders(R, S)
  BY <1>1, <1>4 DEF Orders
<1>7. r \in Seq(Release) /\ Len(r) = Len(cs)
  BY <1>1, <1>2, <1>3, <1>5, <1>6, ArrangedIsSeq
<1> DEFINE p == [n \in 1..Cardinality(S) |-> Nth(n, S, R)]
<1>8. Sorts(p, S, R) /\ r = [n \in 1..Cardinality(S) |-> cs[p[n]]]
  BY <1>5, <1>6, CountingSorts DEF Arranged
<1> HIDE DEF p
<1>9. /\ p \in [S -> S]
      /\ \A s \in S : \E n \in S : p[n] = s
      /\ \A m, n \in S : m < n => <<p[m], p[n]>> \in R /\ p[m] # p[n]
  BY <1>1, <1>2, <1>8 DEF Sorts
<1>10. \A n \in S : r[n] = cs[p[n]]
  BY <1>1, <1>2, <1>8
<1>11. \A m, n \in S : m < n =>
         \/ r[m].url \in cached /\ r[n].url \notin cached
         \/ (r[m].url \in cached <=> r[n].url \in cached) /\ p[m] < p[n]
  <2> SUFFICES ASSUME NEW m \in S, NEW n \in S, m < n
               PROVE  \/ r[m].url \in cached /\ r[n].url \notin cached
                      \/ (r[m].url \in cached <=> r[n].url \in cached) /\ p[m] < p[n]
    OBVIOUS
  <2>1. <<p[m], p[n]>> \in R /\ p[m] \in S /\ p[n] \in S
    BY <1>9
  <2>2. r[m] = cs[p[m]] /\ r[n] = cs[p[n]]
    BY <1>10
  <2> QED BY <1>4, <2>1, <2>2
<1>12. UrlsOnce(cs) => UrlsOnce(r)
  <2> SUFFICES ASSUME UrlsOnce(cs), NEW m \in S, NEW n \in S, r[m].url = r[n].url, m # n
               PROVE  FALSE
    BY <1>1, <1>7 DEF UrlsOnce
  <2>1. cs[p[m]].url = cs[p[n]].url /\ p[m] \in S /\ p[n] \in S
    BY <1>9, <1>10
  <2>2. p[m] = p[n]
    BY <2>1 DEF UrlsOnce, S
  <2>3. m < n \/ n < m
    BY <1>1
  <2> QED BY <1>9, <2>2, <2>3
<1>13. \E q \in [S -> S] :
         /\ \A s \in S : \E n \in S : q[n] = s
         /\ \A n \in S : r[n] = cs[q[n]]
         /\ \A m, n \in S : m < n =>
              \/ r[m].url \in cached /\ r[n].url \notin cached
              \/ (r[m].url \in cached <=> r[n].url \in cached) /\ q[m] < q[n]
  BY <1>9, <1>10, <1>11
<1> QED BY <1>7, <1>12, <1>13 DEF S, r

\* Trim keeps the first n.
LEMMA TrimKeeps ==
  ASSUME NEW T, NEW cs \in Seq(T), NEW n \in Nat
  PROVE  /\ Trim(cs, n) \in Seq(T)
         /\ Len(Trim(cs, n)) = Least(n, Len(cs)) /\ Len(Trim(cs, n)) <= n
         /\ \A k \in 1..Len(Trim(cs, n)) : k \in DOMAIN cs /\ Trim(cs, n)[k] = cs[k]
<1>1. Len(cs) \in Nat /\ DOMAIN cs = 1..Len(cs)
  OBVIOUS
<1>2. Least(n, Len(cs)) \in 0..Len(cs) /\ Least(n, Len(cs)) <= n
  BY <1>1 DEF Least
<1>3. Trim(cs, n) \in Seq(T) /\ Len(Trim(cs, n)) = Least(n, Len(cs))
  BY <1>1, <1>2 DEF Trim
<1>4. \A k \in 1..Least(n, Len(cs)) : k \in DOMAIN cs /\ Trim(cs, n)[k] = cs[k]
  BY <1>1, <1>2 DEF Trim
<1> QED BY <1>2, <1>3, <1>4

\* A release dropped for one with its URL: Dedupe leaves each URL once.
LEMMA DedupeOnce ==
  ASSUME NEW cs \in Seq(Release)
  PROVE  Dedupe(cs) \in Seq(Release) /\ UrlsOnce(Dedupe(cs))
<1> DEFINE S == {n \in DOMAIN cs : \A m \in 1..(n - 1) : cs[m].url # cs[n].url}
           r == Kept(cs, S)
<1>1. Dedupe(cs) = r
  BY DEF Dedupe
<1>2. S \in SUBSET DOMAIN cs
  OBVIOUS
<1>3. \A m, n \in S : m < n => cs[m].url # cs[n].url
  OBVIOUS
<1>4. DOMAIN cs \subseteq Nat
  OBVIOUS
<1> HIDE DEF S
<1>5. r \in Seq(Release)
  BY <1>2, KeptIsSeq
<1>6. PICK p : /\ p \in [1..Len(r) -> S]
               /\ \A m, n \in 1..Len(r) : m < n => p[m] < p[n]
               /\ \A n \in 1..Len(r) : r[n] = cs[p[n]]
  BY <1>2, KeptIsSeq
<1> HIDE DEF r
<1>7. DOMAIN r = 1..Len(r) /\ Len(r) \in Nat
  BY <1>5
<1>8. ASSUME NEW m \in 1..Len(r), NEW n \in 1..Len(r), m < n PROVE r[m].url # r[n].url
  <2>1. p[m] \in S /\ p[n] \in S /\ p[m] < p[n]
    BY <1>6, <1>8
  <2> QED BY <1>3, <1>6, <2>1
<1>9. UrlsOnce(r)
  <2> SUFFICES ASSUME NEW m \in 1..Len(r), NEW n \in 1..Len(r), m # n
               PROVE  r[m].url # r[n].url
    BY <1>7 DEF UrlsOnce
  <2>1. m < n \/ n < m
    BY <1>7
  <2> QED BY <1>8, <2>1
<1> QED BY <1>1, <1>5, <1>9

-----------------------------------------------------------------------------
(* Searching. *)

LEMMA ListedIsFinite ==
  ASSUME ConstantsOK, NEW a \in Attempt, NEW answer \in SUBSET Indexer
  PROVE  /\ IsFiniteSet(Listed(a, answer)) /\ IsFiniteSet(answer)
         /\ Listed(a, answer) \subseteq answer \X Nat
         /\ \A p \in Listed(a, answer) : Offered[a][p[1]][p[2]] \in Release
<1> DEFINE Of(i) == {i} \X (DOMAIN Offered[a][i])
           Parts == {Of(i) : i \in answer}
           f == [i \in answer |-> Of(i)]
<1>1. IsFiniteSet(answer)
  BY FS_Subset DEF ConstantsOK
<1>2. f \in Surjection(answer, Parts)
  BY DEF Surjection
<1>3. IsFiniteSet(Parts)
  <2> HIDE DEF f, Parts
  <2> QED BY <1>1, <1>2, FS_Surjection
<1>4. ASSUME NEW i \in answer PROVE IsFiniteSet(Of(i)) /\ DOMAIN Offered[a][i] \subseteq Nat
  <2>1. Offered[a][i] \in Seq(Release)
    BY DEF ConstantsOK
  <2>2. IsFiniteSet(DOMAIN Offered[a][i]) /\ DOMAIN Offered[a][i] \subseteq Nat
    BY <2>1, PositionsAreFinite
  <2>3. IsFiniteSet({i})
    BY FS_Singleton
  <2> QED BY <2>2, <2>3, FS_Product
<1>5. \A P \in Parts : IsFiniteSet(P)
  BY <1>4
<1>6. Listed(a, answer) = UNION Parts
  BY DEF Listed
<1>7. IsFiniteSet(Listed(a, answer))
  <2> HIDE DEF Parts
  <2> QED BY <1>3, <1>5, <1>6, FS_UNION
<1>8. ASSUME NEW p \in Listed(a, answer)
      PROVE  p \in answer \X Nat /\ Offered[a][p[1]][p[2]] \in Release
  <2>1. PICK i \in answer : p \in Of(i)
    BY <1>6
  <2>2. PICK n \in DOMAIN Offered[a][i] : p = <<i, n>>
    BY <2>1
  <2>3. Offered[a][i] \in Seq(Release)
    BY DEF ConstantsOK
  <2>4. Offered[a][i][n] \in Release /\ n \in Nat
    BY <2>2, <2>3
  <2> QED BY <2>2, <2>4
<1> QED BY <1>1, <1>7, <1>8

\* A search returns a sequence of releases.
LEMMA ResultsAreReleases ==
  ASSUME ConstantsOK, NEW a \in Attempt, NEW asked \in SUBSET Indexer, NEW r \in Results(a, asked)
  PROVE  r \in Seq(Release)
<1>0. PICK answer \in SUBSET asked :
        \E turn \in Injection(answer, 1..Cardinality(answer)) : r = Merged(a, answer, turn)
  BY DEF Results
<1>1. PICK turn \in Injection(answer, 1..Cardinality(answer)) : r = Merged(a, answer, turn)
  BY <1>0
<1>2. /\ IsFiniteSet(Listed(a, answer)) /\ IsFiniteSet(answer)
      /\ Listed(a, answer) \subseteq answer \X Nat
      /\ \A p \in Listed(a, answer) : Offered[a][p[1]][p[2]] \in Release
  BY ListedIsFinite
<1> DEFINE all == Listed(a, answer)
           R == ByTurn(all, turn)
           cs == [p \in all |-> Offered[a][p[1]][p[2]]]
<1>3. Cardinality(answer) \in Nat
  BY <1>2, FS_CardinalityType
<1>4. /\ \A i \in answer : turn[i] \in Nat
      /\ \A i, j \in answer : turn[i] = turn[j] => i = j
  BY <1>1, <1>3 DEF Injection, IsInjective
<1>5. \A p, q \in all :
        <<p, q>> \in R <=> \/ turn[p[1]] < turn[q[1]]
                           \/ p[1] = q[1] /\ p[2] < q[2]
  BY DEF ByTurn
<1>6. \A p \in all : p[1] \in answer /\ p[2] \in Nat /\ p = <<p[1], p[2]>>
  BY <1>2
<1>7. \A p \in all : cs[p] \in Release
  BY <1>2
<1>8. r = Arranged(cs, all, R)
  BY <1>1 DEF Merged
<1> HIDE DEF all, R, cs
<1>9. Orders(R, all)
  <2>1. \A p, q \in all : <<p, q>> \in R => <<q, p>> \notin R
    BY <1>4, <1>5, <1>6
  <2>2. \A p, q \in all : p # q => <<p, q>> \in R \/ <<q, p>> \in R
    BY <1>4, <1>5, <1>6
  <2>3. \A p, q, s \in all : <<p, q>> \in R /\ <<q, s>> \in R => <<p, s>> \in R
    BY <1>4, <1>5, <1>6
  <2> QED BY <2>1, <2>2, <2>3 DEF Orders
<1>10. IsFiniteSet(all)
  BY <1>2 DEF all
<1> QED BY <1>7, <1>8, <1>9, <1>10, ArrangedIsSeq

-----------------------------------------------------------------------------
(* What an attempt holds follows from what it found. *)

Types ==
  /\ now \in 0..MaxTime /\ DOMAIN avail \subseteq Url
  /\ at \in [Attempt -> Place] /\ left \in [Attempt -> 0..Accounts]
  /\ found \in [Attempt -> Seq(Release)] /\ ranked \in [Attempt -> Seq(Release)]
  /\ raced \in [Attempt -> Seq(Release)] /\ todo \in [Attempt -> Seq(Release)]
  /\ missing \in [Attempt -> Seq(Url)] /\ hot \in [Attempt -> SUBSET Url]
  /\ since \in [Attempt -> 0..MaxTime]

Cap(a) == IF a \in Nzb THEN MaxNzb ELSE RaceSize
KeptOf(a, cs) == IF a \in Nzb THEN Rank(a, cs) ELSE Trim(Rank(a, cs), MaxCandidates)
RaceOf(a, cs, cached) == Trim(CachedFirst(cs, cached), Cap(a))

\* What was not raced yet may still be put in another order; what is raced
\* is the head of that order.
Follows(a) ==
  /\ ranked[a] = <<>> \/ ranked[a] = KeptOf(a, found[a])
  /\ a \in Nzb => UrlsOnce(found[a])
  /\ raced[a] = <<>> \/ raced[a] = RaceOf(a, ranked[a], hot[a])
  /\ at[a] \in {"search", "ask"} \/ (a \in Nzb /\ at[a] = "check") => raced[a] = <<>>
  /\ at[a] = "fetch" => todo[a] # <<>>
  /\ at[a] = "race" => a \in Torrent

RaceInv == Types /\ \A a \in Attempt : Follows(a)

\* The failure cache has the failures lost names, or FailSize others as late.
Lost == {v \in Url : lost[v] > 0}
NoSooner(u) == {v \in Url \ {u} : lost[v] >= lost[u]}

FailureInv ==
  /\ now \in Nat
  /\ lost \in [Url -> Nat] /\ \A u \in Url : lost[u] <= now + FailTTL
  /\ IsFiniteSet(Lost)
  /\ DOMAIN failed \subseteq Lost /\ \A u \in DOMAIN failed : failed[u] = lost[u]
  /\ Cardinality(DOMAIN failed) <= FailSize
  /\ \A u \in Lost \ DOMAIN failed : Cardinality(NoSooner(u)) >= FailSize

-----------------------------------------------------------------------------
(* The races. *)

LEMMA Constants ==
  ASSUME ConstantsOK
  PROVE  /\ \A n \in {MaxCandidates, RaceSize, MaxNzb, BatchSize, AvailTTL, FailTTL, FailSize} :
              n \in Nat \ {0}
         /\ MaxTime \in Nat /\ Accounts \in Nat
         /\ ByText \subseteq Indexer /\ ById \subseteq Indexer /\ Torrent \cap Nzb = {}
BY DEF ConstantsOK

LEMMA CapIsNat ==
  ASSUME ConstantsOK PROVE \A a \in Attempt : Cap(a) \in Nat
BY Constants DEF Cap

LEMMA InitRace ==
  ASSUME ConstantsOK PROVE Init => RaceInv
<1> SUFFICES ASSUME Init PROVE RaceInv
  OBVIOUS
<1>1. Types
  BY Constants DEF Init, Types, Place
<1>2. ASSUME NEW a \in Attempt PROVE Follows(a)
  <2>1. /\ ranked[a] = <<>> /\ found[a] = <<>> /\ raced[a] = <<>>
        /\ at[a] \in {"search", "done"}
    BY DEF Init
  <2> QED BY <2>1 DEF Follows, UrlsOnce
<1> QED BY <1>1, <1>2 DEF RaceInv

\* Of what an attempt has found: what Over leaves.
LEMMA OverStep ==
  ASSUME ConstantsOK, RaceInv, NEW a \in Attempt, Over(a)
  PROVE  RaceInv'
<1> USE DEF RaceInv
<1>1. Types'
  <2>1. /\ now' \in 0..MaxTime /\ DOMAIN avail' \subseteq Url
        /\ at' \in [Attempt -> Place] /\ left' \in [Attempt -> 0..Accounts]
        /\ since' \in [Attempt -> 0..MaxTime] /\ hot' \in [Attempt -> SUBSET Url]
    BY Constants DEF Types, Over, Place
  <2>2. /\ found' \in [Attempt -> Seq(Release)] /\ ranked' \in [Attempt -> Seq(Release)]
        /\ raced' \in [Attempt -> Seq(Release)] /\ todo' \in [Attempt -> Seq(Release)]
        /\ missing' \in [Attempt -> Seq(Url)]
    BY DEF Types, Over
  <2> QED BY <2>1, <2>2 DEF Types
<1>2. ASSUME NEW b \in Attempt PROVE Follows(b)'
  <2>1. CASE b = a
    <3>1. /\ ranked'[a] = <<>> /\ found'[a] = <<>> /\ raced'[a] = <<>>
          /\ at'[a] = "done"
      BY DEF Over, Types
    <3> QED BY <2>1, <3>1 DEF Follows, UrlsOnce
  <2>2. CASE b # a
    <3>1. /\ ranked'[b] = ranked[b] /\ found'[b] = found[b] /\ raced'[b] = raced[b]
          /\ at'[b] = at[b] /\ hot'[b] = hot[b] /\ todo'[b] = todo[b]
      BY <2>2 DEF Over, Types
    <3> QED BY <3>1 DEF Follows
  <2> QED BY <2>1, <2>2
<1> QED BY <1>1, <1>2

\* A search, whatever of what it found is kept.
LEMMA FindStep ==
  ASSUME ConstantsOK, RaceInv, NEW a \in Attempt, NEW all \in Seq(Release),
         Finds(a, all, KeptOf(a, all)),
         a \in Nzb => UrlsOnce(all), left' \in [Attempt -> 0..Accounts]
  PROVE  RaceInv'
<1> USE DEF RaceInv
<1>1. KeptOf(a, all) \in Seq(Release)
  <2>1. Rank(a, all) \in Seq(Release)
    BY RankRanks
  <2> QED BY <2>1, Constants, TrimKeeps DEF KeptOf
<1>2. Types'
  BY <1>1 DEF Types, Finds, Place
<1>3. ASSUME NEW b \in Attempt PROVE Follows(b)'
  <2>1. CASE b = a
    <3>1. /\ ranked'[a] = KeptOf(a, all) /\ found'[a] = all /\ at'[a] = "check"
          /\ raced'[a] = <<>>
      BY DEF Finds, Types, Follows
    <3> QED BY <2>1, <3>1 DEF Follows, UrlsOnce, KeptOf
  <2>2. CASE b # a
    <3>1. /\ ranked'[b] = ranked[b] /\ found'[b] = found[b] /\ raced'[b] = raced[b]
          /\ at'[b] = at[b] /\ hot'[b] = hot[b] /\ todo'[b] = todo[b]
      BY <2>2 DEF Finds, Types
    <3> QED BY <3>1 DEF Follows
  <2> QED BY <2>1, <2>2
<1> QED BY <1>2, <1>3

LEMMA SearchStep ==
  ASSUME ConstantsOK, RaceInv, NEW a \in Attempt, SearchTorrents(a) \/ SearchNzbs(a)
  PROVE  RaceInv'
<1>1. ASSUME NEW text \in SearchByText(a), NEW id \in SearchByIMDb(a)
      PROVE  text \o id \in Seq(Release)
  <2>1. text \in Seq(Release) /\ id \in Seq(Release)
    BY Constants, ResultsAreReleases DEF SearchByText, SearchByIMDb
  <2> QED BY <2>1
<1>2. left \in [Attempt -> 0..Accounts]
  BY DEF RaceInv, Types
<1>3. CASE SearchTorrents(a)
  <2>1. PICK text \in SearchByText(a), id \in SearchByIMDb(a) :
          Finds(a, text \o id, Trim(Rank(a, text \o id), MaxCandidates))
    BY <1>3 DEF SearchTorrents
  <2>2. a \notin Nzb
    BY <1>3, Constants DEF SearchTorrents
  <2>3. left' \in [Attempt -> 0..Accounts]
    BY <1>2, <1>3 DEF SearchTorrents
  <2>4. Trim(Rank(a, text \o id), MaxCandidates) = KeptOf(a, text \o id)
    BY <2>2 DEF KeptOf
  <2>5. text \o id \in Seq(Release)
    BY <1>1
  <2> QED BY <2>1, <2>2, <2>3, <2>4, <2>5, FindStep
<1>4. CASE SearchNzbs(a)
  <2>1. PICK text \in SearchByText(a), id \in SearchByIMDb(a) :
          Finds(a, Dedupe(text \o id), Rank(a, Dedupe(text \o id)))
    BY <1>4 DEF SearchNzbs
  <2>2. a \in Nzb /\ left' = left
    BY <1>4 DEF SearchNzbs
  <2>3. Dedupe(text \o id) \in Seq(Release) /\ UrlsOnce(Dedupe(text \o id))
    BY <1>1, DedupeOnce
  <2>4. Rank(a, Dedupe(text \o id)) = KeptOf(a, Dedupe(text \o id))
    BY <2>2 DEF KeptOf
  <2> QED BY <1>2, <2>1, <2>2, <2>3, <2>4, FindStep
<1> QED BY <1>3, <1>4

\* The steps of one attempt that keep what it found.
LEMMA FollowsStep ==
  ASSUME ConstantsOK, RaceInv, Types', NEW a \in Attempt, Follows(a)', UNCHANGED <<found, ranked>>,
         \A b \in Attempt \ {a} : /\ at'[b] = at[b] /\ hot'[b] = hot[b]
                                  /\ raced'[b] = raced[b] /\ todo'[b] = todo[b]
  PROVE  RaceInv'
<1>1. ASSUME NEW b \in Attempt \ {a} PROVE Follows(b)'
  BY DEF RaceInv, Follows
<1> QED BY <1>1 DEF RaceInv

LEMMA RaceIsSeq ==
  ASSUME ConstantsOK, NEW a \in Attempt, NEW cs \in Seq(Release), NEW cached
  PROVE  RaceOf(a, cs, cached) \in Seq(Release)
<1>1. CachedFirst(cs, cached) \in Seq(Release)
  BY CachedFirstOrders
<1> QED BY <1>1, CapIsNat, TrimKeeps DEF RaceOf

LEMMA CheckTorrentsStep ==
  ASSUME ConstantsOK, RaceInv, NEW a \in Attempt, CheckTorrents(a)
  PROVE  RaceInv'
<1> USE DEF RaceInv
<1>1. PICK cached \in SUBSET Hashed(ranked[a]) :
        /\ hot' = [hot EXCEPT ![a] = cached]
        /\ raced' = [raced EXCEPT ![a] = Trim(CachedFirst(ranked[a], cached), RaceSize)]
  BY DEF CheckTorrents
<1>2. a \in Torrent /\ a \notin Nzb
  BY Constants DEF CheckTorrents
<1>3. raced' = [raced EXCEPT ![a] = RaceOf(a, ranked[a], cached)]
  BY <1>1, <1>2 DEF RaceOf, Cap
<1>4. RaceOf(a, ranked[a], cached) \in Seq(Release)
  BY RaceIsSeq DEF Types
<1>5. cached \subseteq Url
  BY <1>1 DEF Hashed, ConstantsOK
<1>6. /\ UNCHANGED <<now, avail, found, ranked, missing, since, todo>>
      /\ at' = [at EXCEPT ![a] = "race"]
      /\ left' = [left EXCEPT ![a] = @ - 1] /\ left[a] > 0
  BY DEF CheckTorrents
<1>7. Types'
  <2>1. left' \in [Attempt -> 0..Accounts]
    <3>1. left \in [Attempt -> 0..Accounts] /\ left[a] \in 0..Accounts
      BY DEF Types
    <3>2. Accounts \in Nat
      BY Constants
    <3>3. left[a] - 1 \in 0..Accounts
      BY ONLY <1>6, <3>1, <3>2
    <3> QED BY ONLY <1>6, <3>1, <3>3
  <2> QED BY <1>1, <1>3, <1>4, <1>5, <1>6, <2>1 DEF Types, Place
<1>8. Follows(a)'
  <2>1. /\ raced'[a] = RaceOf(a, ranked[a], hot'[a]) /\ at'[a] = "race"
        /\ ranked'[a] = ranked[a] /\ found'[a] = found[a]
    BY <1>1, <1>3, <1>6 DEF Types
  <2> QED BY <1>2, <2>1 DEF Follows
<1>9. \A b \in Attempt \ {a} : /\ at'[b] = at[b] /\ hot'[b] = hot[b]
                                 /\ raced'[b] = raced[b] /\ todo'[b] = todo[b]
  BY <1>1, <1>3, <1>6 DEF Types
<1> QED BY <1>6, <1>7, <1>8, <1>9, FollowsStep

LEMMA RaceLostStep ==
  ASSUME ConstantsOK, RaceInv, NEW a \in Attempt, RaceLost(a)
  PROVE  RaceInv'
<1> USE DEF RaceInv, RaceLost
<1>1. Types'
  BY DEF Types, Place
<1>2. Follows(a)'
  <2>1. a \in Torrent /\ a \notin Nzb /\ at'[a] = "check"
    BY Constants DEF Follows, Types
  <2> QED BY <2>1 DEF Follows
<1>3. \A b \in Attempt \ {a} : /\ at'[b] = at[b] /\ hot'[b] = hot[b]
                                 /\ raced'[b] = raced[b] /\ todo'[b] = todo[b]
  BY DEF Types
<1> QED BY <1>1, <1>2, <1>3, FollowsStep

LEMMA ReadAvailStep ==
  ASSUME ConstantsOK, RaceInv, NEW a \in Attempt, ReadAvail(a)
  PROVE  RaceInv'
<1> USE DEF RaceInv
<1> DEFINE urls == [n \in DOMAIN ranked[a] |-> ranked[a][n].url]
           fresh == {u \in DOMAIN avail : avail[u].until > now}
           S == {n \in DOMAIN urls : urls[n] \notin fresh}
<1>1. ranked[a] \in Seq(Release)
  BY DEF Types
<1>2. urls \in Seq(Url)
  <2>1. Len(ranked[a]) \in Nat /\ DOMAIN ranked[a] = 1..Len(ranked[a])
    BY <1>1
  <2>2. \A n \in DOMAIN ranked[a] : ranked[a][n].url \in Url
    <3>1. \A n \in 1..Len(ranked[a]) : ranked[a][n] \in Release
      BY <1>1
    <3>2. \A c \in Release : c.url \in Url
      BY DEF Release
    <3> QED BY <2>1, <3>1, <3>2
  <2>3. urls \in [1..Len(ranked[a]) -> Url]
    BY <2>1, <2>2
  <2> HIDE DEF urls
  <2>4. \A k \in Nat : \A f \in [1..k -> Url] : f \in Seq(Url)
    OBVIOUS
  <2> QED BY <2>1, <2>3, <2>4
<1>3. S \in SUBSET DOMAIN urls /\ fresh \subseteq Url
  BY DEF Types
<1>4. /\ hot' = [hot EXCEPT ![a] = {u \in fresh \cap ToSet(urls) : avail[u].info}]
      /\ missing' = [missing EXCEPT ![a] = Kept(urls, S)]
      /\ since' = [since EXCEPT ![a] = now]
      /\ at' = [at EXCEPT ![a] = "ask"]
      /\ UNCHANGED <<now, avail, found, ranked, raced, todo, left>>
      /\ a \in Nzb /\ at[a] = "check"
  BY DEF ReadAvail
<1> HIDE DEF S, urls, fresh
<1>5. Kept(urls, S) \in Seq(Url)
  BY <1>2, <1>3, KeptIsSeq
<1>6. Types'
  <2>1. hot' \in [Attempt -> SUBSET Url] /\ missing' \in [Attempt -> Seq(Url)]
    BY <1>3, <1>4, <1>5 DEF Types
  <2>2. since' \in [Attempt -> 0..MaxTime] /\ at' \in [Attempt -> Place]
    BY <1>4 DEF Types, Place
  <2> QED BY <1>4, <2>1, <2>2 DEF Types
<1>7. Follows(a)'
  <2>1. raced'[a] = <<>> /\ at'[a] = "ask" /\ ranked'[a] = ranked[a] /\ found'[a] = found[a]
    BY <1>4 DEF Follows, Types
  <2> QED BY <1>4, <2>1 DEF Follows
<1>8. \A b \in Attempt \ {a} : /\ at'[b] = at[b] /\ hot'[b] = hot[b]
                                 /\ raced'[b] = raced[b] /\ todo'[b] = todo[b]
  BY <1>4 DEF Types
<1> QED BY <1>4, <1>6, <1>7, <1>8, FollowsStep

LEMMA NoServerStep ==
  ASSUME ConstantsOK, RaceInv, NEW a \in Attempt, NoServer(a)
  PROVE  RaceInv'
<1> USE DEF RaceInv, NoServer
<1>1. Types'
  BY DEF Types, Place
<1>2. Follows(a)'
  <2>1. raced'[a] = <<>> /\ at'[a] = "ask"
    BY DEF Follows, Types
  <2> QED BY <2>1 DEF Follows
<1>3. \A b \in Attempt \ {a} : /\ at'[b] = at[b] /\ hot'[b] = hot[b]
                                 /\ raced'[b] = raced[b] /\ todo'[b] = todo[b]
  BY DEF Types
<1> QED BY <1>1, <1>2, <1>3, FollowsStep

LEMMA AskBatchStep ==
  ASSUME ConstantsOK, RaceInv, NEW a \in Attempt, AskBatch(a)
  PROVE  RaceInv'
<1> USE DEF RaceInv
<1> DEFINE batch == ToSet(Trim(missing[a], BatchSize))
           S == {n \in DOMAIN missing[a] : missing[a][n] \notin batch}
<1>1. missing[a] \in Seq(Url)
  BY DEF Types
<1>2. batch \subseteq Url
  <2>1. Trim(missing[a], BatchSize) \in Seq(Url)
    BY <1>1, Constants, TrimKeeps
  <2> QED BY <2>1 DEF ToSet
<1>3. Kept(missing[a], S) \in Seq(Url)
  <2>1. S \in SUBSET DOMAIN missing[a]
    OBVIOUS
  <2> HIDE DEF S
  <2> QED BY <1>1, <2>1, KeptIsSeq
<1>4. /\ missing' = [missing EXCEPT ![a] = Kept(missing[a], S)]
      /\ \/ UNCHANGED <<avail, hot>>
         \/ \E cached \in SUBSET batch :
              Remember(a, batch, cached) /\ hot' = [hot EXCEPT ![a] = @ \cup cached]
      /\ UNCHANGED <<now, at, found, ranked, since, raced, todo, left>>
      /\ at[a] = "ask"
  BY DEF AskBatch, CheckCachedUsenet, Types
<1> HIDE DEF batch, S
<1>5. DOMAIN avail' \subseteq Url /\ hot' \in [Attempt -> SUBSET Url]
      /\ \A b \in Attempt \ {a} : hot'[b] = hot[b]
  <2>1. CASE UNCHANGED <<avail, hot>>
    BY <2>1 DEF Types
  <2>2. ASSUME NEW cached \in SUBSET batch, Remember(a, batch, cached),
               hot' = [hot EXCEPT ![a] = @ \cup cached]
        PROVE  DOMAIN avail' \subseteq Url /\ hot' \in [Attempt -> SUBSET Url]
               /\ \A b \in Attempt \ {a} : hot'[b] = hot[b]
    <3>1. DOMAIN avail' \subseteq DOMAIN avail \cup batch
      BY <2>2 DEF Remember
    <3>2. hot' \in [Attempt -> SUBSET Url] /\ \A b \in Attempt \ {a} : hot'[b] = hot[b]
      BY <1>2, <2>2 DEF Types
    <3> QED BY <1>2, <3>1, <3>2 DEF Types
  <2> QED BY <1>4, <2>1, <2>2
<1>6. Types'
  <2>1. missing' \in [Attempt -> Seq(Url)]
    BY <1>3, <1>4 DEF Types
  <2> QED BY <1>4, <1>5, <2>1 DEF Types
<1>7. Follows(a)'
  <2>1. raced'[a] = <<>> /\ at'[a] = "ask" /\ ranked'[a] = ranked[a] /\ found'[a] = found[a]
    BY <1>4 DEF Follows
  <2> QED BY <2>1 DEF Follows
<1> QED BY <1>4, <1>5, <1>6, <1>7, FollowsStep

LEMMA PrioritizeStep ==
  ASSUME ConstantsOK, RaceInv, NEW a \in Attempt, Prioritize(a)
  PROVE  RaceInv'
<1> USE DEF RaceInv
<1> DEFINE race == RaceOf(a, ranked[a], hot[a])
<1>1. /\ raced' = [raced EXCEPT ![a] = race] /\ raced'[a] = race
      /\ todo' = [todo EXCEPT ![a] = race]
  <2>1. raced' = [raced EXCEPT ![a] = race]
    BY DEF Prioritize, RaceOf, Cap
  <2>2. raced'[a] = race
    BY <2>1 DEF Types
  <2> QED BY <2>1, <2>2 DEF Prioritize
<1>2. race \in Seq(Release)
  BY RaceIsSeq DEF Types
<1>3. /\ since' = [since EXCEPT ![a] = 0] /\ at' = [at EXCEPT ![a] = "launch"]
      /\ UNCHANGED <<now, avail, found, ranked, missing, hot, left>>
  BY DEF Prioritize
<1> HIDE DEF race
<1>4. Types'
  <2>1. since' \in [Attempt -> 0..MaxTime] /\ at' \in [Attempt -> Place]
    BY <1>3, Constants DEF Types, Place
  <2> QED BY <1>1, <1>2, <1>3, <2>1 DEF Types
<1>5. Follows(a)'
  <2>1. at'[a] = "launch"
    BY <1>3 DEF Types
  <2> QED BY <1>1, <1>3, <2>1 DEF Follows, race
<1>6. \A b \in Attempt \ {a} : /\ at'[b] = at[b] /\ hot'[b] = hot[b]
                                 /\ raced'[b] = raced[b] /\ todo'[b] = todo[b]
  BY <1>1, <1>3 DEF Types
<1> QED BY <1>3, <1>4, <1>5, <1>6, FollowsStep

\* The launches: what is left of them is a sequence as long as one remains.
LEMMA LaunchStep ==
  ASSUME ConstantsOK, RaceInv, NEW a \in Attempt, Launch(a) \/ Fetched(a)
  PROVE  RaceInv'
<1> USE DEF RaceInv
<1>1. /\ todo[a] # <<>> /\ at[a] \in {"launch", "fetch"}
      /\ \/ /\ todo' = [todo EXCEPT ![a] = Tail(@)]
            /\ at' \in {at, [at EXCEPT ![a] = "launch"]} /\ at'[a] = "launch"
         \/ todo' = todo /\ at' = [at EXCEPT ![a] = "fetch"]
      /\ UNCHANGED <<now, avail, found, ranked, missing, since, hot, raced, left>>
  <2>1. CASE Launch(a)
    BY <2>1 DEF Launch
  <2>2. CASE Fetched(a)
    BY <2>2 DEF Fetched, Follows, Types
  <2> QED BY <2>1, <2>2
<1>2. Types'
  <2>1. Tail(todo[a]) \in Seq(Release)
    BY <1>1 DEF Types
  <2>2. todo' \in [Attempt -> Seq(Release)]
    BY <1>1, <2>1 DEF Types
  <2>3. at' \in [Attempt -> Place]
    BY <1>1 DEF Types, Place
  <2> QED BY <1>1, <2>2, <2>3 DEF Types
<1>3. Follows(a)'
  <2>1. at'[a] # "launch" => at'[a] = "fetch" /\ todo'[a] # <<>>
    <3>1. ASSUME todo' = todo, at' = [at EXCEPT ![a] = "fetch"]
          PROVE  at'[a] = "fetch" /\ todo'[a] # <<>>
      BY <1>1, <3>1 DEF Types
    <3> QED BY <1>1, <3>1
  <2> QED BY <1>1, <2>1 DEF Follows
<1>4. \A b \in Attempt \ {a} : /\ at'[b] = at[b] /\ hot'[b] = hot[b]
                                 /\ raced'[b] = raced[b] /\ todo'[b] = todo[b]
  BY <1>1 DEF Types
<1> QED BY <1>1, <1>2, <1>3, <1>4, FollowsStep

LEMMA StepRace ==
  ASSUME ConstantsOK PROVE RaceInv /\ [Next]_vars => RaceInv'
<1> SUFFICES ASSUME RaceInv, [Next]_vars PROVE RaceInv'
  OBVIOUS
<1>1. CASE Tick
  <2>1. now' \in 0..MaxTime
    BY <1>1, Constants DEF Tick, RaceInv, Types
  <2>2. UNCHANGED <<avail, at, found, ranked, missing, since, hot, raced, todo, left>>
    BY <1>1 DEF Tick
  <2> QED BY <2>1, <2>2 DEF RaceInv, Types, Follows
<1>2. CASE UNCHANGED vars
  BY <1>2 DEF vars, RaceInv, Types, Follows
<1>3. ASSUME NEW a \in Attempt,
             \/ SearchTorrents(a) \/ SearchNzbs(a) \/ SearchFails(a)
             \/ CheckTorrents(a) \/ RaceLost(a) \/ TorrentsOver(a)
             \/ ReadAvail(a) \/ NoServer(a) \/ AskBatch(a) \/ Prioritize(a)
             \/ Launch(a) \/ Fetched(a) \/ Launched(a)
      PROVE  RaceInv'
  <2>1. CASE SearchFails(a) \/ TorrentsOver(a) \/ Launched(a)
    BY <2>1, OverStep DEF SearchFails, TorrentsOver, Launched
  <2> QED BY <1>3, <2>1, SearchStep, CheckTorrentsStep, RaceLostStep, ReadAvailStep,
             NoServerStep, AskBatchStep, PrioritizeStep, LaunchStep
<1> QED BY <1>1, <1>2, <1>3 DEF Next

\* What is raced is among what is kept, and that among what was found.
LEMMA RacesAmongKept ==
  ASSUME ConstantsOK, RaceInv, NEW a \in Attempt
  PROVE  /\ ToSet(ranked[a]) \subseteq ToSet(found[a])
         /\ ToSet(raced[a]) \subseteq ToSet(ranked[a])
         /\ Len(raced[a]) <= Cap(a)
<1>1. found[a] \in Seq(Release) /\ ranked[a] \in Seq(Release) /\ raced[a] \in Seq(Release)
  BY DEF RaceInv, Types
<1>2. ToSet(<<>>) = {} /\ Len(<<>>) <= Cap(a)
  BY CapIsNat DEF ToSet
<1>3. ToSet(ranked[a]) \subseteq ToSet(found[a])
  <2> DEFINE r == Rank(a, found[a])
  <2>1. r \in Seq(Release) /\ ToSet(r) \subseteq ToSet(found[a])
    BY <1>1, RankRanks
  <2> HIDE DEF r
  <2>2. ToSet(Trim(r, MaxCandidates)) \subseteq ToSet(r)
    <3>1. /\ Trim(r, MaxCandidates) \in Seq(Release)
          /\ \A k \in 1..Len(Trim(r, MaxCandidates)) :
               k \in DOMAIN r /\ Trim(r, MaxCandidates)[k] = r[k]
      BY <2>1, Constants, TrimKeeps
    <3> QED BY <3>1 DEF ToSet
  <2>3. KeptOf(a, found[a]) \in {r, Trim(r, MaxCandidates)}
    BY DEF KeptOf, r
  <2> QED BY <1>2, <2>1, <2>2, <2>3 DEF RaceInv, Follows
<1>4. ToSet(raced[a]) \subseteq ToSet(ranked[a]) /\ Len(raced[a]) <= Cap(a)
  <2> DEFINE r == CachedFirst(ranked[a], hot[a])
  <2>1. PICK p \in [DOMAIN ranked[a] -> DOMAIN ranked[a]] :
          /\ \A s \in DOMAIN ranked[a] : \E n \in DOMAIN ranked[a] : p[n] = s
          /\ \A n \in DOMAIN ranked[a] : r[n] = ranked[a][p[n]]
          /\ \A m, n \in DOMAIN ranked[a] : m < n =>
               \/ r[m].url \in hot[a] /\ r[n].url \notin hot[a]
               \/ (r[m].url \in hot[a] <=> r[n].url \in hot[a]) /\ p[m] < p[n]
    BY <1>1, CachedFirstOrders
  <2>2. r \in Seq(Release) /\ Len(r) = Len(ranked[a])
    BY <1>1, CachedFirstOrders
  <2> HIDE DEF r
  <2>3. ToSet(r) \subseteq ToSet(ranked[a])
    <3>1. DOMAIN r = DOMAIN ranked[a]
      BY <1>1, <2>2
    <3> QED BY <2>1, <3>1 DEF ToSet
  <2>4. /\ Trim(r, Cap(a)) \in Seq(Release) /\ Len(Trim(r, Cap(a))) <= Cap(a)
        /\ \A k \in 1..Len(Trim(r, Cap(a))) : k \in DOMAIN r /\ Trim(r, Cap(a))[k] = r[k]
    BY <2>2, CapIsNat, TrimKeeps
  <2>5. ToSet(Trim(r, Cap(a))) \subseteq ToSet(r)
    BY <2>4 DEF ToSet
  <2>6. raced[a] = <<>> \/ raced[a] = Trim(r, Cap(a))
    BY DEF RaceInv, Follows, RaceOf, r
  <2> QED BY <1>2, <2>3, <2>4, <2>5, <2>6
<1> QED BY <1>3, <1>4

\* A release that was kept and is not raced comes after all that are.
LEMMA NotRacedComesLater ==
  ASSUME ConstantsOK, RaceInv, NEW a \in Attempt, raced[a] # <<>>,
         NEW c \in ToSet(ranked[a]) \ ToSet(raced[a]), NEW d \in ToSet(raced[a])
  PROVE  \/ d.url \in hot[a] /\ c.url \notin hot[a]
         \/ /\ d.url \in hot[a] <=> c.url \in hot[a]
            /\ \E m, n \in DOMAIN ranked[a] : m < n /\ ranked[a][m] = d /\ ranked[a][n] = c
<1> DEFINE cs == ranked[a]
           r == CachedFirst(ranked[a], hot[a])
<1>1. cs \in Seq(Release) /\ raced[a] = Trim(r, Cap(a))
  BY DEF RaceInv, Types, Follows, RaceOf
<1>2. PICK p \in [DOMAIN cs -> DOMAIN cs] :
        /\ \A s \in DOMAIN cs : \E n \in DOMAIN cs : p[n] = s
        /\ \A n \in DOMAIN cs : r[n] = cs[p[n]]
        /\ \A m, n \in DOMAIN cs : m < n =>
             \/ r[m].url \in hot[a] /\ r[n].url \notin hot[a]
             \/ (r[m].url \in hot[a] <=> r[n].url \in hot[a]) /\ p[m] < p[n]
  BY <1>1, CachedFirstOrders
<1>3. r \in Seq(Release) /\ Len(r) = Len(cs)
  BY <1>1, CachedFirstOrders
<1> HIDE DEF cs, r
<1>4. /\ DOMAIN cs = 1..Len(cs) /\ DOMAIN r = 1..Len(cs) /\ Len(cs) \in Nat
  BY <1>1, <1>3
<1> DEFINE k == Len(Trim(r, Cap(a)))
<1>5. /\ Trim(r, Cap(a)) \in Seq(Release) /\ k \in Nat
      /\ \A j \in 1..k : j \in DOMAIN r /\ Trim(r, Cap(a))[j] = r[j]
  BY <1>3, CapIsNat, TrimKeeps
<1>6. DOMAIN raced[a] = 1..k /\ \A j \in 1..k : raced[a][j] = r[j] /\ j \in DOMAIN cs
  BY <1>1, <1>4, <1>5
<1> HIDE DEF k
<1>7. PICK s \in DOMAIN cs : cs[s] = c
  BY DEF ToSet, cs
<1>8. PICK n \in DOMAIN cs : p[n] = s
  BY <1>2
<1>9. r[n] = c
  BY <1>2, <1>7, <1>8
<1>10. n \notin 1..k
  BY <1>6, <1>9 DEF ToSet
<1>11. PICK m \in 1..k : raced[a][m] = d
  BY <1>6 DEF ToSet
<1>12. r[m] = d /\ m \in DOMAIN cs /\ m < n
  BY <1>4, <1>5, <1>6, <1>10, <1>11
<1>13. p[m] \in DOMAIN cs /\ cs[p[m]] = d
  BY <1>2, <1>12
<1> QED BY <1>2, <1>7, <1>8, <1>9, <1>12, <1>13 DEF cs

\* A release the torrent tier did not keep is one of MaxCandidates that score
\* no less.
LEMMA NotKeptScoresLess ==
  ASSUME ConstantsOK, RaceInv, NEW a \in Attempt, ranked[a] # <<>>,
         NEW c \in ToSet(found[a]) \ ToSet(ranked[a]), Accepted(a, c)
  PROVE  /\ a \in Torrent
         /\ Cardinality({n \in DOMAIN ranked[a] : Score(a, ranked[a][n]) >= Score(a, c)})
              >= MaxCandidates
<1> DEFINE r == Rank(a, found[a])
<1>1. found[a] \in Seq(Release)
  BY DEF RaceInv, Types
<1>2. /\ r \in Seq(Release) /\ c \in ToSet(r)
      /\ \A m, n \in DOMAIN r : m < n => Score(a, r[m]) >= Score(a, r[n])
  BY <1>1, RankRanks
<1> HIDE DEF r
<1>3. a \in Torrent /\ ranked[a] = Trim(r, MaxCandidates)
  <2>1. ranked[a] = KeptOf(a, found[a])
    BY DEF RaceInv, Follows
  <2>2. a \notin Nzb
    BY <1>2, <2>1 DEF KeptOf, r
  <2> QED BY <2>1, <2>2 DEF KeptOf, r, Attempt
<1>4. MaxCandidates \in Nat \ {0}
  BY Constants
<1>5. /\ ranked[a] \in Seq(Release)
      /\ Len(ranked[a]) = Least(MaxCandidates, Len(r)) /\ Len(ranked[a]) <= MaxCandidates
      /\ \A k \in 1..Len(ranked[a]) : k \in DOMAIN r /\ ranked[a][k] = r[k]
  BY <1>2, <1>3, <1>4, TrimKeeps
<1>6. Len(r) \in Nat /\ DOMAIN r = 1..Len(r) /\ DOMAIN ranked[a] = 1..Len(ranked[a])
  BY <1>2, <1>5
<1>7. PICK n \in DOMAIN r : r[n] = c
  BY <1>2 DEF ToSet
<1>8. n \notin DOMAIN ranked[a]
  BY <1>5, <1>6, <1>7 DEF ToSet
<1>9. Len(ranked[a]) = MaxCandidates
  BY <1>4, <1>5, <1>6, <1>8 DEF Least
<1>10. \A k \in 1..MaxCandidates : Score(a, ranked[a][k]) >= Score(a, c)
  <2> SUFFICES ASSUME NEW k \in 1..MaxCandidates PROVE Score(a, ranked[a][k]) >= Score(a, c)
    OBVIOUS
  <2>1. k \in DOMAIN r /\ k < n /\ ranked[a][k] = r[k]
    BY <1>4, <1>5, <1>6, <1>8, <1>9
  <2> QED BY <1>2, <1>7, <2>1
<1> DEFINE asGood == {m \in DOMAIN ranked[a] : Score(a, ranked[a][m]) >= Score(a, c)}
<1>11. asGood = 1..MaxCandidates
  BY <1>6, <1>9, <1>10
<1>12. Cardinality(1..MaxCandidates) = MaxCandidates
  <2>1. Cardinality(1..MaxCandidates) = IF 1 > MaxCandidates THEN 0 ELSE MaxCandidates - 1 + 1
    BY <1>4, FS_Interval
  <2> QED BY <1>4, <2>1
<1>13. Cardinality(asGood) >= MaxCandidates
  <2> HIDE DEF asGood
  <2> QED BY <1>4, <1>11, <1>12
<1> QED BY <1>3, <1>13, Zenon

\* What is ranked first scores no less.
LEMMA KeptByScore ==
  ASSUME ConstantsOK, RaceInv, NEW a \in Attempt,
         NEW m \in DOMAIN ranked[a], NEW n \in DOMAIN ranked[a],
         m < n
  PROVE  Score(a, ranked[a][m]) >= Score(a, ranked[a][n])
<1> DEFINE r == Rank(a, found[a])
<1>1. found[a] \in Seq(Release) /\ ranked[a] \in Seq(Release)
  BY DEF RaceInv, Types
<1>2. /\ r \in Seq(Release)
      /\ \A i, j \in DOMAIN r : i < j => Score(a, r[i]) >= Score(a, r[j])
  BY <1>1, RankRanks
<1>3. ranked[a] = r \/ ranked[a] = Trim(r, MaxCandidates)
  BY DEF RaceInv, Follows, KeptOf
<1> HIDE DEF r
<1>4. \A k \in DOMAIN ranked[a] : k \in DOMAIN r /\ ranked[a][k] = r[k]
  <2>1. CASE ranked[a] = r
    BY <2>1
  <2>2. CASE ranked[a] = Trim(r, MaxCandidates)
    BY <1>1, <1>2, <2>2, Constants, TrimKeeps
  <2> QED BY <1>3, <2>1, <2>2
<1> QED BY <1>2, <1>4

LEMMA RacedOnce ==
  ASSUME ConstantsOK, RaceInv, NEW a \in Nzb, raced[a] # <<>>
  PROVE  UrlsOnce(raced[a])
<1> DEFINE r == CachedFirst(ranked[a], hot[a])
<1>1. a \in Attempt
  BY DEF Attempt
<1>2. /\ found[a] \in Seq(Release) /\ ranked[a] \in Seq(Release) /\ raced[a] \in Seq(Release)
      /\ UrlsOnce(found[a])
  BY <1>1 DEF RaceInv, Types, Follows
<1>3. UrlsOnce(ranked[a])
  <2>1. ranked[a] = <<>> \/ ranked[a] = Rank(a, found[a])
    BY <1>1 DEF RaceInv, Follows, KeptOf
  <2>2. UrlsOnce(<<>>)
    BY DEF UrlsOnce
  <2> QED BY <1>1, <1>2, <2>1, <2>2, RankRanks
<1>4. r \in Seq(Release) /\ UrlsOnce(r)
  BY <1>2, <1>3, CachedFirstOrders
<1>5. raced[a] = Trim(r, Cap(a))
  BY <1>1 DEF RaceInv, Follows, RaceOf
<1> HIDE DEF r
<1>6. \A k \in DOMAIN raced[a] : k \in DOMAIN r /\ raced[a][k] = r[k]
  BY <1>1, <1>2, <1>4, <1>5, CapIsNat, TrimKeeps
<1> QED BY <1>4, <1>6 DEF UrlsOnce

LEMMA RaceInvIsBest ==
  ASSUME ConstantsOK PROVE RaceInv => BestAreRaced
<1> SUFFICES ASSUME RaceInv, NEW a \in Attempt, raced[a] # <<>>
             PROVE  /\ \A c \in ToSet(found[a]) \ ToSet(raced[a]), d \in ToSet(raced[a]) :
                         /\ Accepted(a, c)
                         /\ \/ Score(a, c) > Score(a, d)
                            \/ c.url \in hot[a] /\ d.url \notin hot[a]
                         => \/ d.url \in hot[a] /\ c.url \notin hot[a]
                            \/ /\ a \in Torrent
                               /\ Cardinality({n \in DOMAIN ranked[a] :
                                                 Score(a, ranked[a][n]) >= Score(a, c)})
                                    >= MaxCandidates
                    /\ a \in Nzb => UrlsOnce(raced[a])
  BY DEF BestAreRaced, UrlsOnce
<1>1. ASSUME NEW c \in ToSet(found[a]) \ ToSet(raced[a]), NEW d \in ToSet(raced[a]),
             Accepted(a, c),
             Score(a, c) > Score(a, d) \/ (c.url \in hot[a] /\ d.url \notin hot[a])
      PROVE  \/ d.url \in hot[a] /\ c.url \notin hot[a]
             \/ /\ a \in Torrent
                /\ Cardinality({n \in DOMAIN ranked[a] : Score(a, ranked[a][n]) >= Score(a, c)})
                     >= MaxCandidates
  <2>1. d \in ToSet(ranked[a]) /\ ToSet(ranked[a]) \subseteq ToSet(found[a])
    BY RacesAmongKept
  <2>2. CASE c \in ToSet(ranked[a])
    <3>1. \/ d.url \in hot[a] /\ c.url \notin hot[a]
          \/ /\ d.url \in hot[a] <=> c.url \in hot[a]
             /\ \E m, n \in DOMAIN ranked[a] : m < n /\ ranked[a][m] = d /\ ranked[a][n] = c
      BY <2>2, NotRacedComesLater
    <3>2. ASSUME NEW m \in DOMAIN ranked[a], NEW n \in DOMAIN ranked[a], m < n,
                 ranked[a][m] = d, ranked[a][n] = c
          PROVE  ~(Score(a, c) > Score(a, d))
      <4>1. Score(a, d) >= Score(a, c)
        BY <3>2, KeptByScore
      <4>2. c \in Release /\ d \in Release
        BY <3>2 DEF RaceInv, Types
      <4>3. Score(a, c) \in Nat /\ Score(a, d) \in Nat
        BY <4>2, ScoreIsNat
      <4> QED BY <4>1, <4>3
    <3> QED BY <1>1, <3>1, <3>2
  <2>3. CASE c \notin ToSet(ranked[a])
    <3>1. ranked[a] # <<>>
      BY <2>1 DEF ToSet
    <3> QED BY <1>1, <2>3, <3>1, NotKeptScoresLess
  <2> QED BY <2>2, <2>3
<1>2. a \in Nzb => UrlsOnce(raced[a])
  BY RacedOnce
<1> QED BY <1>1, <1>2

-----------------------------------------------------------------------------
(* The failure cache. *)

LEMMA InitFailures ==
  ASSUME ConstantsOK PROVE Init => FailureInv
<1> SUFFICES ASSUME Init PROVE FailureInv
  OBVIOUS
<1>1. now = 0 /\ lost = [u \in Url |-> 0] /\ failed = <<>>
  BY DEF Init
<1>2. Lost = {} /\ DOMAIN failed = {}
  BY <1>1 DEF Lost
<1>3. FailSize \in Nat \ {0} /\ FailTTL \in Nat \ {0}
  BY Constants
<1>4. IsFiniteSet({}) /\ Cardinality({}) = 0
  BY FS_EmptySet
<1> QED BY <1>1, <1>2, <1>3, <1>4 DEF FailureInv

\* What was evicted before stays evicted for as many: failures only come later.
LEMMA NoSoonerGrows ==
  ASSUME FailureInv, NEW v \in Lost, lost' \in [Url -> Nat], IsFiniteSet(Lost'),
         \A w \in Url : lost'[w] >= lost[w], lost'[v] = lost[v]
  PROVE  Cardinality(NoSooner(v)') >= Cardinality(NoSooner(v))
<1>1. v \in Url /\ lost[v] > 0 /\ lost \in [Url -> Nat]
  BY DEF FailureInv, Lost
<1>2. NoSooner(v) \in SUBSET (NoSooner(v)')
  BY <1>1 DEF NoSooner
<1>3. NoSooner(v)' \in SUBSET (Lost')
  BY <1>1 DEF NoSooner, Lost
<1>4. IsFiniteSet(NoSooner(v)')
  BY <1>3, FS_Subset
<1>5. Cardinality(NoSooner(v)) <= Cardinality(NoSooner(v)') /\ IsFiniteSet(NoSooner(v))
  BY <1>2, <1>4, FS_Subset
<1>6. Cardinality(NoSooner(v)) \in Nat /\ Cardinality(NoSooner(v)') \in Nat
  BY <1>4, <1>5, FS_CardinalityType
<1> QED BY <1>5, <1>6

LEMMA RecordStep ==
  ASSUME ConstantsOK, FailureInv, NEW u \in Url, RecordURLFailure(u), now' = now
  PROVE  FailureInv'
<1> USE DEF FailureInv
<1> DEFINE cache == [v \in DOMAIN failed \cup {u} |-> IF v = u THEN now + FailTTL ELSE failed[v]]
<1>1. FailTTL \in Nat \ {0} /\ FailSize \in Nat \ {0}
  BY Constants
<1>2. failed' \in Evicted(cache) /\ lost' = [lost EXCEPT ![u] = now + FailTTL]
  BY DEF RecordURLFailure
<1>3. DOMAIN cache = DOMAIN failed \cup {u}
  OBVIOUS
<1>4. /\ lost' \in [Url -> Nat] /\ lost'[u] = now + FailTTL
      /\ \A w \in Url : lost'[w] >= lost[w] /\ lost'[w] <= now' + FailTTL
      /\ \A w \in Url \ {u} : lost'[w] = lost[w]
  BY <1>1, <1>2
<1>5. Lost' = Lost \cup {u} /\ u \in Lost'
  BY <1>1, <1>4 DEF Lost
<1>6. IsFiniteSet(Lost')
  BY <1>5, FS_AddElement
<1>7. \A v \in DOMAIN cache : v \in Lost' /\ cache[v] = lost'[v]
  BY <1>3, <1>4, <1>5 DEF Lost
<1> HIDE DEF cache
<1>8. IsFiniteSet(DOMAIN failed) /\ Cardinality(DOMAIN failed) \in Nat
  <2>1. IsFiniteSet(DOMAIN failed)
    BY FS_Subset
  <2> QED BY <2>1, FS_CardinalityType
<1>9. /\ IsFiniteSet(DOMAIN cache) /\ Cardinality(DOMAIN cache) \in Nat
      /\ Cardinality(DOMAIN cache) <= FailSize + 1
  <2>1. /\ IsFiniteSet(DOMAIN cache)
        /\ Cardinality(DOMAIN cache)
             = IF u \in DOMAIN failed THEN Cardinality(DOMAIN failed)
               ELSE Cardinality(DOMAIN failed) + 1
    BY <1>3, <1>8, FS_AddElement
  <2> QED BY <1>1, <1>8, <2>1
<1>10. ASSUME NEW v \in Lost', v \notin DOMAIN cache PROVE Cardinality(NoSooner(v)') >= FailSize
  <2>1. v # u /\ v \in Lost \ DOMAIN failed
    BY <1>3, <1>5, <1>10
  <2>2. lost'[v] = lost[v]
    BY <1>4, <2>1 DEF Lost
  <2>3. Cardinality(NoSooner(v)') >= Cardinality(NoSooner(v))
    BY <1>4, <1>6, <2>1, <2>2, NoSoonerGrows
  <2>4. Cardinality(NoSooner(v)) >= FailSize
    BY <2>1
  <2>5. IsFiniteSet(NoSooner(v)) /\ IsFiniteSet(NoSooner(v)')
    <3>1. NoSooner(v) \in SUBSET Lost /\ NoSooner(v)' \in SUBSET (Lost')
      BY <1>4, <2>1 DEF NoSooner, Lost
    <3>2. IsFiniteSet(Lost)
      OBVIOUS
    <3> QED BY <1>6, <3>1, <3>2, FS_Subset
  <2>6. Cardinality(NoSooner(v)) \in Nat /\ Cardinality(NoSooner(v)') \in Nat
    BY <2>5, FS_CardinalityType
  <2> QED BY <1>1, <2>3, <2>4, <2>6
<1>11. CASE Cardinality(DOMAIN cache) <= FailSize
  <2>1. failed' = cache
    BY <1>2, <1>11 DEF Evicted
  <2>2. now' \in Nat
    OBVIOUS
  <2> QED BY <1>4, <1>6, <1>7, <1>10, <1>11, <2>1, <2>2
<1>12. CASE ~(Cardinality(DOMAIN cache) <= FailSize)
  <2>1. Cardinality(DOMAIN cache) = FailSize + 1
    BY <1>1, <1>9, <1>12
  <2>2. PICK e \in {v \in DOMAIN cache : \A w \in DOMAIN cache : cache[v] <= cache[w]} :
          failed' = Restrict(cache, DOMAIN cache \ {e})
    BY <1>2, <1>12 DEF Evicted
  <2>3. /\ DOMAIN failed' = DOMAIN cache \ {e}
        /\ \A v \in DOMAIN failed' : failed'[v] = cache[v]
    BY <2>2 DEF Restrict
  <2>4. e \in DOMAIN cache /\ \A w \in DOMAIN cache : lost'[e] <= lost'[w]
    BY <1>7, <2>2
  <2>5. Cardinality(DOMAIN cache \ {e}) = FailSize
    <3>1. Cardinality(DOMAIN cache \ {e}) = Cardinality(DOMAIN cache) - 1
      BY <1>9, <2>4, FS_RemoveElement
    <3> QED BY <1>1, <2>1, <3>1
  <2>6. Cardinality(NoSooner(e)') >= FailSize
    <3>1. DOMAIN cache \ {e} \in SUBSET (NoSooner(e)')
      BY <1>4, <1>7, <2>4 DEF NoSooner, Lost
    <3>2. NoSooner(e)' \in SUBSET (Lost')
      BY <1>4, <1>7, <2>4 DEF NoSooner, Lost
    <3>3. IsFiniteSet(NoSooner(e)')
      BY <1>6, <3>2, FS_Subset
    <3>4. Cardinality(DOMAIN cache \ {e}) <= Cardinality(NoSooner(e)')
      BY <3>1, <3>3, FS_Subset
    <3>5. Cardinality(NoSooner(e)') \in Nat
      BY <3>3, FS_CardinalityType
    <3> QED BY <1>1, <2>5, <3>4, <3>5
  <2>7. \A v \in Lost' \ DOMAIN failed' : Cardinality(NoSooner(v)') >= FailSize
    BY <1>10, <2>3, <2>6
  <2>8. DOMAIN failed' \subseteq Lost' /\ \A v \in DOMAIN failed' : failed'[v] = lost'[v]
    BY <1>7, <2>3
  <2>9. Cardinality(DOMAIN failed') <= FailSize
    BY <1>1, <2>3, <2>5
  <2>10. now' \in Nat
    OBVIOUS
  <2> QED BY <1>4, <1>6, <2>7, <2>8, <2>9, <2>10
<1> QED BY <1>11, <1>12

LEMMA StepFailures ==
  ASSUME ConstantsOK PROVE RaceInv /\ FailureInv /\ [Next]_vars => FailureInv'
<1> SUFFICES ASSUME RaceInv, FailureInv, [Next]_vars PROVE FailureInv'
  OBVIOUS
<1>1. ASSUME NEW a \in Attempt, Fetched(a) PROVE FailureInv'
  <2>1. now' = now /\ at[a] = "fetch"
    BY <1>1 DEF Fetched
  <2>2. todo[a] \in Seq(Release) /\ todo[a] # <<>>
    BY <2>1 DEF RaceInv, Types, Follows
  <2>3. Head(todo[a]) \in Release
    BY <2>2
  <2>4. Head(todo[a]).url \in Url
    BY <2>3 DEF Release
  <2>5. CASE UNCHANGED <<failed, lost>>
    BY <2>1, <2>5 DEF FailureInv, Lost, NoSooner
  <2>6. CASE RecordURLFailure(Head(todo[a]).url)
    BY <2>1, <2>4, <2>6, RecordStep
  <2> QED BY <1>1, <2>5, <2>6 DEF Fetched
<1>2. CASE Tick
  <2>1. now \in Nat /\ now' = now + 1 /\ UNCHANGED <<failed, lost>>
    BY <1>2 DEF Tick, FailureInv
  <2>2. \A u \in Url : lost'[u] <= now' + FailTTL
    BY <2>1, Constants DEF FailureInv
  <2> QED BY <2>1, <2>2 DEF FailureInv, Lost, NoSooner
<1>3. CASE UNCHANGED <<now, failed, lost>>
  BY <1>3 DEF FailureInv, Lost, NoSooner
<1>4. ASSUME NEW a \in Attempt,
             \/ SearchTorrents(a) \/ SearchNzbs(a) \/ SearchFails(a)
             \/ CheckTorrents(a) \/ RaceLost(a) \/ TorrentsOver(a)
             \/ ReadAvail(a) \/ NoServer(a) \/ AskBatch(a) \/ Prioritize(a)
             \/ Launch(a) \/ Launched(a)
      PROVE  UNCHANGED <<now, failed, lost>>
  <2>1. CASE \/ SearchFails(a) \/ TorrentsOver(a) \/ Launched(a)
    BY <2>1 DEF SearchFails, TorrentsOver, Launched, Over
  <2>2. CASE SearchTorrents(a) \/ SearchNzbs(a)
    BY <2>2 DEF SearchTorrents, SearchNzbs, Finds
  <2>3. CASE CheckTorrents(a) \/ RaceLost(a)
    BY <2>3 DEF CheckTorrents, RaceLost
  <2>4. CASE ReadAvail(a) \/ NoServer(a)
    BY <2>4 DEF ReadAvail, NoServer
  <2>5. CASE AskBatch(a)
    BY <2>5 DEF AskBatch
  <2>6. CASE Prioritize(a) \/ Launch(a)
    BY <2>6 DEF Prioritize, Launch
  <2> QED BY <1>4, <2>1, <2>2, <2>3, <2>4, <2>5, <2>6
<1> QED BY <1>1, <1>2, <1>3, <1>4 DEF Next, vars

LEMMA FailureInvRemembers == FailureInv => FailedIsRemembered
<1> SUFFICES ASSUME FailureInv, NEW u \in Url, lost[u] > now
             PROVE  \/ u \in DOMAIN failed /\ failed[u] = lost[u]
                    \/ Cardinality({v \in Url \ {u} : lost[v] >= lost[u]}) >= FailSize
  BY DEF FailedIsRemembered
<1>1. u \in Lost
  BY DEF FailureInv, Lost
<1>2. CASE u \in DOMAIN failed
  BY <1>2 DEF FailureInv
<1>3. CASE u \notin DOMAIN failed
  <2>1. Cardinality(NoSooner(u)) >= FailSize
    BY <1>1, <1>3 DEF FailureInv
  <2> QED BY <2>1, Zenon DEF NoSooner
<1> QED BY <1>2, <1>3

LEMMA InvsAreTypes ==
  ASSUME ConstantsOK PROVE RaceInv /\ FailureInv => TypeOK
<1> SUFFICES ASSUME RaceInv, FailureInv PROVE TypeOK
  OBVIOUS
<1>1. /\ now \in 0..MaxTime /\ DOMAIN avail \subseteq Url /\ at \in [Attempt -> Place]
  BY DEF RaceInv, Types
<1>2. DOMAIN failed \subseteq Url /\ Cardinality(DOMAIN failed) <= FailSize
  BY DEF FailureInv, Lost
<1>3. ASSUME NEW a \in Attempt
      PROVE  /\ found[a] \in Seq(Release) /\ ranked[a] \in Seq(Release)
             /\ raced[a] \in Seq(Release) /\ todo[a] \in Seq(Release)
             /\ missing[a] \in Seq(Url) /\ hot[a] \subseteq Url
             /\ since[a] \in 0..MaxTime /\ left[a] \in 0..Accounts
  BY DEF RaceInv, Types
<1>4. ASSUME NEW a \in Attempt
      PROVE  /\ ToSet(ranked[a]) \subseteq ToSet(found[a])
             /\ ToSet(raced[a]) \subseteq ToSet(ranked[a])
             /\ Len(raced[a]) <= IF a \in Nzb THEN MaxNzb ELSE RaceSize
  BY RacesAmongKept DEF Cap
<1> QED BY <1>1, <1>2, <1>3, <1>4 DEF TypeOK

-----------------------------------------------------------------------------

LEMMA Invariants ==
  ASSUME ConstantsOK PROVE Spec => [](RaceInv /\ FailureInv)
<1>1. Init => RaceInv /\ FailureInv
  BY InitRace, InitFailures
<1>2. RaceInv /\ FailureInv /\ [Next]_vars => (RaceInv /\ FailureInv)'
  BY StepRace, StepFailures
<1> QED BY <1>1, <1>2, PTL DEF Spec

\* Every variable has its type, no race and no cache is over its size, and what
\* is raced was kept, and what was kept was found.
THEOREM TypesHold ==
  ASSUME ConstantsOK PROVE Spec => []TypeOK
BY Invariants, InvsAreTypes, PTL

\* A release is left out of a race only for one at least as good
\* (raceOneAccount, raceNZBCandidates).
THEOREM BestRaced ==
  ASSUME ConstantsOK PROVE Spec => []BestAreRaced
BY Invariants, RaceInvIsBest, PTL

\* The failure of a URL is forgotten only for FailSize others as late
\* (recordNZBFailure).
THEOREM Remembered ==
  ASSUME ConstantsOK PROVE Spec => []FailedIsRemembered
BY Invariants, FailureInvRemembers, PTL
=============================================================================
