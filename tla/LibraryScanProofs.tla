------------------------- MODULE LibraryScanProofs -------------------------
(* Proofs about LibraryScan, for any number of jobs, files and restarts.   *)
EXTENDS LibraryScan, FiniteSetTheorems, SequenceTheorems, TLAPS

\* The file a job promotes is the first it has listed.
PromotingInv == \A j \in Job : at[j] \in {"write", "mark"} => pending[j] # <<>>

TypeInv == TypeOK /\ PromotingInv

\* There are finitely many paths.
LEMMA PathIsFinite == LibraryScanAssumption => IsFiniteSet(Path)
  <1> SUFFICES ASSUME LibraryScanAssumption
               PROVE  IsFiniteSet(Path)
    OBVIOUS
  <1> DEFINE f == [x \in Finder |-> PathOf[x]]
  <1>1. f \in Surjection(Finder, Path)
    BY DEF Surjection, Path
  <1> QED BY <1>1, FS_Surjection DEF LibraryScanAssumption

\* What is listed is a sequence of paths.
LEMMA ListedIsSeq ==
  ASSUME LibraryScanAssumption, NEW S \in SUBSET Path, NEW s \in SetToSeqs(S)
  PROVE  s \in Seq(Path)
  <1>1. Cardinality(S) \in Nat
    BY PathIsFinite, FS_Subset, FS_CardinalityType
  <1>2. s \in [1 .. Cardinality(S) -> Path]
    BY DEF SetToSeqs
  <1> QED BY <1>1, <1>2

\* What PopBatch takes and what it leaves.
LEMMA PoppedIsSeq ==
  ASSUME NEW s \in Seq(Path), NEW n \in 0 .. Len(s)
  PROVE  /\ SubSeq(s, 1, n) \in Seq(Path) /\ Len(SubSeq(s, 1, n)) = n
         /\ SubSeq(s, n + 1, Len(s)) \in Seq(Path)
         /\ Len(SubSeq(s, n + 1, Len(s))) = Len(s) - n
         /\ \A i \in 1 .. n : SubSeq(s, 1, n)[i] = s[i]
         /\ \A i \in 1 .. Len(s) - n : SubSeq(s, n + 1, Len(s))[i] = s[n + i]
  <1>1. Len(s) \in Nat /\ \A i \in 1 .. Len(s) : s[i] \in Path
    BY LenProperties, ElementOfSeq
  <1>2. \A i \in 1 .. n : s[i] \in Path
    BY <1>1
  <1>3. \A i \in n + 1 .. Len(s) : s[i] \in Path
    BY <1>1
  <1>4. /\ SubSeq(s, 1, n) \in Seq(Path)
        /\ Len(SubSeq(s, 1, n)) = IF 1 <= n THEN n - 1 + 1 ELSE 0
        /\ \A i \in 1 .. n - 1 + 1 : SubSeq(s, 1, n)[i] = s[1 + i - 1]
    BY <1>2, SubSeqProperties
  <1>5. /\ SubSeq(s, n + 1, Len(s)) \in Seq(Path)
        /\ Len(SubSeq(s, n + 1, Len(s))) =
             IF n + 1 <= Len(s) THEN Len(s) - (n + 1) + 1 ELSE 0
        /\ \A i \in 1 .. Len(s) - (n + 1) + 1 :
             SubSeq(s, n + 1, Len(s))[i] = s[(n + 1) + i - 1]
    <2>1. n + 1 \in Int /\ Len(s) \in Int
      BY <1>1
    <2> QED BY <1>3, <2>1, SubSeqProperties
  <1> QED BY <1>1, <1>4, <1>5

\* The empty sequence has no elements and no repetitions.
LEMMA EmptyToSet ==
  /\ ToSet(<<>>) = {} /\ IsInjective(<<>>)
  /\ \A s \in Seq(Path) : Len(s) = 0 => s = <<>>
  BY EmptySeq DEF ToSet, IsInjective

\* What Append adds to the set of a sequence without repetitions.
LEMMA AppendToSet ==
  ASSUME NEW s \in Seq(Path), NEW p \in Path, p \notin ToSet(s)
  PROVE  /\ ToSet(Append(s, p)) = ToSet(s) \cup {p}
         /\ IsInjective(s) => IsInjective(Append(s, p))
  <1> DEFINE t == Append(s, p)
  <1>1. /\ Len(s) \in Nat /\ DOMAIN s = 1 .. Len(s)
        /\ t \in Seq(Path) /\ Len(t) = Len(s) + 1
        /\ \A i \in 1 .. Len(s) : t[i] = s[i]
        /\ t[Len(s) + 1] = p
    BY LenProperties, AppendProperties
  <1>2. DOMAIN t = 1 .. Len(s) + 1
    BY <1>1, LenProperties
  <1>3. \A i \in DOMAIN s : s[i] # p
    BY DEF ToSet
  <1> HIDE DEF t
  <1>4. DOMAIN t = DOMAIN s \cup {Len(s) + 1}
    BY <1>1, <1>2
  <1>5. ToSet(t) = ToSet(s) \cup {p}
    BY <1>1, <1>4 DEF ToSet
  <1>6. ASSUME IsInjective(s)
        PROVE  IsInjective(t)
    BY <1>1, <1>2, <1>3, <1>6 DEF IsInjective
  <1> QED BY <1>5, <1>6 DEF t

\* PopBatch splits a sequence without repetitions into two of them.
LEMMA PopToSet ==
  ASSUME NEW s \in Seq(Path), NEW n \in 0 .. Len(s),
         NEW b, b = SubSeq(s, 1, n), NEW r, r = SubSeq(s, n + 1, Len(s))
  PROVE  /\ ToSet(s) = ToSet(b) \cup ToSet(r)
         /\ IsInjective(s) => IsInjective(b) /\ IsInjective(r)
  <1>1. /\ Len(s) \in Nat /\ DOMAIN s = 1 .. Len(s)
        /\ DOMAIN b = 1 .. n /\ DOMAIN r = 1 .. Len(s) - n
        /\ \A i \in 1 .. n : b[i] = s[i]
        /\ \A i \in 1 .. Len(s) - n : r[i] = s[n + i]
    BY LenProperties, PoppedIsSeq
  <1>2. ASSUME NEW i \in 1 .. Len(s)
        PROVE  s[i] \in ToSet(b) \cup ToSet(r)
    <2>1. CASE i <= n
      <3>1. i \in DOMAIN b /\ b[i] = s[i]
        BY <1>1, <2>1
      <3> QED BY <3>1 DEF ToSet
    <2>2. CASE i > n
      <3>1. i - n \in 1 .. Len(s) - n /\ n + (i - n) = i
        BY <1>1, <2>2
      <3>2. r[i - n] = s[i]
        BY <1>1, <3>1
      <3> QED BY <1>1, <3>1, <3>2 DEF ToSet
    <2> QED BY <1>1, <2>1, <2>2
  <1>3. \A i \in 1 .. n : b[i] \in ToSet(s)
    BY <1>1 DEF ToSet
  <1>4. \A i \in 1 .. Len(s) - n : r[i] \in ToSet(s)
    <2> TAKE i \in 1 .. Len(s) - n
    <2>1. n + i \in 1 .. Len(s)
      BY <1>1
    <2> QED BY <1>1, <2>1 DEF ToSet
  <1>5. ToSet(s) = ToSet(b) \cup ToSet(r)
    <2>1. ToSet(s) \subseteq ToSet(b) \cup ToSet(r)
      BY <1>1, <1>2 DEF ToSet
    <2>2. ToSet(b) \subseteq ToSet(s)
      BY <1>1, <1>3 DEF ToSet
    <2>3. ToSet(r) \subseteq ToSet(s)
      BY <1>1, <1>4 DEF ToSet
    <2> QED BY <2>1, <2>2, <2>3
  <1>6. ASSUME IsInjective(s)
        PROVE  IsInjective(b) /\ IsInjective(r)
    <2>1. \A i, k \in 1 .. Len(s) : s[i] = s[k] => i = k
      BY <1>1, <1>6 DEF IsInjective
    <2>2. IsInjective(b)
      BY <1>1, <2>1 DEF IsInjective
    <2>3. \A i, k \in 1 .. Len(s) - n : s[n + i] = s[n + k] => i = k
      <3> TAKE i, k \in 1 .. Len(s) - n
      <3>1. n + i \in 1 .. Len(s) /\ n + k \in 1 .. Len(s) /\ (n + i = n + k => i = k)
        BY <1>1
      <3> QED BY <2>1, <3>1
    <2>4. IsInjective(r)
      <3> SUFFICES ASSUME NEW i \in 1 .. Len(s) - n, NEW k \in 1 .. Len(s) - n, r[i] = r[k]
                   PROVE  i = k
        BY <1>1 DEF IsInjective
      <3>1. s[n + i] = s[n + k]
        BY <1>1
      <3> QED BY <2>3, <3>1
    <2> QED BY <2>2, <2>4
  <1> QED BY <1>5, <1>6

\* How much PopBatch takes.
LEMMA PopBatchTakes ==
  ASSUME LibraryScanAssumption, TypeOK, NEW j \in Job, Pop(j)
  PROVE  \E n \in 0 .. Len(staged[j]) :
           /\ n = IF Len(staged[j]) < BatchSize THEN Len(staged[j]) ELSE BatchSize
           /\ batch' = [batch EXCEPT ![j] = SubSeq(staged[j], 1, n)]
           /\ staged' = [staged EXCEPT ![j] = SubSeq(staged[j], n + 1, Len(staged[j]))]
  <1> DEFINE n == IF Len(staged[j]) < BatchSize THEN Len(staged[j]) ELSE BatchSize
  <1>1. Len(staged[j]) \in Nat
    BY LenProperties DEF TypeOK
  <1>2. n \in 0 .. Len(staged[j])
    BY <1>1 DEF LibraryScanAssumption
  <1> QED BY <1>2 DEF Pop, Set

\* The types hold in the initial states.
LEMMA InitTypes == LibraryScanAssumption /\ Init => TypeInv
  BY EmptySeq DEF LibraryScanAssumption, Init, TypeInv, TypeOK, PromotingInv, Running

\* A step of a finder keeps the types.
LEMMA FindKeepsTypes ==
  ASSUME LibraryScanAssumption, TypeInv, NEW j \in Job, NEW f \in Finder, Find(j, f)
  PROVE  TypeInv'
  <1> USE DEF TypeInv, PromotingInv
  <1>1. finder' \in [Job -> [Finder -> {"walk", "push", "pushed", "missed"}]]
    <2>1. PICK s \in {"push", "pushed", "missed"} : finder' = [finder EXCEPT ![j][f] = s]
      BY DEF Find, Miss, Emit, PushFails, FinderGoto
    <2> QED BY <2>1 DEF TypeOK
  <1>2. staged' \in [Job -> Seq(Path)] /\ found' \in [Job -> Nat]
    <2>1. PathOf[f] \in Path
      BY DEF Path
    <2>2. Append(staged[j], PathOf[f]) \in Seq(Path)
      BY <2>1, AppendProperties DEF TypeOK
    <2>3. staged' = staged \/ staged' = [staged EXCEPT ![j] = Append(@, PathOf[f])]
      BY DEF Find, Miss, Emit, PushFails, Stage
    <2>4. found' = found \/ found' = [found EXCEPT ![j] = @ + 1]
      BY DEF Find, Miss, Emit, PushFails, Count, counters
    <2>5. staged' \in [Job -> Seq(Path)]
      BY <2>2, <2>3 DEF TypeOK
    <2>6. found[j] + 1 \in Nat
      BY DEF TypeOK
    <2>7. found' \in [Job -> Nat]
      BY <2>4, <2>6 DEF TypeOK
    <2> QED BY <2>5, <2>7
  <1>3. UNCHANGED <<table, at, synced, local, restarts>>
    BY DEF Find, Miss, Emit, PushFails, counters
  <1> QED BY <1>1, <1>2, <1>3 DEF TypeOK, table, local

\* A step of run before the promotion keeps the types.
LEMMA FlushKeepsTypes ==
  ASSUME LibraryScanAssumption, TypeInv, NEW j \in Job,
         \/ Tick(j) \/ ProducerDone(j) \/ Pop(j) \/ PopNothing(j) \/ Upsert(j)
         \/ UpsertFails(j) \/ UpdateProgress(j) \/ Delete(j)
  PROVE  TypeInv'
  <1> USE DEF TypeInv, PromotingInv, Goto, Set, table, counters, local
  <1>1. CASE Tick(j) \/ ProducerDone(j)
    <2>1. at' = [at EXCEPT ![j] = "pop"] /\ last' \subseteq Job
      BY <1>1 DEF Tick, ProducerDone, TypeOK
    <2>2. UNCHANGED <<table, staged, finder, counters, batch, pending, exists, refused, restarts>>
      BY <1>1 DEF Tick, ProducerDone
    <2> QED BY <2>1, <2>2 DEF TypeOK, Running
  <1>2. CASE Pop(j)
    <2>1. PICK n \in 0 .. Len(staged[j]) :
            /\ batch' = [batch EXCEPT ![j] = SubSeq(staged[j], 1, n)]
            /\ staged' = [staged EXCEPT ![j] = SubSeq(staged[j], n + 1, Len(staged[j]))]
      BY <1>2, PopBatchTakes
    <2>2. SubSeq(staged[j], 1, n) \in Seq(Path) /\ SubSeq(staged[j], n + 1, Len(staged[j])) \in Seq(Path)
      BY PoppedIsSeq DEF TypeOK
    <2>3. batch' \in [Job -> Seq(Path)] /\ staged' \in [Job -> Seq(Path)]
      BY <2>1, <2>2 DEF TypeOK
    <2> QED BY <1>2, <2>3 DEF Pop, TypeOK, Running
  <1>3. CASE PopNothing(j)
    <2>1. \A i \in 1 .. Len(staged[j]) : staged[j][i] \in Path
      BY ElementOfSeq DEF TypeOK
    <2>2. DOMAIN staged[j] = 1 .. Len(staged[j])
      BY LenProperties DEF TypeOK
    <2>3. Left(j) \subseteq Path
      BY <2>1, <2>2 DEF Left, ToSet
    <2> QED BY <1>3, <2>3 DEF PopNothing, TypeOK, Running
  <1>4. CASE Upsert(j)
    <2>1. Len(batch[j]) \in Nat /\ <<>> \in Seq(Path)
      BY LenProperties, EmptySeq DEF TypeOK
    <2>2. synced' \in [Job -> Nat] /\ batch' \in [Job -> Seq(Path)]
      BY <1>4, <2>1 DEF Upsert, TypeOK
    <2>3. scanFile' \in [Path -> {"absent", "unmatched", "matched"}]
      BY <1>4 DEF Upsert, TypeOK
    <2> QED BY <1>4, <2>2, <2>3 DEF Upsert, TypeOK, Running
  <1>5. CASE UpsertFails(j)
    <2>1. /\ \A i \in 1 .. Len(staged[j]) : staged[j][i] \in Path
          /\ \A i \in 1 .. Len(batch[j]) : batch[j][i] \in Path
      BY ElementOfSeq DEF TypeOK
    <2>2. DOMAIN staged[j] = 1 .. Len(staged[j]) /\ DOMAIN batch[j] = 1 .. Len(batch[j])
      BY LenProperties DEF TypeOK
    <2>3. Left(j) \subseteq Path /\ ToSet(batch[j]) \subseteq Path
      BY <2>1, <2>2 DEF Left, ToSet
    <2>4. <<>> \in Seq(Path)
      BY EmptySeq
    <2>5. refused' \in [Job -> SUBSET Path] /\ batch' \in [Job -> Seq(Path)]
      BY <1>5, <2>3, <2>4 DEF UpsertFails, TypeOK
    <2> QED BY <1>5, <2>5 DEF UpsertFails, TypeOK, Running
  <1>6. CASE UpdateProgress(j)
    <2>1. counts' \in [Job -> [found : Nat, synced : Nat]]
      <3>1. [found |-> found[j], synced |-> synced[j]] \in [found : Nat, synced : Nat]
        BY DEF TypeOK
      <3>2. \/ counts' = [counts EXCEPT ![j] = [found |-> found[j], synced |-> synced[j]]]
            \/ counts' = counts
        BY <1>6 DEF UpdateProgress
      <3> QED BY <3>1, <3>2 DEF TypeOK
    <2>2. at' \in [Job -> Running \cup {"idle", "done", "dead"}]
      BY <1>6 DEF UpdateProgress, TypeOK, Running
    <2>3. \A k \in Job : at'[k] \in {"write", "mark"} => at[k] = at'[k]
      BY <1>6 DEF UpdateProgress, TypeOK
    <2> QED BY <1>6, <2>1, <2>2, <2>3 DEF UpdateProgress, TypeOK
  <1>7. CASE Delete(j)
    <2>1. staged' \in [Job -> Seq(Path)]
      <3>1. <<>> \in Seq(Path)
        BY EmptySeq
      <3>2. staged' = staged \/ staged' = [staged EXCEPT ![j] = <<>>]
        BY <1>7 DEF Delete
      <3> QED BY <3>1, <3>2 DEF TypeOK
    <2> QED BY <1>7, <2>1 DEF Delete, TypeOK, Running
  <1> QED BY <1>1, <1>2, <1>3, <1>4, <1>5, <1>6, <1>7

\* The title of the file a job promotes is known.
LEMMA ListedIsKnown ==
  ASSUME TypeOK, NEW j \in Job, pending[j] # <<>>
  PROVE  /\ Head(pending[j]) \in Path
         /\ TitleOf[Head(pending[j])] \in Title
         /\ media[TitleOf[Head(pending[j])]] \in Nat
  <1>1. Head(pending[j]) \in Path
    BY HeadTailProperties DEF TypeOK
  <1>2. TitleOf[Head(pending[j])] \in Title
    BY <1>1 DEF Title
  <1> QED BY <1>1, <1>2 DEF TypeOK

\* A step of promoteScanFiles keeps the types.
LEMMA PromoteKeepsTypes ==
  ASSUME LibraryScanAssumption, TypeInv, NEW j \in Job,
         \/ List(j) \/ ListFails(j) \/ Reject(j) \/ Look(j) \/ Write(j) \/ WriteFails(j)
         \/ Mark(j) \/ Promoted(j)
  PROVE  TypeInv'
  <1> USE DEF TypeInv, PromotingInv, Goto, Set, table, counters, local
  <1>1. CASE List(j)
    <2>1. PICK s \in SetToSeqs({p \in Path : scanFile[p] = "unmatched"}) :
            pending' = [pending EXCEPT ![j] = s]
      BY <1>1 DEF List
    <2>2. s \in Seq(Path)
      BY <2>1, ListedIsSeq
    <2> QED BY <1>1, <2>1, <2>2 DEF List, TypeOK, Running
  <1>2. CASE ListFails(j) \/ Look(j) \/ Promoted(j)
    <2>1. exists' \in [Job -> BOOLEAN]
      <3> DEFINE b == media[TitleOf[Head(pending[j])]] > 0
      <3>1. exists' = exists \/ (pending[j] # <<>> /\ exists' = [exists EXCEPT ![j] = b])
        BY <1>2 DEF ListFails, Look, Promoted
      <3>2. ASSUME pending[j] # <<>>
            PROVE  b \in BOOLEAN
        BY <3>2, ListedIsKnown
      <3> HIDE DEF b
      <3> QED BY <3>1, <3>2, Zenon DEF TypeOK, TypeInv
    <2>2. at' \in [Job -> Running \cup {"idle", "done", "dead"}]
      <3>1. PICK s \in {"finish", "write"} : at' = [at EXCEPT ![j] = s]
        BY <1>2 DEF ListFails, Look, Promoted
      <3> QED BY <3>1 DEF TypeOK, Running
    <2>3. \A k \in Job : at'[k] \in {"write", "mark"} => at[k] = at'[k] \/ pending[k] # <<>>
      BY <1>2 DEF ListFails, Look, Promoted, TypeOK
    <2>4. UNCHANGED <<table, staged, finder, counters, last, batch, pending, refused, restarts>>
      BY <1>2 DEF ListFails, Look, Promoted
    <2> QED BY <2>1, <2>2, <2>3, <2>4 DEF TypeOK
  <1>3. CASE Reject(j) \/ WriteFails(j) \/ Mark(j)
    <2>1. pending[j] # <<>>
      BY <1>3 DEF Reject, WriteFails, Mark
    <2>2. Tail(pending[j]) \in Seq(Path)
      BY <2>1, HeadTailProperties DEF TypeOK
    <2>3. pending' \in [Job -> Seq(Path)]
      BY <1>3, <2>2 DEF Reject, WriteFails, Mark, Dropped, TypeOK
    <2>4. scanFile' \in [Path -> {"absent", "unmatched", "matched"}]
      BY <1>3 DEF Reject, WriteFails, Mark, TypeOK
    <2>5. /\ at' = [at EXCEPT ![j] = "each"]
          /\ UNCHANGED <<status, counts, media, staged, finder, counters, last, batch,
                         exists, refused, restarts>>
      BY <1>3 DEF Reject, WriteFails, Mark
    <2>6. \A k \in Job : k # j => pending'[k] = pending[k]
      BY <1>3 DEF Reject, WriteFails, Mark, Dropped, TypeOK
    <2> QED BY <2>3, <2>4, <2>5, <2>6 DEF TypeOK, Running
  <1>4. CASE Write(j)
    <2>1. pending[j] # <<>>
      BY <1>4 DEF Write
    <2>2. media' \in [Title -> Nat]
      <3>1. /\ TitleOf[Head(pending[j])] \in Title
            /\ media[TitleOf[Head(pending[j])]] \in Nat
        BY <2>1, ListedIsKnown
      <3>3. \/ media' = media
            \/ media' = [media EXCEPT ![TitleOf[Head(pending[j])]] = @ + 1]
        BY <1>4 DEF Write
      <3>4. media[TitleOf[Head(pending[j])]] + 1 \in Nat
        BY <3>1
      <3> QED BY <3>1, <3>3, <3>4 DEF TypeOK
    <2> QED BY <1>4, <2>2 DEF Write, TypeOK, Running
  <1> QED BY <1>1, <1>2, <1>3, <1>4

\* What is left of jobs that are forgotten.
LEMMA ForgetKeepsTypes ==
  ASSUME TypeOK, NEW J, Forget(J)
  PROVE  /\ finder' \in [Job -> [Finder -> {"walk", "push", "pushed", "missed"}]]
         /\ found' \in [Job -> Nat] /\ synced' \in [Job -> Nat]
         /\ batch' \in [Job -> Seq(Path)] /\ pending' \in [Job -> Seq(Path)]
         /\ last' \subseteq Job /\ exists' \in [Job -> BOOLEAN]
         /\ refused' \in [Job -> SUBSET Path]
  BY EmptySeq DEF TypeOK, Forget

\* Every step keeps the types.
LEMMA NextKeepsTypes == LibraryScanAssumption /\ TypeInv /\ [Next]_vars => TypeInv'
  <1> SUFFICES ASSUME LibraryScanAssumption, TypeInv, [Next]_vars
               PROVE  TypeInv'
    OBVIOUS
  <1> USE DEF Goto, Set, table, counters, local
  <1>1. ASSUME NEW j \in Job, Start(j)
        PROVE  TypeInv'
    BY <1>1 DEF TypeInv, PromotingInv, Start, TypeOK, Running
  <1>2. ASSUME NEW j \in Job, Run(j)
        PROVE  TypeInv'
    <2>1. CASE Finish(j)
      <3>1. TypeOK'
        BY <1>2, <2>1, ForgetKeepsTypes DEF TypeInv, Finish, TypeOK, Running
      <3>2. PromotingInv'
        BY <1>2, <2>1 DEF TypeInv, TypeOK, PromotingInv, Finish, Forget
      <3> QED BY <3>1, <3>2 DEF TypeInv
    <2> QED BY <1>2, <2>1, FlushKeepsTypes, PromoteKeepsTypes DEF Run
  <1>3. ASSUME NEW j \in Job, NEW f \in Finder, Find(j, f)
        PROVE  TypeInv'
    BY <1>3, FindKeepsTypes
  <1>4. CASE Restart
    <2>1. restarts' \in 0 .. MaxRestarts
      BY <1>4 DEF Restart, TypeInv, TypeOK, LibraryScanAssumption
    <2>2. TypeOK'
      BY <1>4, <2>1, ForgetKeepsTypes DEF TypeInv, Restart, TypeOK, Running
    <2>3. PromotingInv'
      BY <1>4 DEF Restart, TypeInv, TypeOK, PromotingInv, Running
    <2> QED BY <2>2, <2>3 DEF TypeInv
  <1>5. CASE UNCHANGED vars
    BY <1>5 DEF vars, TypeInv, TypeOK, PromotingInv
  <1> QED BY <1>1, <1>2, <1>3, <1>4, <1>5 DEF Next

\* For any jobs, files and restarts: every variable keeps its type.
THEOREM TypesHold == LibraryScanAssumption /\ Spec => []TypeOK
  <1> SUFFICES ASSUME LibraryScanAssumption
               PROVE  Spec => []TypeOK
    OBVIOUS
  <1>1. TypeInv => TypeOK
    BY DEF TypeInv
  <1>2. Init => TypeInv
    BY InitTypes
  <1>3. TypeInv /\ [Next]_vars => TypeInv'
    BY NextKeepsTypes
  <1> QED BY <1>1, <1>2, <1>3, PTL DEF Spec
----------------------------------------------------------------------------
\* A job that has not started holds nothing.
FreshInv ==
  \A j \in Job : at[j] = "idle" =>
    /\ staged[j] = <<>> /\ batch[j] = <<>>
    /\ found[j] = 0 /\ synced[j] = 0
    /\ \A f \in Finder : finder[j][f] = "walk"

Pushing(j) == {f \in Finder : finder[j][f] = "push"}

\* Files counted and not yet stored: about to be pushed, staged or popped.
InFlight(j) == Cardinality(Pushing(j)) + Len(staged[j]) + Len(batch[j])

FlowInv == \A j \in Job : at[j] \in Running => synced[j] + InFlight(j) <= found[j]

CountInv == TypeInv /\ FreshInv /\ FlowInv /\ SyncedWithinFound

\* What is in flight is a number.
LEMMA InFlightIsNat ==
  ASSUME LibraryScanAssumption, TypeOK, NEW j \in Job
  PROVE  /\ IsFiniteSet(Pushing(j)) /\ Cardinality(Pushing(j)) \in Nat
         /\ Len(staged[j]) \in Nat /\ Len(batch[j]) \in Nat
         /\ found[j] \in Nat /\ synced[j] \in Nat
  <1>1. Pushing(j) \subseteq Finder
    BY DEF Pushing
  <1>2. IsFiniteSet(Pushing(j)) /\ Cardinality(Pushing(j)) \in Nat
    BY <1>1, FS_Subset, FS_CardinalityType DEF LibraryScanAssumption
  <1>3. Len(staged[j]) \in Nat /\ Len(batch[j]) \in Nat
    BY LenProperties DEF TypeOK
  <1> QED BY <1>2, <1>3 DEF TypeOK

\* Nothing is in flight in the initial states.
LEMMA InitCounts == LibraryScanAssumption /\ Init => CountInv
  <1> SUFFICES ASSUME LibraryScanAssumption, Init
               PROVE  CountInv
    OBVIOUS
  <1>1. TypeInv
    BY InitTypes
  <1>2. \A j \in Job : at[j] = "idle" /\ counts[j].found = 0 /\ counts[j].synced = 0
    BY DEF Init
  <1> QED BY <1>1, <1>2 DEF CountInv, Init, FreshInv, FlowInv, SyncedWithinFound, Running

\* A step of a finder: it counts before it pushes.
LEMMA FindKeepsFlow ==
  ASSUME LibraryScanAssumption, CountInv, NEW j \in Job, NEW f \in Finder, Find(j, f)
  PROVE  FreshInv' /\ FlowInv'
  <1> USE DEF CountInv, TypeInv
  <1>1. at[j] \in Running /\ at[j] # "idle" /\ finder[j][f] \in {"walk", "push"}
    BY DEF Find, Miss, Emit, PushFails, FinderGoto, Running
  <1>2. /\ UNCHANGED <<at, synced, batch>>
        /\ \A k \in Job : k # j => /\ finder'[k] = finder[k] /\ staged'[k] = staged[k]
                                   /\ found'[k] = found[k]
    BY DEF Find, Miss, Emit, PushFails, FinderGoto, Count, Stage, table, counters, local, TypeOK
  <1>3. FreshInv'
    BY <1>1, <1>2 DEF FreshInv
  <1>4. synced[j] + InFlight(j) <= found[j] => synced'[j] + InFlight(j)' <= found'[j]
    <2>1. ASSUME NEW s, finder' = [finder EXCEPT ![j][f] = s]
          PROVE  Pushing(j)' = IF s = "push" THEN Pushing(j) \cup {f} ELSE Pushing(j) \ {f}
      BY <2>1 DEF Pushing, TypeOK
    <2>2. IsFiniteSet(Pushing(j)) /\ Cardinality(Pushing(j)) \in Nat /\ Len(staged[j]) \in Nat
          /\ Len(batch[j]) \in Nat /\ found[j] \in Nat /\ synced[j] \in Nat
      BY InFlightIsNat
    <2> DEFINE p == Cardinality(Pushing(j))  s == Len(staged[j])  n == found[j]
               q == Cardinality(Pushing(j)')  t == Len(staged'[j])  m == found'[j]
               Less(u, v, w) == u \in Nat /\ v \in Nat /\ w \in Nat /\ u + v + n <= p + s + w
    <2>3. ASSUME Miss(j, f) \/ PushFails(j, f)
          PROVE  Less(q, t, m)
      <3>1. UNCHANGED <<staged, found>> /\ Pushing(j)' = Pushing(j) \ {f}
        BY <2>1, <2>3 DEF Miss, PushFails, FinderGoto, counters
      <3>2. q <= p /\ q \in Nat
        BY <2>2, <3>1, FS_Subset, FS_CardinalityType
      <3>3. t = s /\ m = n /\ p \in Nat /\ s \in Nat /\ n \in Nat
        BY <2>2, <3>1
      <3> HIDE DEF p, q, s, t, n, m
      <3> QED BY <3>2, <3>3
    <2>4. ASSUME FinderGoto(j, f, "walk", "push"), Count(j), UNCHANGED staged
          PROVE  Less(q, t, m)
      <3>1. Pushing(j)' = Pushing(j) \cup {f} /\ f \notin Pushing(j)
        BY <2>1, <2>4 DEF FinderGoto, Pushing
      <3>2. q = p + 1
        BY <2>2, <3>1, FS_AddElement
      <3>3. m = n + 1
        BY <2>4 DEF Count, TypeOK
      <3>4. t = s /\ p \in Nat /\ s \in Nat /\ n \in Nat
        BY <2>2, <2>4
      <3> HIDE DEF p, q, s, t, n, m
      <3> QED BY <3>2, <3>3, <3>4
    <2>5. ASSUME FinderGoto(j, f, "push", "pushed"), Stage(j, f), UNCHANGED found
          PROVE  Less(q, t, m)
      <3>1. Pushing(j)' = Pushing(j) \ {f} /\ f \in Pushing(j)
        <4>1. finder' = [finder EXCEPT ![j][f] = "pushed"] /\ finder[j][f] = "push"
          BY <2>5 DEF FinderGoto
        <4>2. f \in Pushing(j)
          BY <4>1 DEF Pushing
        <4>3. Pushing(j)' = Pushing(j) \ {f}
          BY <4>1 DEF Pushing, TypeOK
        <4> QED BY <4>2, <4>3
      <3>2. q = p - 1 /\ q \in Nat
        BY <2>2, <3>1, FS_RemoveElement, FS_CardinalityType
      <3>3. t = s + 1
        <4>1. PathOf[f] \in Path /\ staged[j] \in Seq(Path)
          BY DEF Path, TypeOK
        <4>2. staged'[j] = Append(staged[j], PathOf[f])
          BY <2>5 DEF Stage, TypeOK
        <4> QED BY <4>1, <4>2, AppendProperties
      <3>4. m = n /\ p \in Nat /\ s \in Nat /\ n \in Nat
        BY <2>2, <2>5
      <3> HIDE DEF p, q, s, t, n, m
      <3> QED BY <3>2, <3>3, <3>4
    <2>6. Less(q, t, m)
      <3> HIDE DEF Less
      <3> QED BY <2>3, <2>4, <2>5 DEF Find, Emit
    <2> DEFINE b == Len(batch[j])  y == synced[j]
    <2>7. InFlight(j) = p + s + b /\ InFlight(j)' = q + t + b /\ synced'[j] = y
      BY <1>2 DEF InFlight
    <2>8. p \in Nat /\ s \in Nat /\ n \in Nat /\ b \in Nat /\ y \in Nat
      BY <2>2
    <2> HIDE DEF p, q, s, t, n, m, b, y
    <2>9. y + (p + s + b) <= n => y + (q + t + b) <= m
      BY <2>6, <2>8
    <2> QED BY <2>7, <2>9 DEF n, m, y
  <1>5. \A k \in Job : k # j => InFlight(k)' = InFlight(k) /\ found'[k] = found[k]
    BY <1>2 DEF InFlight, Pushing
  <1> QED BY <1>2, <1>3, <1>4, <1>5 DEF FlowInv

\* A step of run: what it pops is in the batch, and what it stores was in the batch.
LEMMA RunKeepsFlow ==
  ASSUME LibraryScanAssumption, CountInv, NEW j \in Job, Run(j)
  PROVE  FreshInv' /\ FlowInv'
  <1> USE DEF CountInv, TypeInv
  <1>1. at[j] \in Running
    BY DEF Run, Tick, ProducerDone, Pop, PopNothing, Upsert, UpsertFails, UpdateProgress,
           Delete, List, ListFails, Reject, Look, Write, WriteFails, Mark, Promoted, Finish,
           Goto, Running
  <1>2. CASE Finish(j)
    <2>1. /\ at' = [at EXCEPT ![j] = "done"] /\ staged' = staged
          /\ \A k \in Job : k # j => /\ finder'[k] = finder[k] /\ found'[k] = found[k]
                                     /\ synced'[k] = synced[k] /\ batch'[k] = batch[k]
      BY <1>2 DEF Finish, Forget, Goto
    <2>2. at'[j] = "done" /\ \A k \in Job : k # j => at'[k] = at[k]
      BY <2>1 DEF TypeOK
    <2>3. \A k \in Job : k # j => InFlight(k)' = InFlight(k)
      BY <2>1 DEF InFlight, Pushing
    <2>4. "done" \notin Running
      BY DEF Running
    <2>5. FreshInv'
      BY <2>1, <2>2 DEF FreshInv
    <2> QED BY <2>1, <2>2, <2>3, <2>4, <2>5 DEF FlowInv
  <1>3. CASE ~Finish(j)
    <2>1. /\ UNCHANGED <<finder, found>>
          /\ at'[j] \in Running
          /\ \A k \in Job : k # j => /\ at'[k] = at[k] /\ staged'[k] = staged[k]
                                     /\ synced'[k] = synced[k] /\ batch'[k] = batch[k]
      <3> USE DEF Goto, Running, Set, TypeOK, table, counters, local
      <3>1. CASE Tick(j) \/ ProducerDone(j) \/ Pop(j) \/ PopNothing(j)
        BY <3>1 DEF Tick, ProducerDone, Pop, PopNothing
      <3>2. CASE Upsert(j) \/ UpsertFails(j) \/ UpdateProgress(j) \/ Delete(j)
        BY <3>2 DEF Upsert, UpsertFails, UpdateProgress, Delete
      <3>3. CASE List(j) \/ ListFails(j) \/ Reject(j) \/ Look(j)
        BY <3>3 DEF List, ListFails, Reject, Look
      <3>4. CASE Write(j) \/ WriteFails(j) \/ Mark(j) \/ Promoted(j)
        BY <3>4 DEF Write, WriteFails, Mark, Promoted
      <3> QED BY <1>3, <3>1, <3>2, <3>3, <3>4 DEF Run
    <2>2. "idle" \notin Running
      BY DEF Running
    <2>3. FreshInv'
      BY <2>1, <2>2 DEF FreshInv
    <2>4. /\ Cardinality(Pushing(j)) \in Nat /\ Len(staged[j]) \in Nat
          /\ Len(batch[j]) \in Nat /\ found[j] \in Nat /\ synced[j] \in Nat
      BY InFlightIsNat
    <2>5. synced'[j] + Len(staged'[j]) + Len(batch'[j])
            <= synced[j] + Len(staged[j]) + Len(batch[j])
          /\ synced'[j] \in Nat /\ Len(staged'[j]) \in Nat /\ Len(batch'[j]) \in Nat
      <3>1. CASE Pop(j)
        <4>1. PICK n \in 0 .. Len(staged[j]) :
                /\ batch' = [batch EXCEPT ![j] = SubSeq(staged[j], 1, n)]
                /\ staged' = [staged EXCEPT ![j] = SubSeq(staged[j], n + 1, Len(staged[j]))]
          BY <3>1, PopBatchTakes
        <4>2. /\ batch'[j] = SubSeq(staged[j], 1, n)
              /\ staged'[j] = SubSeq(staged[j], n + 1, Len(staged[j]))
          BY <4>1 DEF TypeOK
        <4>3. Len(batch'[j]) = n /\ Len(staged'[j]) = Len(staged[j]) - n
          BY <4>2, PoppedIsSeq DEF TypeOK
        <4>4. synced' = synced
          BY <3>1 DEF Pop, counters
        <4> DEFINE b == Len(batch[j])  s == Len(staged[j])
                   b2 == Len(batch'[j])  s2 == Len(staged'[j])  y == synced[j]
        <4>5. /\ b2 = n /\ s2 = s - n /\ synced'[j] = y /\ n \in 0 .. s
              /\ b \in Nat /\ s \in Nat /\ y \in Nat
          BY <2>4, <4>3, <4>4
        <4> HIDE DEF b, s, b2, s2, y
        <4>6. y + s2 + b2 <= y + s + b /\ s2 \in Nat /\ b2 \in Nat
          BY <4>5
        <4> QED BY <4>5, <4>6 DEF b, s, b2, s2, y
      <3>2. CASE Upsert(j)
        <4>1. synced'[j] = synced[j] + Len(batch[j]) /\ batch'[j] = <<>> /\ staged' = staged
          BY <3>2 DEF Upsert, Set, TypeOK
        <4> QED BY <2>4, <4>1, EmptySeq
      <3>3. CASE UpsertFails(j)
        <4>1. synced' = synced /\ batch'[j] = <<>> /\ staged' = staged
          BY <3>3 DEF UpsertFails, Set, TypeOK, counters
        <4> QED BY <2>4, <4>1, EmptySeq
      <3>4. CASE Delete(j)
        <4>1. UNCHANGED <<synced, batch>> /\ (staged'[j] = <<>> \/ staged' = staged)
          BY <3>4 DEF Delete, Set, TypeOK, counters, local
        <4> QED BY <2>4, <4>1, EmptySeq
      <3>5. CASE ~Pop(j) /\ ~Upsert(j) /\ ~UpsertFails(j) /\ ~Delete(j)
        <4>1. UNCHANGED <<synced, batch, staged>>
          BY <1>3, <3>5 DEF Run, Tick, ProducerDone, PopNothing, UpdateProgress,
             List, ListFails, Reject, Look, Write, WriteFails, Mark, Promoted, counters, local
        <4> QED BY <2>4, <4>1
      <3> QED BY <3>1, <3>2, <3>3, <3>4, <3>5
    <2>6. Pushing(j)' = Pushing(j)
      BY <2>1 DEF Pushing
    <2>7. synced[j] + InFlight(j) <= found[j] => synced'[j] + InFlight(j)' <= found'[j]
      <3> SUFFICES ASSUME synced[j] + InFlight(j) <= found[j]
                   PROVE  synced'[j] + InFlight(j)' <= found'[j]
        OBVIOUS
      <3>1. InFlight(j) = Cardinality(Pushing(j)) + Len(staged[j]) + Len(batch[j])
        BY DEF InFlight
      <3>2. InFlight(j)' = Cardinality(Pushing(j)) + Len(staged'[j]) + Len(batch'[j])
        BY <2>6 DEF InFlight
      <3>3. found'[j] = found[j]
        BY <2>1
      <3>4. synced[j] + InFlight(j)
              = synced[j] + Len(staged[j]) + Len(batch[j]) + Cardinality(Pushing(j))
        BY <2>4, <3>1
      <3>5. synced'[j] + InFlight(j)'
              = synced'[j] + Len(staged'[j]) + Len(batch'[j]) + Cardinality(Pushing(j))
        BY <2>4, <2>5, <3>2
      <3>6. synced[j] + Len(staged[j]) + Len(batch[j]) + Cardinality(Pushing(j)) <= found[j]
        BY <3>4
      <3>7. synced'[j] + Len(staged'[j]) + Len(batch'[j]) + Cardinality(Pushing(j)) <= found[j]
        <4> DEFINE a == synced[j]  b == Len(staged[j])  c == Len(batch[j])
                   x == synced'[j] y == Len(staged'[j]) z == Len(batch'[j])
                   p == Cardinality(Pushing(j))  n == found[j]
        <4>1. a \in Nat /\ b \in Nat /\ c \in Nat /\ p \in Nat /\ n \in Nat
          BY <2>4
        <4>2. x \in Nat /\ y \in Nat /\ z \in Nat /\ x + y + z <= a + b + c
          BY <2>5
        <4>3. a + b + c + p <= n
          BY <3>6
        <4> HIDE DEF a, b, c, x, y, z, p, n
        <4>4. x + y + z + p <= n
          BY <4>1, <4>2, <4>3
        <4> QED BY <4>4 DEF a, b, c, x, y, z, p, n
      <3> QED BY <3>3, <3>5, <3>7
    <2>8. \A k \in Job : k # j => InFlight(k)' = InFlight(k)
      BY <2>1 DEF InFlight, Pushing
    <2> QED BY <1>1, <2>1, <2>3, <2>7, <2>8 DEF FlowInv
  <1> QED BY <1>2, <1>3

\* A restart forgets every job that ran.
LEMMA RestartKeepsFlow ==
  ASSUME LibraryScanAssumption, CountInv, Restart
  PROVE  FreshInv' /\ FlowInv'
  <1>1. \A k \in Job : at'[k] \notin Running /\ (at'[k] = "idle" => at[k] = "idle")
    BY DEF Restart, Running
  <1>2. /\ staged' = staged
        /\ \A k \in Job : /\ batch'[k] = <<>> /\ found'[k] = 0 /\ synced'[k] = 0
                          /\ \A f \in Finder : finder'[k][f] = "walk"
    BY DEF Restart, Forget
  <1> QED BY <1>1, <1>2 DEF CountInv, FreshInv, FlowInv

\* The counts are written together.
LEMMA CountsStayInOrder ==
  ASSUME LibraryScanAssumption, CountInv, [Next]_vars
  PROVE  SyncedWithinFound'
  <1>1. ASSUME NEW j \in Job, UpdateProgress(j)
        PROVE  SyncedWithinFound'
    <2>1. at[j] \in Running
      BY <1>1 DEF UpdateProgress, Goto, Running
    <2>2. /\ Cardinality(Pushing(j)) \in Nat /\ Len(staged[j]) \in Nat
          /\ Len(batch[j]) \in Nat /\ found[j] \in Nat /\ synced[j] \in Nat
      BY InFlightIsNat DEF CountInv, TypeInv
    <2>3. synced[j] <= found[j]
      BY <2>1, <2>2 DEF CountInv, FlowInv, InFlight
    <2>4. \/ counts' = counts
          \/ counts' = [counts EXCEPT ![j] = [found |-> found[j], synced |-> synced[j]]]
      BY <1>1 DEF UpdateProgress, Set
    <2>5. \A k \in Job : \/ counts'[k] = counts[k]
                         \/ k = j /\ counts'[k].found = found[j] /\ counts'[k].synced = synced[j]
      BY <2>4 DEF CountInv, TypeInv, TypeOK
    <2> QED BY <2>3, <2>5 DEF CountInv, SyncedWithinFound
  <1>2. CASE counts' = counts
    BY <1>2 DEF CountInv, SyncedWithinFound
  <1>3. \/ counts' = counts
        \/ \E j \in Job : UpdateProgress(j)
    BY DEF Next, Start, Run, Find, Miss, Emit, PushFails, Tick, ProducerDone, Pop, PopNothing,
           Upsert, UpsertFails, Delete, List, ListFails, Reject, Look, Write, WriteFails,
           Mark, Promoted, Finish, Restart, table, vars
  <1> QED BY <1>1, <1>2, <1>3

\* Every step keeps the count of what is in flight.
LEMMA NextKeepsCounts == LibraryScanAssumption /\ CountInv /\ [Next]_vars => CountInv'
  <1> SUFFICES ASSUME LibraryScanAssumption, CountInv, [Next]_vars
               PROVE  CountInv'
    OBVIOUS
  <1>1. TypeInv'
    BY NextKeepsTypes DEF CountInv
  <1>2. SyncedWithinFound'
    BY CountsStayInOrder
  <1>3. ASSUME NEW j \in Job, Start(j)
        PROVE  FreshInv' /\ FlowInv'
    <2>1. /\ at[j] = "idle" /\ UNCHANGED <<staged, batch, found, synced, finder>>
          /\ at'[j] = "wait" /\ \A k \in Job : k # j => at'[k] = at[k]
      BY <1>3 DEF Start, Goto, CountInv, TypeInv, TypeOK, counters, local
    <2>2. FreshInv'
      BY <2>1 DEF CountInv, FreshInv
    <2>3. \A k \in Job : InFlight(k)' = InFlight(k)
      BY <2>1 DEF InFlight, Pushing
    <2>4. found[j] = 0 /\ synced[j] = 0 /\ InFlight(j) = 0
      <3>1. staged[j] = <<>> /\ batch[j] = <<>> /\ Pushing(j) = {}
            /\ found[j] = 0 /\ synced[j] = 0
        BY <2>1 DEF CountInv, FreshInv, Pushing
      <3> QED BY <3>1, EmptySeq, FS_EmptySet DEF InFlight
    <2> QED BY <2>1, <2>2, <2>3, <2>4 DEF CountInv, FlowInv
  <1>4. ASSUME NEW j \in Job, Run(j)
        PROVE  FreshInv' /\ FlowInv'
    BY <1>4, RunKeepsFlow
  <1>5. ASSUME NEW j \in Job, NEW f \in Finder, Find(j, f)
        PROVE  FreshInv' /\ FlowInv'
    BY <1>5, FindKeepsFlow
  <1>6. ASSUME Restart
        PROVE  FreshInv' /\ FlowInv'
    BY <1>6, RestartKeepsFlow
  <1>7. ASSUME UNCHANGED vars
        PROVE  FreshInv' /\ FlowInv'
    BY <1>7 DEF vars, CountInv, FreshInv, FlowInv, InFlight, Pushing, counters, local
  <1>8. FreshInv' /\ FlowInv'
    BY <1>3, <1>4, <1>5, <1>6, <1>7 DEF Next
  <1> QED BY <1>1, <1>2, <1>8 DEF CountInv

\* For any jobs, files and failures: files_synced, as it is stored, never runs ahead
\* of files_found, since no file is stored that was not counted, pushed and popped
\* before.
THEOREM SyncedStaysWithinFound == LibraryScanAssumption /\ Spec => []SyncedWithinFound
  <1> SUFFICES ASSUME LibraryScanAssumption
               PROVE  Spec => []SyncedWithinFound
    OBVIOUS
  <1>1. CountInv => SyncedWithinFound
    BY DEF CountInv
  <1>2. Init => CountInv
    BY InitCounts
  <1>3. CountInv /\ [Next]_vars => CountInv'
    BY NextKeepsCounts
  <1> QED BY <1>1, <1>2, <1>3, PTL DEF Spec
----------------------------------------------------------------------------
\* No file is found by two finders.
FoundOnce == \A f, g \in Finder : PathOf[f] = PathOf[g] => f = g

Promoting == {"list", "each", "write", "mark", "finish"}

Saved(j, p) == p \in Hashed \cup refused[j] \/ scanFile[p] # "absent"

\* The last drain starts when the finders are done.
LastInv(j) ==
  /\ j \in last => \A f \in Finder : finder[j][f] \in {"pushed", "missed"}
  /\ at[j] \in {"delete"} \cup Promoting => j \in last

\* A path is staged when its finder has pushed it, once, and is popped once.
OnceInv(j) ==
  /\ batch[j] # <<>> => at[j] = "upsert"
  /\ at[j] \in Running =>
       /\ IsInjective(staged[j]) /\ IsInjective(batch[j])
       /\ \A f \in Finder : PathOf[f] \in ToSet(staged[j]) => finder[j][f] = "pushed"

\* A path that was pushed is staged, popped or saved.
PushedInv(j) ==
  /\ at[j] \in Running \ Promoting => \A f \in Finder : finder[j][f] = "pushed" =>
       PathOf[f] \in ToSet(staged[j]) \cup ToSet(batch[j]) \/ Saved(j, PathOf[f])
  /\ at[j] \in Promoting => \A f \in Finder : finder[j][f] = "pushed" => Saved(j, PathOf[f])

\* What the last drain leaves behind is on record as refused.
DrainInv(j) ==
  /\ j \in last
  /\ at[j] \in {"counts", "delete"} \/ (at[j] = "upsert" /\ Len(batch[j]) < BatchSize)
  => ToSet(staged[j]) \subseteq refused[j]

JobInv(j) == LastInv(j) /\ OnceInv(j) /\ PushedInv(j) /\ DrainInv(j)

SaveInv == CountInv /\ \A j \in Job : JobInv(j)

\* Files that are promoted are files that are saved.
LEMMA SaveImplies == SaveInv => FoundIsSaved
  BY DEF SaveInv, JobInv, PushedInv, FoundIsSaved, Saved, Promoting

\* No row of scan_files is removed.
LEMMA RowsStay ==
  ASSUME TypeOK, [Next]_vars, NEW p \in Path, scanFile[p] # "absent"
  PROVE  scanFile'[p] # "absent"
  <1>1. ASSUME NEW j \in Job, Upsert(j)
        PROVE  scanFile'[p] # "absent"
    BY <1>1 DEF Upsert
  <1>2. ASSUME NEW j \in Job, Mark(j)
        PROVE  scanFile'[p] # "absent"
    BY <1>2 DEF Mark, Set, TypeOK
  <1>3. CASE scanFile' = scanFile
    BY <1>3
  <1>4. \/ scanFile' = scanFile
        \/ \E j \in Job : Upsert(j) \/ Mark(j)
    BY DEF Next, Start, Run, Find, Miss, Emit, PushFails, Tick, ProducerDone, Pop, PopNothing,
           UpdateProgress, UpsertFails, Delete, List, ListFails, Reject, Look, Write, WriteFails,
           Promoted, Finish, Restart, table, vars
  <1> QED BY <1>1, <1>2, <1>3, <1>4

\* A step of another job keeps the invariant of this one.
LEMMA OthersKeep ==
  ASSUME TypeOK, [Next]_vars, NEW k \in Job, JobInv(k),
         at'[k] = at[k], staged'[k] = staged[k], batch'[k] = batch[k], finder'[k] = finder[k],
         refused'[k] = refused[k], k \in last' <=> k \in last
  PROVE  JobInv(k)'
  <1>1. \A p \in Path : Saved(k, p) => Saved(k, p)'
    BY RowsStay DEF Saved
  <1>2. \A f \in Finder : PathOf[f] \in Path
    BY DEF Path
  <1>3. PushedInv(k)'
    BY <1>1, <1>2 DEF JobInv, PushedInv
  <1> QED BY <1>3 DEF JobInv, LastInv, OnceInv, DrainInv

\* Nothing is pushed in the initial states.
LEMMA InitSaves == LibraryScanAssumption /\ Init => SaveInv
  <1> SUFFICES ASSUME LibraryScanAssumption, Init
               PROVE  SaveInv
    OBVIOUS
  <1>1. \A j \in Job : at[j] = "idle" /\ batch[j] = <<>> /\ j \notin last
    BY DEF Init
  <1>2. "idle" \notin Running /\ "idle" \notin Promoting
    BY DEF Running, Promoting
  <1> QED BY <1>1, <1>2, InitCounts DEF SaveInv, JobInv, LastInv, OnceInv, PushedInv, DrainInv

\* A step of a finder: the path it pushes was not staged before.
LEMMA FindKeepsSaved ==
  ASSUME LibraryScanAssumption, FoundOnce, SaveInv, [Next]_vars,
         NEW j \in Job, NEW f \in Finder, Find(j, f)
  PROVE  \A k \in Job : JobInv(k)'
  <1>0. TypeOK /\ \A k \in Job : JobInv(k)
    BY DEF SaveInv, CountInv, TypeInv
  <1>1. PICK s \in {"push", "pushed", "missed"} :
          /\ finder' = [finder EXCEPT ![j][f] = s]
          /\ at[j] \in Running /\ finder[j][f] \in {"walk", "push"}
          /\ \/ s # "pushed" /\ staged' = staged
             \/ s = "pushed" /\ staged' = [staged EXCEPT ![j] = Append(@, PathOf[f])]
          /\ UNCHANGED <<scanFile, at, last, batch, refused>>
    BY DEF Find, Miss, Emit, PushFails, FinderGoto, Stage, table, local
  <1>2. ASSUME NEW k \in Job, k # j
        PROVE  JobInv(k)'
    <2>1. finder'[k] = finder[k] /\ staged'[k] = staged[k]
      BY <1>0, <1>1, <1>2 DEF TypeOK
    <2> QED BY <1>0, <1>1, <2>1, OthersKeep
  <1>3. /\ finder'[j][f] = s
        /\ \A g \in Finder : g # f => finder'[j][g] = finder[j][g]
    BY <1>0, <1>1 DEF TypeOK
  <1>4. j \notin last
    BY <1>0, <1>1 DEF JobInv, LastInv
  <1>5. at[j] \notin {"delete"} \cup Promoting /\ at'[j] = at[j] /\ j \notin last'
    BY <1>0, <1>1, <1>4 DEF JobInv, LastInv
  <1>6. PathOf[f] \in Path /\ PathOf[f] \notin ToSet(staged[j])
    BY <1>0, <1>1 DEF Path, JobInv, OnceInv
  <1>7. ASSUME s # "pushed"
        PROVE  JobInv(j)'
    <2>1. staged'[j] = staged[j] /\ \A p \in Path : Saved(j, p)' <=> Saved(j, p)
      BY <1>1, <1>7 DEF Saved
    <2>2. PushedInv(j)'
      BY <1>0, <1>1, <1>3, <1>5, <1>7, <2>1 DEF JobInv, PushedInv, Path
    <2>3. OnceInv(j)'
      <3>1. \A g \in Finder : PathOf[g] \in ToSet(staged[j]) => g # f
        BY <1>6
      <3> QED BY <1>0, <1>1, <1>3, <2>1, <3>1 DEF JobInv, OnceInv
    <2>4. LastInv(j)' /\ DrainInv(j)'
      BY <1>5 DEF LastInv, DrainInv
    <2> QED BY <2>2, <2>3, <2>4 DEF JobInv
  <1>8. ASSUME s = "pushed"
        PROVE  JobInv(j)'
    <2>1. staged[j] \in Seq(Path) /\ staged'[j] = Append(staged[j], PathOf[f])
      BY <1>0, <1>1, <1>8 DEF TypeOK
    <2>2. /\ ToSet(staged'[j]) = ToSet(staged[j]) \cup {PathOf[f]}
          /\ IsInjective(staged[j]) => IsInjective(staged'[j])
      BY <1>6, <2>1, AppendToSet
    <2>3. OnceInv(j)'
      <3>1. \A g \in Finder : PathOf[g] \in ToSet(staged'[j]) => finder'[j][g] = "pushed"
        BY <1>0, <1>1, <1>3, <1>8, <2>2 DEF JobInv, OnceInv, FoundOnce
      <3> QED BY <1>0, <1>1, <2>2, <3>1 DEF JobInv, OnceInv
    <2>4. PushedInv(j)'
      BY <1>0, <1>1, <1>3, <1>5, <1>8, <2>2 DEF JobInv, PushedInv, Saved
    <2>5. LastInv(j)' /\ DrainInv(j)'
      BY <1>5 DEF LastInv, DrainInv
    <2> QED BY <2>3, <2>4, <2>5 DEF JobInv
  <1> QED BY <1>2, <1>7, <1>8
\* A step of run before the promotion: what it pops is in the batch until it is saved
\* or refused.
LEMMA FlushKeepsSaved ==
  ASSUME LibraryScanAssumption, FoundOnce, SaveInv, [Next]_vars, NEW j \in Job,
         \/ Tick(j) \/ ProducerDone(j) \/ Pop(j) \/ PopNothing(j) \/ Upsert(j)
         \/ UpsertFails(j) \/ UpdateProgress(j) \/ Delete(j)
  PROVE  JobInv(j)'
  <1> USE DEF Goto, Set, table, counters, local
  <1>0. TypeOK /\ JobInv(j) /\ staged[j] \in Seq(Path) /\ batch[j] \in Seq(Path)
    BY DEF SaveInv, CountInv, TypeInv, TypeOK
  <1>1. /\ UNCHANGED finder
        /\ \A p \in Path : Saved(j, p) => Saved(j, p)'
    <2>1. UNCHANGED finder
      BY DEF Tick, ProducerDone, Pop, PopNothing, Upsert, UpsertFails, UpdateProgress, Delete
    <2>2. refused[j] \subseteq refused'[j]
      <3>1. \/ refused' = refused
            \/ \E S : refused' = [refused EXCEPT ![j] = @ \cup S]
            \/ UpsertFails(j)
        BY DEF Tick, ProducerDone, Pop, PopNothing, Upsert, UpdateProgress, Delete
      <3>2. ASSUME UpsertFails(j)
            PROVE  refused[j] \subseteq refused'[j]
        BY <1>0, <3>2 DEF UpsertFails, TypeOK
      <3> QED BY <1>0, <3>1, <3>2 DEF TypeOK
    <2> QED BY <1>0, <2>1, <2>2, RowsStay DEF Saved
  <1>2. \A f \in Finder : PathOf[f] \in Path
    BY DEF Path
  <1>3. CASE Tick(j) \/ ProducerDone(j) \/ UpdateProgress(j)
    <2>1. UNCHANGED <<staged, batch, refused>>
      BY <1>3 DEF Tick, ProducerDone, UpdateProgress
    <2>2. /\ at[j] = "wait" => at'[j] = "pop"
          /\ at[j] = "counts" => at'[j] = IF j \in last THEN "delete" ELSE "wait"
          /\ at[j] \in {"wait", "counts"}
      BY <1>0, <1>3 DEF Tick, ProducerDone, UpdateProgress, TypeOK
    <2>3. /\ j \in last => j \in last'
          /\ j \in last' => \A f \in Finder : finder'[j][f] \in {"pushed", "missed"}
          /\ at[j] = "counts" => last' = last
      BY <1>0, <1>1, <1>3 DEF Tick, ProducerDone, UpdateProgress, JobInv, LastInv
    <2>4. LastInv(j)'
      BY <2>2, <2>3 DEF LastInv, Promoting
    <2>5. OnceInv(j)'
      BY <1>0, <1>1, <2>1, <2>2 DEF JobInv, OnceInv, Running
    <2>6. PushedInv(j)'
      BY <1>0, <1>1, <1>2, <2>1, <2>2 DEF JobInv, PushedInv, Promoting, Running
    <2>7. DrainInv(j)'
      BY <1>0, <2>1, <2>2, <2>3 DEF JobInv, DrainInv
    <2> QED BY <2>4, <2>5, <2>6, <2>7 DEF JobInv
  <1>4. CASE Pop(j)
    <2>1. PICK n \in 0 .. Len(staged[j]) :
            /\ n = IF Len(staged[j]) < BatchSize THEN Len(staged[j]) ELSE BatchSize
            /\ batch' = [batch EXCEPT ![j] = SubSeq(staged[j], 1, n)]
            /\ staged' = [staged EXCEPT ![j] = SubSeq(staged[j], n + 1, Len(staged[j]))]
      BY <1>0, <1>4, PopBatchTakes
    <2>2. /\ batch'[j] = SubSeq(staged[j], 1, n)
          /\ staged'[j] = SubSeq(staged[j], n + 1, Len(staged[j]))
      BY <1>0, <2>1 DEF TypeOK
    <2>3. /\ ToSet(staged[j]) = ToSet(batch'[j]) \cup ToSet(staged'[j])
          /\ IsInjective(staged[j]) => IsInjective(batch'[j]) /\ IsInjective(staged'[j])
      BY <1>0, <2>2, PopToSet
    <2>4. at[j] = "pop" /\ at'[j] = "upsert" /\ UNCHANGED <<last, refused>>
      BY <1>0, <1>4 DEF Pop, TypeOK
    <2>5. batch[j] = <<>> /\ ToSet(batch[j]) = {}
      BY <1>0, <2>4, EmptyToSet DEF JobInv, OnceInv
    <2>6. LastInv(j)'
      BY <1>0, <1>1, <2>4 DEF JobInv, LastInv, Promoting
    <2>7. OnceInv(j)'
      BY <1>0, <1>1, <2>3, <2>4 DEF JobInv, OnceInv, Running
    <2>8. PushedInv(j)'
      BY <1>0, <1>1, <1>2, <2>3, <2>4, <2>5 DEF JobInv, PushedInv, Promoting, Running
    <2>9. DrainInv(j)'
      <3>1. Len(batch'[j]) = n /\ Len(staged'[j]) = Len(staged[j]) - n /\ staged'[j] \in Seq(Path)
        BY <1>0, <2>2, PoppedIsSeq
      <3>2. Len(staged[j]) \in Nat
        BY <1>0, LenProperties
      <3>3. n < BatchSize => Len(staged'[j]) = 0
        <4>1. n < BatchSize => n = Len(staged[j])
          BY <2>1, <3>2 DEF LibraryScanAssumption
        <4> QED BY <3>1, <3>2, <4>1
      <3>4. n < BatchSize => ToSet(staged'[j]) = {}
        BY <3>1, <3>3, EmptyToSet, EmptySeq
      <3> QED BY <2>4, <3>1, <3>4 DEF DrainInv
    <2> QED BY <2>6, <2>7, <2>8, <2>9 DEF JobInv
  <1>5. CASE PopNothing(j)
    <2>1. /\ at[j] = "pop" /\ at'[j] = "counts" /\ UNCHANGED <<staged, batch, last>>
          /\ refused'[j] = refused[j] \cup Left(j)
      BY <1>0, <1>5 DEF PopNothing, TypeOK
    <2>2. LastInv(j)'
      BY <1>0, <1>1, <2>1 DEF JobInv, LastInv, Promoting
    <2>3. OnceInv(j)'
      BY <1>0, <1>1, <2>1 DEF JobInv, OnceInv, Running
    <2>4. PushedInv(j)'
      BY <1>0, <1>1, <1>2, <2>1 DEF JobInv, PushedInv, Promoting, Running
    <2>5. DrainInv(j)'
      BY <2>1 DEF DrainInv, Left
    <2> QED BY <2>2, <2>3, <2>4, <2>5 DEF JobInv
  <1>6. CASE Upsert(j)
    <2>1. /\ at[j] = "upsert" /\ at'[j] = IF Len(batch[j]) < BatchSize THEN "counts" ELSE "pop"
          /\ UNCHANGED <<staged, last, refused>> /\ batch'[j] = <<>>
      BY <1>0, <1>6 DEF Upsert, TypeOK
    <2>2. \A p \in Path : p \in ToSet(batch[j]) => Saved(j, p)'
      BY <1>6 DEF Upsert, Kept, Saved
    <2>3. LastInv(j)'
      BY <1>0, <1>1, <2>1 DEF JobInv, LastInv, Promoting
    <2>4. OnceInv(j)'
      BY <1>0, <1>1, <2>1, EmptyToSet DEF JobInv, OnceInv, Running
    <2>5. PushedInv(j)'
      BY <1>0, <1>1, <1>2, <2>1, <2>2 DEF JobInv, PushedInv, Promoting, Running
    <2>6. DrainInv(j)'
      BY <1>0, <2>1 DEF JobInv, DrainInv
    <2> QED BY <2>3, <2>4, <2>5, <2>6 DEF JobInv
  <1>7. CASE UpsertFails(j)
    <2>1. ~MeetsRowTwice(j)
      BY <1>0, <1>7 DEF UpsertFails, JobInv, OnceInv, IsInjective, MeetsRowTwice, Running
    <2>2. /\ at[j] = "upsert" /\ at'[j] = "counts" /\ batch'[j] = <<>>
          /\ UNCHANGED <<staged, last>>
          /\ refused'[j] = refused[j] \cup ToSet(batch[j]) \cup Left(j)
      BY <1>0, <1>7, <2>1 DEF UpsertFails, TypeOK
    <2>3. LastInv(j)'
      BY <1>0, <1>1, <2>2 DEF JobInv, LastInv, Promoting
    <2>4. OnceInv(j)'
      BY <1>0, <1>1, <2>2, EmptyToSet DEF JobInv, OnceInv, Running
    <2>5. PushedInv(j)'
      <3>1. \A p \in ToSet(batch[j]) : Saved(j, p)'
        BY <2>2 DEF Saved
      <3> QED BY <1>0, <1>1, <1>2, <2>2, <3>1 DEF JobInv, PushedInv, Promoting, Running
    <2>6. DrainInv(j)'
      BY <2>2 DEF DrainInv, Left
    <2> QED BY <2>3, <2>4, <2>5, <2>6 DEF JobInv
  <1>8. CASE Delete(j)
    <2>1. /\ at[j] = "delete" /\ at'[j] = "list" /\ UNCHANGED <<batch, last, refused>>
          /\ staged'[j] = staged[j] \/ staged'[j] = <<>>
      BY <1>0, <1>8 DEF Delete, TypeOK
    <2>2. batch[j] = <<>> /\ ToSet(batch[j]) = {} /\ j \in last
      BY <1>0, <2>1, EmptyToSet DEF JobInv, OnceInv, LastInv
    <2>3. \A p \in Path : p \in ToSet(staged[j]) => Saved(j, p)
      BY <1>0, <2>1, <2>2 DEF JobInv, DrainInv, Saved
    <2>4. LastInv(j)'
      BY <1>0, <1>1, <2>1 DEF JobInv, LastInv
    <2>5. OnceInv(j)'
      BY <1>0, <1>1, <2>1, <2>2, EmptyToSet DEF JobInv, OnceInv, Running
    <2>6. PushedInv(j)'
      BY <1>0, <1>1, <1>2, <2>1, <2>2, <2>3 DEF JobInv, PushedInv, Promoting, Running
    <2>7. DrainInv(j)'
      BY <2>1 DEF DrainInv
    <2> QED BY <2>4, <2>5, <2>6, <2>7 DEF JobInv
  <1> QED BY <1>3, <1>4, <1>5, <1>6, <1>7, <1>8

\* A step of promoteScanFiles, or the end of the job.
LEMMA PromoteKeepsSaved ==
  ASSUME LibraryScanAssumption, SaveInv, [Next]_vars, NEW j \in Job,
         \/ List(j) \/ ListFails(j) \/ Reject(j) \/ Look(j) \/ Write(j) \/ WriteFails(j)
         \/ Mark(j) \/ Promoted(j) \/ Finish(j)
  PROVE  JobInv(j)'
  <1> USE DEF Goto, Set, table, counters, local
  <1>0. TypeOK /\ JobInv(j)
    BY DEF SaveInv, CountInv, TypeInv
  <1>1. CASE Finish(j)
    <2>1. at'[j] = "done" /\ j \notin last' /\ batch'[j] = <<>>
      BY <1>0, <1>1 DEF Finish, Forget, TypeOK
    <2> QED BY <2>1 DEF JobInv, LastInv, OnceInv, PushedInv, DrainInv, Running, Promoting
  <1>2. CASE ~Finish(j)
    <2>1. /\ UNCHANGED <<finder, staged, batch, last, refused>>
          /\ at[j] \in Promoting /\ at'[j] \in Promoting
      BY <1>0, <1>2 DEF List, ListFails, Reject, Look, Write, WriteFails, Mark, Promoted,
                        Promoting, TypeOK
    <2>2. \A f \in Finder : Saved(j, PathOf[f]) => Saved(j, PathOf[f])'
      BY <1>0, <2>1, RowsStay DEF Saved, Path
    <2>3. LastInv(j)' /\ OnceInv(j)'
      BY <1>0, <2>1 DEF JobInv, LastInv, OnceInv, Running, Promoting
    <2>4. PushedInv(j)'
      BY <1>0, <2>1, <2>2 DEF JobInv, PushedInv
    <2>5. DrainInv(j)'
      BY <2>1 DEF DrainInv, Promoting
    <2> QED BY <2>3, <2>4, <2>5 DEF JobInv
  <1> QED BY <1>1, <1>2

\* Every step keeps what was pushed staged, popped, saved or refused.
LEMMA NextKeepsSaved ==
  LibraryScanAssumption /\ FoundOnce /\ SaveInv /\ [Next]_vars => SaveInv'
  <1> SUFFICES ASSUME LibraryScanAssumption, FoundOnce, SaveInv, [Next]_vars
               PROVE  \A k \in Job : JobInv(k)'
    BY NextKeepsCounts DEF SaveInv
  <1>0. TypeOK /\ \A k \in Job : JobInv(k)
    BY DEF SaveInv, CountInv, TypeInv
  <1>1. ASSUME NEW j \in Job, Start(j)
        PROVE  \A k \in Job : JobInv(k)'
    <2>1. /\ at[j] = "idle" /\ UNCHANGED <<scanFile, staged, finder, last, batch, refused>>
          /\ at'[j] = "wait" /\ \A k \in Job : k # j => at'[k] = at[k]
      BY <1>0, <1>1 DEF Start, Goto, TypeOK, local
    <2>2. /\ staged[j] = <<>> /\ batch[j] = <<>>
          /\ \A f \in Finder : finder[j][f] = "walk"
      BY <2>1 DEF SaveInv, CountInv, FreshInv
    <2>3. JobInv(j)'
      BY <1>0, <2>1, <2>2, EmptyToSet
         DEF JobInv, LastInv, OnceInv, PushedInv, DrainInv, Running, Promoting
    <2>4. ASSUME NEW k \in Job, k # j
          PROVE  JobInv(k)'
      BY <1>0, <2>1, <2>4, OthersKeep
    <2> QED BY <2>3, <2>4
  <1>2. ASSUME NEW j \in Job, Run(j)
        PROVE  \A k \in Job : JobInv(k)'
    <2>1. JobInv(j)'
      BY <1>2, FlushKeepsSaved, PromoteKeepsSaved DEF Run
    <2>2. ASSUME NEW k \in Job, k # j
          PROVE  JobInv(k)'
      <3>1. /\ at'[k] = at[k] /\ staged'[k] = staged[k] /\ batch'[k] = batch[k]
            /\ finder'[k] = finder[k] /\ refused'[k] = refused[k]
            /\ k \in last' <=> k \in last
        <4>1. CASE Finish(j)
          BY <1>0, <2>2, <4>1 DEF Finish, Forget, Goto, TypeOK
        <4>2. CASE ~Finish(j)
          <5> USE <1>0, <2>2 DEF Goto, Set, TypeOK, table, counters, local
          <5>1. CASE Tick(j) \/ ProducerDone(j) \/ Pop(j) \/ PopNothing(j)
            BY <5>1 DEF Tick, ProducerDone, Pop, PopNothing
          <5>2. CASE Upsert(j) \/ UpsertFails(j) \/ UpdateProgress(j) \/ Delete(j)
            BY <5>2 DEF Upsert, UpsertFails, UpdateProgress, Delete
          <5>3. CASE List(j) \/ ListFails(j) \/ Reject(j) \/ Look(j)
            BY <5>3 DEF List, ListFails, Reject, Look
          <5>4. CASE Write(j) \/ WriteFails(j) \/ Mark(j) \/ Promoted(j)
            BY <5>4 DEF Write, WriteFails, Mark, Promoted
          <5> QED BY <1>2, <4>2, <5>1, <5>2, <5>3, <5>4 DEF Run
        <4> QED BY <4>1, <4>2
      <3> QED BY <1>0, <3>1, OthersKeep
    <2> QED BY <2>1, <2>2
  <1>3. ASSUME NEW j \in Job, NEW f \in Finder, Find(j, f)
        PROVE  \A k \in Job : JobInv(k)'
    BY <1>3, FindKeepsSaved
  <1>4. ASSUME Restart
        PROVE  \A k \in Job : JobInv(k)'
    <2>1. \A k \in Job : at'[k] \notin Running /\ k \notin last' /\ batch'[k] = <<>>
      BY <1>4 DEF Restart, Forget, Running
    <2> QED BY <2>1 DEF JobInv, LastInv, OnceInv, PushedInv, DrainInv, Running, Promoting
  <1>5. ASSUME UNCHANGED vars
        PROVE  \A k \in Job : JobInv(k)'
    BY <1>0, <1>5, OthersKeep DEF vars, local
  <1> QED BY <1>1, <1>2, <1>3, <1>4, <1>5 DEF Next

\* For any jobs, files, failures and restarts: when no two walks find the same file,
\* every file that was pushed is in scan_files when the scan turns to the promotion,
\* but for hash names and calls that failed.  No batch is lost, whatever the finders
\* push while it is popped and stored.
THEOREM FilesAreSaved == LibraryScanAssumption /\ FoundOnce /\ Spec => []FoundIsSaved
  <1> SUFFICES ASSUME LibraryScanAssumption, FoundOnce
               PROVE  Spec => []FoundIsSaved
    OBVIOUS
  <1>1. SaveInv => FoundIsSaved
    BY SaveImplies
  <1>2. Init => SaveInv
    BY InitSaves
  <1>3. SaveInv /\ [Next]_vars => SaveInv'
    BY NextKeepsSaved
  <1> QED BY <1>1, <1>2, <1>3, PTL DEF Spec
----------------------------------------------------------------------------
\* One scan runs at a time.
SerialInv == \A i, j \in Job : at[i] \in Running /\ at[j] \in Running => i = j

\* A job that did not find the title is about to add its first row.
LookedInv ==
  \A j \in Job : at[j] = "write" /\ ~exists[j] => media[TitleOf[Head(pending[j])]] = 0

ItemInv == TypeInv /\ SerialInv /\ LookedInv /\ OneItemPerTitle

\* There is no item in the initial states.
LEMMA InitItems == LibraryScanAssumption /\ Init => ItemInv
  <1> SUFFICES ASSUME LibraryScanAssumption, Init
               PROVE  ItemInv
    OBVIOUS
  <1>1. TypeInv /\ \A j \in Job : at[j] = "idle"
    BY InitTypes DEF Init
  <1>2. \A t \in Title : media[t] = 0
    BY DEF Init
  <1> QED BY <1>1, <1>2 DEF ItemInv, SerialInv, LookedInv, OneItemPerTitle, Running

\* Scans that do not overlap run one at a time.
LEMMA NextIsSerial ==
  ASSUME TypeOK, SerialInv, ~Overlap, [Next]_vars
  PROVE  SerialInv'
  <1>1. ASSUME NEW j \in Job, Start(j)
        PROVE  SerialInv'
    BY <1>1 DEF Start, Goto, SerialInv, TypeOK
  <1>2. \/ \E j \in Job : Start(j)
        \/ \A k \in Job : at'[k] \in Running => at[k] \in Running
    <2>1. ASSUME NEW j \in Job, Run(j)
          PROVE  at[j] \in Running /\ \A k \in Job : k # j => at'[k] = at[k]
      BY <2>1 DEF Run, Tick, ProducerDone, Pop, PopNothing, Upsert, UpsertFails, UpdateProgress,
           Delete, List, ListFails, Reject, Look, Write, WriteFails, Mark, Promoted, Finish,
           Goto, Running, TypeOK
    <2>2. ASSUME NEW j \in Job, NEW f \in Finder, Find(j, f)
          PROVE  at' = at
      BY <2>2 DEF Find, Miss, Emit, PushFails
    <2>3. ASSUME Restart
          PROVE  \A k \in Job : at'[k] \notin Running
      BY <2>3 DEF Restart, Running
    <2> QED BY <2>1, <2>2, <2>3 DEF Next, vars
  <1> QED BY <1>1, <1>2 DEF SerialInv

\* Every step keeps one item per title.
LEMMA NextKeepsItems == LibraryScanAssumption /\ ~Overlap /\ ItemInv /\ [Next]_vars => ItemInv'
  <1> SUFFICES ASSUME LibraryScanAssumption, ~Overlap, ItemInv, [Next]_vars
               PROVE  ItemInv'
    OBVIOUS
  <1>0. TypeOK /\ TypeInv' /\ SerialInv'
    BY NextKeepsTypes, NextIsSerial DEF ItemInv, TypeInv
  <1>1. ASSUME NEW j \in Job, Write(j)
        PROVE  LookedInv' /\ OneItemPerTitle'
    <2>1. at[j] = "write" /\ at'[j] = "mark" /\ UNCHANGED <<pending, exists>>
          /\ \A k \in Job : k # j => at'[k] = at[k]
      BY <1>0, <1>1 DEF Write, Goto, TypeOK, local
    <2>2. \A k \in Job : k # j => at[k] # "write"
      BY <2>1 DEF ItemInv, SerialInv, Running
    <2>3. LookedInv'
      BY <2>1, <2>2 DEF LookedInv
    <2>4. TitleOf[Head(pending[j])] \in Title
      BY <2>1, ListedIsKnown DEF ItemInv, TypeInv, PromotingInv
    <2>5. CASE exists[j]
      <3>1. media' = media
        BY <1>1, <2>5 DEF Write
      <3> QED BY <2>3, <3>1 DEF ItemInv, OneItemPerTitle
    <2>6. CASE ~exists[j]
      <3> DEFINE t == TitleOf[Head(pending[j])]
      <3>1. media[t] = 0
        BY <2>1, <2>6 DEF ItemInv, LookedInv
      <3>2. media' = [media EXCEPT ![t] = @ + 1]
        BY <1>1, <2>6 DEF Write
      <3>3. media'[t] = 1 /\ \A u \in Title : u # t => media'[u] = media[u]
        BY <1>0, <2>4, <3>1, <3>2 DEF TypeOK
      <3> HIDE DEF t
      <3> QED BY <2>3, <3>3 DEF ItemInv, OneItemPerTitle
    <2> QED BY <2>3, <2>5, <2>6
  <1>2. ASSUME NEW j \in Job, Look(j)
        PROVE  LookedInv' /\ OneItemPerTitle'
    <2>1. /\ UNCHANGED <<media, pending>>
          /\ pending[j] # <<>>
          /\ exists' = [exists EXCEPT ![j] = media[TitleOf[Head(pending[j])]] > 0]
          /\ at' = [at EXCEPT ![j] = "write"]
      BY <1>2 DEF Look, Goto, Set, table
    <2>2. media[TitleOf[Head(pending[j])]] \in Nat
      BY <1>0, <2>1, ListedIsKnown
    <2>3. ~exists'[j] => media[TitleOf[Head(pending[j])]] = 0
      <3> DEFINE n == media[TitleOf[Head(pending[j])]]
      <3>1. exists'[j] = (n > 0)
        BY <1>0, <2>1 DEF TypeOK
      <3>2. n \in Nat
        BY <2>2
      <3> HIDE DEF n
      <3>3. ~(n > 0) => n = 0
        BY <3>2
      <3>4. ~exists'[j] => n = 0
        BY <3>1, <3>3, Zenon
      <3> QED BY <3>4 DEF n
    <2>4. \A k \in Job : k # j => at'[k] = at[k] /\ exists'[k] = exists[k]
      BY <1>0, <2>1 DEF TypeOK
    <2> QED BY <2>1, <2>3, <2>4 DEF ItemInv, LookedInv, OneItemPerTitle
  <1>3. ASSUME UNCHANGED media,
               \A k \in Job : at'[k] = "write" =>
                 at[k] = "write" /\ pending'[k] = pending[k] /\ exists'[k] = exists[k]
        PROVE  LookedInv' /\ OneItemPerTitle'
    BY <1>3 DEF ItemInv, LookedInv, OneItemPerTitle
  <1>4. ASSUME NEW j \in Job, Start(j)
        PROVE  LookedInv' /\ OneItemPerTitle'
    BY <1>0, <1>3, <1>4 DEF Start, Goto, TypeOK, local
  <1>5. ASSUME NEW j \in Job, Run(j), ~Write(j), ~Look(j)
        PROVE  LookedInv' /\ OneItemPerTitle'
    <2>1. UNCHANGED media /\ at'[j] # "write"
      BY <1>0, <1>5 DEF Run, Tick, ProducerDone, Pop, PopNothing, Upsert, UpsertFails,
         UpdateProgress, Delete, List, ListFails, Reject, WriteFails, Mark, Promoted, Finish,
         Goto, TypeOK, table
    <2>2. \A k \in Job : k # j =>
            at'[k] = at[k] /\ pending'[k] = pending[k] /\ exists'[k] = exists[k]
      <3>1. CASE Finish(j)
        BY <1>0, <3>1 DEF Finish, Forget, Goto, TypeOK
      <3>2. CASE ~Finish(j)
        BY <1>0, <1>5, <3>2 DEF Run, Tick, ProducerDone, Pop, PopNothing, Upsert, UpsertFails,
           UpdateProgress, Delete, List, ListFails, Reject, WriteFails, Mark, Promoted,
           Goto, Set, Dropped, TypeOK, local
      <3> QED BY <3>1, <3>2
    <2> QED BY <1>3, <2>1, <2>2
  <1>6. ASSUME NEW j \in Job, NEW f \in Finder, Find(j, f)
        PROVE  LookedInv' /\ OneItemPerTitle'
    BY <1>3, <1>6 DEF Find, Miss, Emit, PushFails, table, local
  <1>7. ASSUME Restart
        PROVE  LookedInv' /\ OneItemPerTitle'
    <2>1. UNCHANGED media /\ \A k \in Job : at'[k] # "write"
      BY <1>7 DEF Restart, Running, table
    <2> QED BY <1>3, <2>1
  <1>8. ASSUME UNCHANGED vars
        PROVE  LookedInv' /\ OneItemPerTitle'
    BY <1>3, <1>8 DEF vars, table, local
  <1>9. LookedInv' /\ OneItemPerTitle'
    BY <1>1, <1>2, <1>4, <1>5, <1>6, <1>7, <1>8 DEF Next
  <1> QED BY <1>0, <1>9 DEF ItemInv

\* For any jobs, files, failures and restarts: scans of a library that do not overlap
\* give each title one media item, also when a crash comes between an item and the
\* mark on its file.
THEOREM TitlesHaveOneItem == LibraryScanAssumption /\ ~Overlap /\ Spec => []OneItemPerTitle
  <1> SUFFICES ASSUME LibraryScanAssumption, ~Overlap
               PROVE  Spec => []OneItemPerTitle
    OBVIOUS
  <1>1. ItemInv => OneItemPerTitle
    BY DEF ItemInv
  <1>2. Init => ItemInv
    BY InitItems
  <1>3. ItemInv /\ [Next]_vars => ItemInv'
    BY NextKeepsItems
  <1> QED BY <1>1, <1>2, <1>3, PTL DEF Spec
=============================================================================
